----------------------------- MODULE Controller -----------------------------
(***************************************************************************)
(* The controller: an HTTP server that keeps the configuration, hands out  *)
(* revisions of it, and supervises one migration and one verification,     *)
(* each in a child process.  Browser tabs read and save the configuration  *)
(* and ask for actions with the revision that they show.  The controller   *)
(* may be shut down or killed at any time; its children then go on without *)
(* it, and the lock of the migration directory is what they meet at.       *)
(*                                                                         *)
(* A configuration has two parts: the connection strings, given at the     *)
(* start or typed into the dashboard and never written, and the settings,  *)
(* kept in controller-config.json.                                         *)
(***************************************************************************)
EXTENDS Integers, FiniteSets

CONSTANTS
  Setting, Dsn,     \* values of the two parts of a configuration
  BaseSetting, BaseDsn,   \* the ones that the command line gives
  MaxStart, MaxSave, MaxOp, MaxReq   \* bounds on controllers, saves, operations
                                     \* and concurrent requests

ASSUME BaseAssumption == BaseSetting \in Setting /\ BaseDsn \in Dsn
ASSUME BoundAssumption == MaxStart \in Nat /\ MaxSave \in Nat /\ MaxOp \in Nat
                             /\ MaxReq \in Nat

Slot == {"migration", "verification"}
Name == {"preflight", "run", "restart-base-copy", "verify"}
Phase == {"none", "preflight", "copy", "catchup", "follow", "complete"}
Config == [dsn : Dsn, set : Setting]
None == [id |-> 0, name |-> "none", state |-> "idle"]

VARIABLES
  up,        \* the controller process is running
  gen,       \* its configuration generation
  rev,       \* its configuration revision
  cfg,       \* its configuration
  file,      \* controller-config.json, as reads see it
  disk,      \* controller-config.json, as a power failure leaves it
  saves,     \* saves made so far
  ops,       \* the operation of each slot
  nextID,    \* operations started so far
  shown,     \* what tabs may show: revisions with their configurations
  req,       \* requests for an action whose lifecycle check has passed
  worker,    \* child processes
  lock,      \* holder of the directory's lock, 0 if none
  phase,     \* recorded phase of the migration
  acked,     \* settings of the last save that was reported as made
  tried      \* settings of the saves since then that were not

vars == <<up, gen, rev, cfg, file, disk, saves, ops, nextID, shown, req, worker, lock,
          phase, acked, tried>>
server == <<up, gen, rev, cfg>>
saved == <<file, disk, saves, acked, tried>>
children == <<worker, lock, phase>>

Init ==
  /\ up = FALSE /\ gen = 0 /\ rev = 0
  /\ cfg = [dsn |-> BaseDsn, set |-> BaseSetting]
  /\ file = BaseSetting /\ disk = BaseSetting /\ saves = 0
  /\ acked = BaseSetting /\ tried = {}
  /\ ops = [s \in Slot |-> None] /\ nextID = 0
  /\ shown = {} /\ req = {}
  /\ worker = {} /\ lock = 0 /\ phase = "none"

Active(s) == ops[s].state \in {"running", "stopping"}
Idle == \A s \in Slot : ~Active(s)

\* The answer to a request for the configuration; any tab may keep it.
Shows(g, n, c) == shown' = shown \cup {[gen |-> g, rev |-> n, cfg |-> c]}

-----------------------------------------------------------------------------
(***************************************************************************)
(* The process and its configuration.                                      *)
(***************************************************************************)

\* loadControllerConfiguration: connections are never in the file.
Loaded == [dsn |-> BaseDsn, set |-> file]

\* New: the file's settings, or the command line's if there is none, under the
\* command line's connections and a generation of its own.
Start ==
  /\ ~up /\ gen < MaxStart
  /\ up' = TRUE /\ gen' = gen + 1 /\ rev' = 1
  /\ cfg' = Loaded
  /\ ops' = [s \in Slot |-> None]
  /\ Shows(gen', rev', cfg')
  /\ UNCHANGED <<saved, nextID, req, children>>

Down ==
  /\ up' = FALSE
  /\ req' = {} /\ ops' = [s \in Slot |-> None]
  /\ UNCHANGED <<gen, rev, cfg, nextID, shown>>

\* Serve: the context ends, which asks the children to end; nobody waits.
Shutdown ==
  /\ up /\ Down
  /\ worker' = {IF w.pc = "exited" THEN w ELSE [w EXCEPT !.signalled = TRUE] : w \in worker}
  /\ UNCHANGED <<saved, lock, phase>>

Kill ==
  /\ up /\ Down
  /\ UNCHANGED <<saved, children>>

\* The machine fails: children, lock and what was not synced are gone as well.
PowerFail ==
  /\ up \/ worker # {}
  /\ Down
  /\ file' \in {file, disk} /\ disk' = file'
  /\ worker' = {} /\ lock' = 0
  /\ UNCHANGED <<saves, acked, tried, phase>>

\* The save is reported when the file has its name, and not yet for good.
BugSaved(new) ==
  /\ file' = new.set /\ disk' = disk /\ acked' = new.set /\ tried' = {}
  /\ cfg' = new /\ rev' = rev + 1
  /\ Shows(gen, rev', new)

\* saveControllerConfiguration to its end: written, renamed, synced.
Saved(new) ==
  /\ file' = new.set /\ disk' = new.set /\ acked' = new.set /\ tried' = {}
  /\ cfg' = new /\ rev' = rev + 1
  /\ Shows(gen, rev', new)

\* It fails before the rename, or between it and the end of the directory's
\* sync; live configuration and revision stay.
NotSaved(new) ==
  /\ file' \in {file, new.set} /\ disk' \in {disk, file'}
  /\ tried' = tried \cup {new.set}
  /\ UNCHANGED <<cfg, rev, acked, shown>>

\* Saves are let in while an operation is active.
BugEditable == TRUE

Editable == Idle

\* updateConfiguration: from any tab, whatever revision it shows.
updateConfiguration(new) ==
  /\ up /\ saves < MaxSave /\ Editable
  /\ saves' = saves + 1
  /\ Saved(new) \/ NotSaved(new)
  /\ UNCHANGED <<up, gen, ops, nextID, req, children>>

-----------------------------------------------------------------------------
(***************************************************************************)
(* Actions.                                                                *)
(***************************************************************************)

\* validateLifecycle.
Allowed(name) ==
  CASE name = "preflight" -> phase \in {"none", "preflight"}
    [] name = "run" -> phase # "complete"
    [] name = "restart-base-copy" -> phase \in {"none", "catchup", "follow"}
    [] name = "verify" -> phase = "follow"

action(name, v) ==
  /\ up /\ Cardinality(req) < MaxReq /\ v \in shown /\ Allowed(name)
  /\ req' = req \cup {[name |-> name, view |-> v]}
  /\ UNCHANGED <<server, saved, ops, nextID, shown, children>>

SlotOf(name) == IF name = "verify" THEN "verification" ELSE "migration"
Other(s) == CHOOSE o \in Slot : o # s

\* Whatever revision the tab shows will do.
BugRevisionCurrent(q) == TRUE

RevisionCurrent(q) == q.view.gen = gen /\ q.view.rev = rev

Free(name) ==
  LET other == ops[Other(SlotOf(name))] IN
    /\ ~Active(SlotOf(name))
    /\ Active(Other(SlotOf(name))) =>
         name = "verify" /\ other.name \in {"run", "restart-base-copy"}

NextID == nextID + 1

\* start, and the child that it starts; the request ends, refused or not.
start(q) ==
  /\ up /\ nextID < MaxOp
  /\ req' = req \ {q}
  /\ IF RevisionCurrent(q) /\ Free(q.name)
       THEN /\ nextID' = NextID
            /\ ops' = [ops EXCEPT ![SlotOf(q.name)] =
                         [id |-> nextID', name |-> q.name, state |-> "running"]]
            /\ worker' = worker \cup
                 {[id |-> nextID', gen |-> gen, name |-> q.name, pc |-> "begun",
                   cfg |-> cfg, reviewed |-> q.view.cfg, signalled |-> FALSE, ok |-> FALSE]}
       ELSE UNCHANGED <<nextID, ops, worker>>
  /\ UNCHANGED <<server, saved, shown, lock, phase>>

Mine(w) == up /\ w.gen = gen

stop(s) ==
  /\ up /\ ops[s].state = "running"
  /\ ops' = [ops EXCEPT ![s].state = "stopping"]
  /\ worker' = {IF Mine(w) /\ w.id = ops[s].id THEN [w EXCEPT !.signalled = TRUE] ELSE w
                  : w \in worker}
  /\ UNCHANGED <<server, saved, nextID, shown, req, lock, phase>>

\* execute: the child has been waited for.
execute(w) ==
  /\ Mine(w) /\ w.pc = "exited"
  /\ worker' = worker \ {w}
  /\ LET s == SlotOf(w.name) IN
       ops' = IF ops[s].id # w.id THEN ops
              ELSE [ops EXCEPT ![s].state = IF w.ok THEN "succeeded"
                                            ELSE IF w.signalled THEN "stopped"
                                            ELSE "failed"]
  /\ UNCHANGED <<server, saved, nextID, shown, req, lock, phase>>

-----------------------------------------------------------------------------
(***************************************************************************)
(* The child.                                                              *)
(***************************************************************************)
Becomes(w, v) == worker' = (worker \ {w}) \cup {v}
Exited(w, ok) == [w EXCEPT !.pc = "exited", !.ok = ok]
Unlock(w) == lock' = IF lock = w.id THEN 0 ELSE lock
childless == <<server, saved, ops, nextID, shown, req>>

\* The lock is not looked at.
BugOpens(w) == TRUE

Opens(w) == lock = 0

Restarts(w) == w.name = "restart-base-copy" /\ w.pc = "begun"

\* state.Open: the lock, or an error; a restart wants an existing migration.
Open(w) ==
  /\ w.name # "verify" /\ w.pc \in {"begun", "reset"}
  /\ IF Opens(w) /\ ~(Restarts(w) /\ phase = "none")
       THEN /\ lock' = w.id
            /\ phase' = IF phase = "none" THEN "preflight" ELSE phase
            /\ Becomes(w, [w EXCEPT !.pc = IF Restarts(w) THEN "checking" ELSE "opened"])
       ELSE Becomes(w, Exited(w, FALSE)) /\ UNCHANGED <<lock, phase>>
  /\ UNCHANGED childless

\* The phase that the lifecycle check saw is taken for the phase.
BugRestartAllowed == TRUE

RestartAllowed == phase \in {"catchup", "follow"}

\* prepareFreshSnapshotRestart: the phase is looked at again, under the lock; the
\* base state is removed and the lock given back before Run takes it anew.
Restart(w) ==
  /\ w.pc = "checking"
  /\ IF RestartAllowed
       THEN phase' = "preflight" /\ Becomes(w, [w EXCEPT !.pc = "reset"])
       ELSE UNCHANGED phase /\ Becomes(w, Exited(w, FALSE))
  /\ Unlock(w)
  /\ UNCHANGED childless

\* Run: a base copy that was interrupted is begun anew.
Begin(w) ==
  /\ w.pc = "opened"
  /\ phase' = IF w.name # "preflight" /\ phase = "copy" THEN "preflight" ELSE phase
  /\ Becomes(w, [w EXCEPT !.pc = "held"])
  /\ UNCHANGED <<childless, lock>>

After(p) ==
  CASE p = "preflight" -> "copy"
    [] p = "copy"      -> "catchup"
    [] p = "catchup"   -> "follow"

\* A run goes on to the next phase.
Advance(w) ==
  /\ w.pc = "held" /\ w.name # "preflight" /\ phase \in {"preflight", "copy", "catchup"}
  /\ phase' = After(phase)
  /\ UNCHANGED <<childless, worker, lock>>

\* A cutover, by a process of its own, is over, and the run ends with it.
Complete(w) ==
  /\ w.pc = "held" /\ w.name # "preflight" /\ phase = "follow"
  /\ phase' = "complete" /\ Becomes(w, Exited(w, TRUE)) /\ Unlock(w)
  /\ UNCHANGED childless

Exit(w) ==
  /\ w.pc # "exited"
  /\ \E ok \in {w.name \in {"preflight", "verify"} /\ w.pc # "checking", FALSE} :
       Becomes(w, Exited(w, ok))
  /\ Unlock(w)
  /\ UNCHANGED <<childless, phase>>

\* A child that holds the lock is left to end by itself.
BugReap(w) ==
  /\ Mine(w) /\ w.signalled /\ w.pc = "begun"
  /\ Becomes(w, Exited(w, FALSE)) /\ Unlock(w)
  /\ UNCHANGED <<childless, phase>>

\* WaitDelay: a signalled child that has not ended is killed.
Reap(w) ==
  /\ Mine(w) /\ w.signalled /\ w.pc # "exited"
  /\ Becomes(w, Exited(w, FALSE)) /\ Unlock(w)
  /\ UNCHANGED <<childless, phase>>

-----------------------------------------------------------------------------
Child == \E w \in worker :
  Open(w) \/ Restart(w) \/ Begin(w) \/ Advance(w) \/ Complete(w) \/ Exit(w) \/ Reap(w) \/ execute(w)

Dashboard ==
  \/ \E new \in Config : updateConfiguration(new)
  \/ \E name \in Name, v \in shown : action(name, v)
  \/ \E q \in req : start(q)
  \/ \E s \in Slot : stop(s)

Next ==
  \/ Start \/ Shutdown \/ Kill \/ PowerFail
  \/ Dashboard \/ Child

Spec == Init /\ [][Next]_vars

\* A signalled child is killed in the end and a child that ended is waited for.
FairSpec ==
  Spec /\ WF_vars(\E w \in worker : Reap(w)) /\ WF_vars(\E w \in worker : execute(w))

-----------------------------------------------------------------------------
(***************************************************************************)
(* Properties.                                                             *)
(***************************************************************************)
WorkerType ==
  [id : 1..MaxOp, gen : 1..MaxStart, name : Name,
   pc : {"begun", "checking", "reset", "opened", "held", "exited"},
   cfg : Config, reviewed : Config, signalled : BOOLEAN, ok : BOOLEAN]

OpType ==
  [id : 0..MaxOp, name : Name \cup {"none"},
   state : {"idle", "running", "stopping", "succeeded", "stopped", "failed"}]

\* Types, and no two child processes with one number.
TypeOK ==
  /\ up \in BOOLEAN /\ gen \in 0..MaxStart /\ rev \in 0..MaxSave + 1
  /\ saves \in 0..MaxSave /\ ops \in [Slot -> OpType]
  /\ cfg \in Config /\ {file, disk, acked} \subseteq Setting /\ tried \subseteq Setting
  /\ nextID \in 0..MaxOp /\ lock \in 0..MaxOp /\ phase \in Phase
  /\ shown \subseteq [gen : 1..MaxStart, rev : 1..MaxSave + 1, cfg : Config]
  /\ req \subseteq [name : Name, view : shown]
  /\ worker \subseteq WorkerType
  /\ \A v, w \in worker : v.id = w.id => v = w

\* An action runs with the configuration that the tab which asked for it was
\* showing, however many saves by other tabs and restarts of the controller
\* lie between the review and the start.
ReviewedConfig == \A w \in worker : w.cfg = w.reviewed

\* A slot is free only when its child is gone: no live child of this controller
\* is without an active operation that holds its slot.
SlotHoldsWorker ==
  \A w \in worker : Mine(w) /\ w.pc # "exited" =>
    Active(SlotOf(w.name)) /\ ops[SlotOf(w.name)].id = w.id

\* One process works on the migration directory, children that outlived their
\* controller included.
OneMigrator ==
  \A v, w \in worker :
    v.pc \in {"checking", "opened", "held"} /\ w.pc \in {"checking", "opened", "held"}
      => v = w /\ lock = v.id

\* What a restarted controller loads, after a kill or a power failure, are the
\* settings of the last save reported as made, or of a later one that failed.
AckedSurvives == file \in {acked} \cup tried /\ disk \in {acked} \cup tried

\* The settings in force are those of the last save that was reported as made,
\* unless one has failed since, through any number of restarts.
LiveIsSaved == up /\ tried = {} => cfg.set = acked

\* The configuration on the dashboard is the one that the operations on it run
\* with: connections and settings stay as they are while one is active.
RunsWhatIsShown == \A w \in worker : Mine(w) /\ w.pc # "exited" => w.cfg = cfg

\* A live child of this controller is the one that the dashboard shows, in its
\* slot and with its configuration.
ChildIsShown == SlotHoldsWorker /\ RunsWhatIsShown

\* No save that was reported as made is lost, neither from the file nor from
\* the settings in force.
SavesHold == AckedSurvives /\ LiveIsSaved

Restarting == \E w \in worker : w.id = lock /\ w.name = "restart-base-copy"

\* Work past the base copy is thrown away by a restart alone, which looked at
\* the phase under the lock, and a finished migration never.
KeepsWork ==
  [][(phase \in {"catchup", "follow", "complete"} /\ phase' \in {"preflight", "copy"})
       => phase # "complete" /\ Restarting]_vars

\* An operation that was asked to stop ends, and its slot is free again.
StopEnds == \A s \in Slot : ops[s].state = "stopping" ~> ~Active(s)

=============================================================================
