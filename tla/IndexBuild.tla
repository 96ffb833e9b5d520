----------------------------- MODULE IndexBuild -----------------------------
(***************************************************************************)
(* The indexes phase: what happens on the target between the base copy and *)
(* the replay.  indexbuild.Runner.Run builds the indexes with a pool of    *)
(* workers, attaches the partitions' indexes, adds the constraints,        *)
(* validates the foreign keys with a second pool and has the deferred      *)
(* post-data objects restored; then vacuumTarget vacuums every copied      *)
(* table, and the migration moves on to catchup.                           *)
(*                                                                         *)
(* Every object is first made on the target and then marked done in the    *)
(* state file, and an attempt can end between any two of these steps: the  *)
(* process is killed, or one worker fails and cancels the others.  A       *)
(* statement that was on its way is then still executed, or not, while a   *)
(* later attempt is already looking at the target.  What the code relies   *)
(* on is that an attempt recognises its own earlier work, and that it      *)
(* refuses an object somebody else has put there.                          *)
(*                                                                         *)
(* The text of a definition is abstracted to what the comparisons tell     *)
(* apart: "own" is the target's rendering of what the source describes,    *)
(* "other" a different definition of the same kind on the same table, and  *)
(* "elsewhere" an object of the name that fails the first test already (it *)
(* is on another table, or of another kind).                               *)
(***************************************************************************)
EXTENDS Naturals, FiniteSets

CONSTANTS
  Index,        \* the source's indexes on selected tables
  None,         \* no parent index, no job
  Parent,       \* [Index -> Index \cup {None}]: the partitioned index above
  Parted,       \* the indexes on partitioned tables
  Backing,      \* the indexes behind a primary key or a unique constraint
  Expression,   \* the indexes with an expression or a predicate
  Bytes,        \* [Index -> Nat]: size on the source
  Constraint,   \* the foreign keys, checks and exclusion constraints
  ForeignKey,   \* the foreign keys among them
  Direct,       \* foreign keys of, or to, a partitioned table
  Refers,       \* [ForeignKey -> Index]: the index that a foreign key relies on
  WithTable,    \* checks that the schema restore created with their table
  Rewritten,    \* constraints whose text the target renders unlike the source's
  Unprobed,     \* constraints that rendersAlike does not put to the target
  Deferred,     \* triggers, rules, policies and comments
  Comment,      \* the comments among them
  Table,        \* the copied tables
  OnTable,      \* [ForeignKey -> Table]
  Worker,       \* the workers of a pool
  MaxCrash,     \* how often the process is killed
  MaxForeign,   \* how often somebody else changes the target
  MaxLapse      \* how often a probe fails

ASSUME InventoryAssumption ==
  /\ Parent \in [Index -> Index \cup {None}] /\ None \notin Index \cup Constraint \cup Deferred \cup Table
  /\ Parted \subseteq Index /\ Backing \subseteq Index /\ Expression \subseteq Index
  /\ Bytes \in [Index -> Nat]
  /\ ForeignKey \subseteq Constraint /\ Direct \subseteq ForeignKey
  /\ Refers \in [ForeignKey -> Index] /\ OnTable \in [ForeignKey -> Table]
  /\ WithTable \subseteq Constraint \ ForeignKey
  /\ Rewritten \cup Unprobed \subseteq Constraint /\ Comment \subseteq Deferred
  /\ Backing \cap Expression = {}
  /\ \A x \in Index : Parent[x] \in Backing => x \in Backing
  /\ Index \cap Constraint = {} /\ Deferred \cap (Index \cup Constraint) = {}
  /\ Table \cap (Index \cup Constraint \cup Deferred) = {}
  /\ MaxCrash \in Nat /\ MaxForeign \in Nat /\ MaxLapse \in Nat

VARIABLES
  phase,      \* the migration's phase, in the state file
  done,       \* the objects marked completed, in the state file
  known,      \* the recorded renderings of the target, in the state file
  there,      \* what the target holds under each object's name
  backs,      \* the target's indexes with their constraint attached
  attached,   \* the target's partition indexes attached to their parent
  valid,      \* the target's validated constraints
  vacuumed,   \* the vacuumed tables
  strays,     \* statements whose client is gone and that may yet be executed
  stage,      \* what the attempt under way is doing
  todo,       \* the jobs of the stage not yet handed out
  work,       \* each worker's job and the step it is at
  failed,     \* some worker has failed: the others' context is cancelled
  fault,      \* how the last attempt failed; a collision for want of an answer
              \* from the probe is "unanswered"
  landed,     \* strays that have been executed
  forged,     \* objects that somebody else has changed
  crashes,    \* how often the process was killed
  lapses      \* how often a probe has failed

store  == <<phase, done, known>>
target == <<there, backs, attached, valid, vacuumed>>
run    == <<stage, todo, work, failed, fault>>
faults == <<strays, landed, forged, crashes, lapses>>
vars   == <<phase, done, known, there, backs, attached, valid, vacuumed, strays,
            stage, todo, work, failed, fault, landed, forged, crashes, lapses>>

\* What is brought over with its definition compared.
Inventory == Index \cup Constraint
Named == Inventory \cup Deferred
Object == Named \cup Table

Renderings == {"own", "other", "elsewhere"}
Idle == [job |-> None, at |-> "idle", got |-> "none"]
Busy == {w \in Worker : work[w].at # "idle"}

\* Stages that hand out one job at a time.
Serial == {"attach", "constraint", "deferred"}

-----------------------------------------------------------------------------
(* The target. *)

\* Whether an inspection finds something under the object's name.
Exists(o) == there[o] # "absent"

Children(x) == {y \in Index : Parent[y] = x}
\* Attaching the last partition's index makes an index valid, and so, if that
\* was all they waited for, the ones above it.
Below(x) == Children(x) \cup UNION {Children(y) : y \in Children(x)}
Usable(x) == Exists(x) /\ Below(x) \subseteq attached

\* The constraint that inspectIndex reports: its query joins every constraint
\* that relies on the index, a foreign key that refers to it included, and
\* takes the first row.
Reported(x) ==
  LET rows == (IF x \in backs THEN {"own"} ELSE {})
              \cup {"foreign" : c \in {f \in ForeignKey : Refers[f] = x /\ Exists(f)}}
  IN  IF rows = {} THEN {"none"} ELSE rows

\* A statement is the step that issues it and its object.  Whether it succeeds:
Accepted(op, o) ==
  CASE op = "create" ->
         /\ ~Exists(o)
         /\ o \in ForeignKey => Usable(Refers[o])
    [] op = "back"   -> Exists(o) /\ o \notin backs /\ o \notin Parted
    [] op = "attach" ->
         /\ Exists(o) /\ Exists(Parent[o])
         /\ Parent[o] \in backs => o \in backs
    [] op = "check"  -> Exists(o)

\* What it does.  A partitioned index that backs a constraint is made by
\* declaring the constraint; a foreign key is added NOT VALID unless Direct.
Execute(op, o) ==
  /\ there' = IF op = "create" THEN [there EXCEPT ![o] = "own"] ELSE there
  /\ backs' = IF op = "back" \/ (op = "create" /\ o \in Parted \cap Backing)
                THEN backs \cup {o} ELSE backs
  /\ attached' = IF op = "attach" THEN attached \cup {o} ELSE attached
  /\ valid' = IF op = "check" \/ (op = "create" /\ o \in Constraint \ (ForeignKey \ Direct))
                THEN valid \cup {o} ELSE valid
  /\ UNCHANGED vacuumed

-----------------------------------------------------------------------------
(* One attempt. *)

\* The jobs of a stage.
Jobs(s) ==
  CASE s = "index"      -> Index
    [] s = "attach"     -> {x \in Index : Parent[x] # None}
    [] s = "constraint" -> Constraint
    [] s = "validate"   -> ForeignKey \ done
    [] s = "deferred"   -> Deferred
    [] s = "vacuum"     -> Table \ done
    [] OTHER            -> {}

\* Mutant: the constraints are added before the partitions' indexes are attached.
BugAfter == [index |-> "constraint", constraint |-> "attach", attach |-> "validate",
             validate |-> "deferred", deferred |-> "vacuum", vacuum |-> "leave"]

After == [index |-> "attach", attach |-> "constraint", constraint |-> "validate",
          validate |-> "deferred", deferred |-> "vacuum", vacuum |-> "leave"]

Init ==
  /\ phase = "indexes" /\ done = {} /\ known = [o \in Inventory |-> "none"]
  /\ there = [o \in Named |-> IF o \in WithTable THEN "own" ELSE "absent"]
  /\ backs = {} /\ attached = {} /\ valid = WithTable /\ vacuumed = {}
  /\ strays = {} /\ landed = {} /\ forged = {} /\ crashes = 0 /\ lapses = 0
  /\ stage = "down" /\ todo = {} /\ work = [w \in Worker |-> Idle]
  /\ failed = FALSE /\ fault = "none"

\* resumeIndexes: the inventory is read again and entered without clearing what
\* is marked; Run starts with the indexes.
Resume ==
  /\ stage = "down" /\ phase = "indexes"
  /\ stage' = "index" /\ todo' = Jobs("index")
  /\ failed' = FALSE /\ fault' = "none"
  /\ UNCHANGED <<store, target, faults, work>>

\* A worker receives the next job, an index by size.
Take(w) ==
  /\ ~failed /\ w \notin Busy
  /\ stage \in Serial => Busy = {}
  /\ \E j \in todo :
       /\ stage = "index" => \A x \in todo : Bytes[x] <= Bytes[j]
       /\ todo' = todo \ {j}
       /\ work' = [work EXCEPT ![w] = [Idle EXCEPT !.job = j,
                     !.at = IF stage \in {"attach", "vacuum"} THEN stage ELSE "inspect"]]
  /\ UNCHANGED <<store, target, faults, stage, failed, fault>>

\* Worker w goes on to a step, is done with its job, or fails.
Step(w, at) == work' = [work EXCEPT ![w].at = at] /\ UNCHANGED <<failed, fault>>
Saw(w, at, s) == work' = [work EXCEPT ![w].at = at, ![w].got = s] /\ UNCHANGED <<failed, fault>>
JobDone(w) == work' = [work EXCEPT ![w] = Idle] /\ UNCHANGED <<failed, fault>>
Fail(w, what) ==
  /\ work' = [work EXCEPT ![w] = Idle]
  /\ failed' = TRUE /\ fault' = IF failed THEN fault ELSE what

\* A constraint whose text differs from the source's is compared with what the
\* target makes of the source's definition, in a transaction that is undone.
RendersAlike(c) == there[c] = "own" \/ c \in Unprobed

\* The comparison has to put the source's definition to the target.
Probed(c) ==
  /\ known[c] = "none" /\ there[c] # "elsewhere" /\ c \notin Unprobed
  /\ there[c] = "own" => c \in Rewritten

\* Mutant: a recorded rendering is not consulted.
BugMatchesIndex(x) ==
  there[x] # "elsewhere" /\ (there[x] = "own" \/ x \in Expression)

\* Mutant: without a recorded rendering the texts of the two servers must agree.
BugMatchesText(x) ==
  IF known[x] # "none" THEN there[x] = known[x]
  ELSE there[x] = "own" /\ x \notin Expression

\* matchIndex: a recorded rendering is compared exactly; without one, an index
\* with an expression or a predicate is taken as it is.
MatchesIndex(x) ==
  /\ there[x] # "elsewhere"
  /\ IF known[x] # "none" THEN there[x] = known[x]
     ELSE there[x] = "own" \/ x \in Expression

\* matchConstraint.
MatchesConstraint(c) ==
  /\ there[c] # "elsewhere"
  /\ IF known[c] # "none" THEN there[c] = known[c] ELSE RendersAlike(c)

\* ensureIndex from where it knows the index and the constraint s it carries.
Continue(w, x, s) ==
  IF x \notin Backing THEN IF s = "none" THEN Step(w, "complete") ELSE Fail(w, "collision")
  ELSE IF s = "none"
    THEN IF x \in Parted THEN Fail(w, "bare") ELSE Step(w, "back")
    ELSE IF s = "own" THEN Step(w, "complete") ELSE Fail(w, "collision")

\* IndexCompleted and the first inspection of ensureIndex.
InspectIndex(w) ==
  LET x == work[w].job IN
  /\ stage = "index" /\ work[w].at = "inspect"
  /\ \/ x \in done /\ JobDone(w)
     \/ x \notin done /\ ~Exists(x) /\ Step(w, "create")
     \/ /\ x \notin done /\ Exists(x)
        /\ IF ~MatchesIndex(x) THEN Fail(w, "collision")
           ELSE \E s \in Reported(x) :
                  IF known[x] = "none" THEN Saw(w, "adopt", s) ELSE Continue(w, x, s)
  /\ UNCHANGED <<store, target, faults, stage, todo>>

\* ConstraintCompleted and the inspection of ensureConstraint; a foreign key
\* that is there as recorded only waits for its validation.
InspectConstraint(w) ==
  LET c == work[w].job IN
  /\ stage = "constraint" /\ work[w].at = "inspect"
  /\ \/ c \in done /\ JobDone(w)
     \/ c \notin done /\ ~Exists(c) /\ Step(w, "create")
     \/ /\ c \notin done /\ Exists(c)
        /\ IF ~MatchesConstraint(c) THEN Fail(w, "collision")
           ELSE IF known[c] = "none" THEN Step(w, "record")
           ELSE IF c \in ForeignKey THEN JobDone(w) ELSE Step(w, "complete")
  /\ UNCHANGED <<store, target, faults, stage, todo>>

\* Whatever error the probe's ALTER TABLE returns, a lock timeout or a lost
\* connection included, rendersAlike answers that the two are not alike, and
\* matchConstraint reports a collision.
ProbeLapses(w) ==
  LET c == work[w].job IN
  /\ stage = "constraint" /\ work[w].at = "inspect"
  /\ c \notin done /\ Exists(c) /\ Probed(c)
  /\ lapses < MaxLapse /\ lapses' = lapses + 1
  /\ Fail(w, "unanswered")
  /\ UNCHANGED <<store, target, strays, landed, forged, crashes, stage, todo>>

\* validateForeignKeys: one validation of a table at a time.
InspectForeignKey(w) ==
  LET c == work[w].job IN
  /\ stage = "validate" /\ work[w].at = "inspect"
  /\ \A v \in Busy \ {w} : work[v].at # "inspect" => OnTable[work[v].job] # OnTable[c]
  /\ Step(w, IF c \in valid THEN "complete" ELSE "check")
  /\ UNCHANGED <<store, target, faults, stage, todo>>

\* A trigger, a rule or a policy is known by its name; a comment is compared.
Diverged(d) == d \in Comment /\ there[d] = "other"

\* RestoreDeferred: the marker and the inspection of one object.
InspectDeferred(w) ==
  LET d == work[w].job IN
  /\ stage = "deferred" /\ work[w].at = "inspect"
  /\ \/ d \in done /\ Exists(d) /\ ~Diverged(d) /\ JobDone(w)
     \/ d \in done /\ (~Exists(d) \/ Diverged(d)) /\ Fail(w, "collision")
     \/ d \notin done /\ Diverged(d) /\ Fail(w, "collision")
     \/ d \notin done /\ ~Exists(d) /\ Step(w, "create")
     \/ d \notin done /\ Exists(d) /\ ~Diverged(d) /\ Step(w, "complete")
  /\ UNCHANGED <<store, target, faults, stage, todo>>

\* vacuumOne, up to its mark.  Vacuuming a table again changes nothing.
Vacuum(w) ==
  /\ work[w].at = "vacuum"
  /\ vacuumed' = vacuumed \cup {work[w].job}
  /\ Step(w, "complete")
  /\ UNCHANGED <<store, there, backs, attached, valid, faults, stage, todo>>

\* A statement on the target, and what follows its success.
Issue(w) ==
  LET o == work[w].job
      op == work[w].at
  IN
  /\ op \in {"create", "back", "attach", "check"}
  /\ IF Accepted(op, o)
       THEN /\ Execute(op, o)
            /\ CASE op = "create" -> Step(w, IF o \in Inventory THEN "record" ELSE "complete")
                 [] op = "back"   -> Step(w, "again")
                 [] op = "attach" -> JobDone(w)
                 [] op = "check"  -> Step(w, "complete")
       ELSE Fail(w, "error") /\ UNCHANGED target
  /\ UNCHANGED <<store, faults, stage, todo>>

\* Mutant: a foreign key is complete once it is added.
BugRecord(w) ==
  LET o == work[w].job IN
  /\ work[w].at = "record"
  /\ known' = [known EXCEPT ![o] = there[o]]
  /\ IF o \in Index THEN \E s \in Reported(o) : Continue(w, o, s)
     ELSE Step(w, "complete")
  /\ UNCHANGED <<phase, done, target, faults, stage, todo>>

\* The inspection after a statement, and the rendering that it finds recorded.
Record(w) ==
  LET o == work[w].job IN
  /\ work[w].at = "record"
  /\ known' = [known EXCEPT ![o] = there[o]]
  /\ IF o \in Index THEN \E s \in Reported(o) : Continue(w, o, s)
     ELSE IF o \in ForeignKey THEN JobDone(w) ELSE Step(w, "complete")
  /\ UNCHANGED <<phase, done, target, faults, stage, todo>>

\* matchIndex records what it adopts; ensureIndex goes on with what it saw.
Adopt(w) ==
  LET x == work[w].job IN
  /\ work[w].at = "adopt"
  /\ known' = [known EXCEPT ![x] = there[x]]
  /\ Continue(w, x, work[w].got)
  /\ UNCHANGED <<phase, done, target, faults, stage, todo>>

\* The inspection after the constraint was attached.
InspectAgain(w) ==
  /\ work[w].at = "again"
  /\ \E s \in Reported(work[w].job) :
       IF s = "own" THEN Step(w, "complete") ELSE Fail(w, "collision")
  /\ UNCHANGED <<store, target, faults, stage, todo>>

\* CompleteIndex, CompleteConstraint, CompleteStep.
Complete(w) ==
  /\ work[w].at = "complete"
  /\ done' = done \cup {work[w].job}
  /\ JobDone(w)
  /\ UNCHANGED <<phase, known, target, faults, stage, todo>>

\* The stage is over: the next one, or, after a failure, the end of the attempt.
NextStage ==
  /\ stage \in DOMAIN After /\ Busy = {}
  /\ IF failed THEN stage' = "down" /\ todo' = {}
     ELSE todo = {} /\ stage' = After[stage] /\ todo' = Jobs(After[stage])
  /\ UNCHANGED <<store, target, faults, work, failed, fault>>

\* transition(PhaseCatchup).
Leave ==
  /\ stage = "leave" /\ phase' = "catchup" /\ stage' = "down"
  /\ UNCHANGED <<done, known, target, faults, todo, work, failed, fault>>

\* What worker w has on its way to the target.
Sent(w) == IF work[w].at \in {"create", "back", "attach", "check"}
             THEN {<<work[w].at, work[w].job>>} ELSE {}

\* A worker whose context was cancelled returns; its statement may still run.
Cancel(w) ==
  /\ failed /\ w \in Busy
  /\ JobDone(w)
  /\ \E s \in SUBSET Sent(w) : strays' = strays \cup s
  /\ UNCHANGED <<store, target, stage, todo, landed, forged, crashes, lapses>>

\* The process is killed.
Crash ==
  /\ stage # "down" /\ crashes < MaxCrash
  /\ crashes' = crashes + 1
  /\ stage' = "down" /\ todo' = {} /\ work' = [w \in Worker |-> Idle]
  /\ failed' = FALSE /\ fault' = "none"
  /\ \E s \in SUBSET UNION {Sent(w) : w \in Worker} : strays' = strays \cup s
  /\ UNCHANGED <<store, target, landed, forged, lapses>>

\* The target executes a statement whose client is gone, or gives it up.
Stray(op, o) ==
  /\ <<op, o>> \in strays
  /\ strays' = strays \ {<<op, o>>}
  /\ \/ Accepted(op, o) /\ Execute(op, o) /\ landed' = landed \cup {<<op, o>>}
     \/ UNCHANGED <<target, landed>>
  /\ UNCHANGED <<store, run, forged, crashes, lapses>>

\* Between two attempts somebody replaces or makes an object of that name; not
\* an index that a partitioned index or a foreign key hangs on.
Foreign(o, r) ==
  /\ stage = "down" /\ phase = "indexes" /\ Cardinality(forged) < MaxForeign
  /\ \A s \in strays : s[2] # o
  /\ o \in Index => /\ ({o} \cup Below(o)) \cap attached = {}
                    /\ \A f \in ForeignKey : ~Exists(f) \/ Refers[f] # o
  /\ o \in Deferred => r = "other"
  /\ there' = [there EXCEPT ![o] = r]
  /\ backs' = backs \ {o} /\ attached' = attached \ {o} /\ valid' = valid \ {o}
  /\ forged' = forged \cup {o}
  /\ UNCHANGED <<store, run, vacuumed, strays, landed, crashes, lapses>>

Advance(w) ==
  \/ Take(w)
  \/ InspectIndex(w) \/ InspectConstraint(w) \/ InspectForeignKey(w) \/ InspectDeferred(w)
  \/ ProbeLapses(w) \/ Vacuum(w) \/ Issue(w) \/ Record(w) \/ Adopt(w) \/ InspectAgain(w) \/ Complete(w)
  \/ Cancel(w)

Next ==
  \/ Resume \/ NextStage \/ Leave \/ Crash
  \/ \E w \in Worker : Advance(w)
  \/ \E s \in strays : Stray(s[1], s[2])
  \/ \E o \in Named, r \in Renderings : Foreign(o, r)

Spec == Init /\ [][Next]_vars

\* The workers run, a failed attempt is resumed by whoever operates the
\* migration, and a statement without a client comes to an end.
Fairness ==
  /\ WF_vars(Resume) /\ WF_vars(NextStage) /\ WF_vars(Leave)
  /\ \A w \in Worker : WF_vars(Advance(w))
  /\ WF_vars(\E s \in strays : Stray(s[1], s[2]))

FairSpec == Spec /\ Fairness

-----------------------------------------------------------------------------
(* Properties. *)

\* What the target holds of an object when nothing is missing from it.
Ready(o) ==
  /\ o \in Named => there[o] = "own"
  /\ o \in Backing => o \in backs
  /\ o \in Constraint => o \in valid
  /\ o \in Table => o \in vacuumed

\* A completion mark is never ahead of the target: whatever was killed, cancelled
\* or left behind, an object marked in the state file (CompleteIndex,
\* CompleteConstraint, CompleteStep) is on the target whole, its constraint
\* attached and its foreign key validated; a resumed attempt skips it unseen.
MarksAreTrue == \A o \in done \ forged : Ready(o)

\* The phase is left for catchup only with every object there, every
\* partitioned index valid and every foreign key validated.
CatchupIsComplete ==
  phase = "catchup" /\ forged = {} =>
    /\ \A o \in Object : Ready(o)
    /\ \A x \in Index : Usable(x)

\* Nothing that counts as done is missing, object by object and as a phase.
TargetComplete == MarksAreTrue /\ CatchupIsComplete

\* An attempt never refuses the work of an earlier one: a collision, or the
\* partitioned index "left bare" that ensureIndex asks to have dropped, takes
\* somebody else's change.  The one exception is the collision that a failed
\* probe is taken for, and that takes a constraint of which nothing is recorded
\* yet, and which the target renders unlike the source or somebody else has
\* changed.  A statement is rejected only where one of a dead attempt was
\* executed after the inspection, never because an object it needs is not there
\* yet.
FailsForCause ==
  /\ fault \in {"collision", "bare"} => forged # {}
  /\ fault = "unanswered" =>
       \E c \in Constraint \ (Unprobed \cup done) :
         Exists(c) /\ known[c] = "none" /\ c \in Rewritten \cup forged
  /\ fault = "error" => landed # {} \/ forged # {}

\* What is marked complete is what was recorded, and something other than the
\* source's definition gets there only as an index with an expression or a
\* constraint that rendersAlike cannot put to the target, taken over before
\* anything was recorded of it.
CompletesOwn ==
  [][\A o \in (done' \ done) \cap Inventory :
       /\ there[o] = known[o]
       /\ there[o] = "own" \/ o \in Expression \cup Unprobed]_vars

\* Once nobody kills it any more, and if nobody else touches the target, the
\* phase ends: a statement rejected because a stray one came first costs one
\* attempt and no more, and so does a probe that failed.
Finishes == [](forged = {}) => <>(phase = "catchup")
=============================================================================
