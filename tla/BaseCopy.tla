------------------------------ MODULE BaseCopy ------------------------------
(***************************************************************************)
(* The life of a migration up to catchup: setup of the source, the base    *)
(* copy and its restarts.  One run process works through the phases; it    *)
(* may return an error or be killed between any two statements, and the    *)
(* next one decides from the state store, the work directory, the source   *)
(* and the target whether to discard the attempt, resume it or refuse.     *)
(*                                                                         *)
(* A position is a number of source commits.  The rows of a part are       *)
(* represented by the position of the snapshot they were read at, so a     *)
(* part holds a sequence of positions: <<p>> when it was copied once.      *)
(***************************************************************************)
EXTENDS Integers, Sequences, FiniteSets

CONSTANTS
  Table, Part,  \* selected tables, and the parts of the COPY plan
  TableOf,      \* the table of a part
  Bytes,        \* estimated bytes of a part
  Keyed,        \* tables that are split by an integer primary key
  Needy,        \* relations without a usable replica identity
  Workers,      \* parts copied at a time
  Modes,        \* whether a run copies from a physical clone of the source
  MaxCommit,    \* bound on source commits
  MaxFail,      \* bound on errors met by a run
  MaxKill,      \* bound on kills
  MaxDrop       \* bound on slots dropped by somebody else

ASSUME ConstAssumption ==
  /\ TableOf \in [Part -> Table] /\ Bytes \in [Part -> Nat]
  /\ Keyed \subseteq Table
  /\ Needy \subseteq Table
  /\ Workers \in Nat \ {0}
  /\ Modes \subseteq BOOLEAN
  /\ {MaxCommit, MaxFail, MaxKill, MaxDrop} \subseteq Nat

None == -1

VARIABLES
  committed,  \* source: commits so far
  pub,        \* source: marker of the publication, None when there is none
  slot,       \* source: consistent point and confirmed position of the slot
  active,     \* source: a session holds the slot
  full,       \* source: relations at REPLICA IDENTITY FULL
  clone,      \* the physical clone: its copy of the marker, and its seed
  phase,      \* store: migration.phase
  point,      \* store: migration.consistent_point, None when not set
  original,   \* store: relations with a replica_identity step
  untuned,    \* store: the target_tuning step is recorded
  plan,       \* store: the copy.plan step is recorded
  completed,  \* store: completed parts
  failed,     \* store: failed_attempt, its phase and count
  snapfile,   \* disk: snapshot.json, the consistent points in it
  log,        \* disk: positions in the CDC segments
  tables,     \* target: the selected tables that exist
  rows,       \* target: contents of each part
  receipts,   \* target: copy_parts
  prepared,   \* target: copy_tables
  identity,   \* target: migration_identity has this stream
  tuned,      \* target: settings of the bulk load are in force
  orphan,     \* target: parts whose COMMIT outlived the run that sent it
  pc,         \* run: its next step, "off" when there is no run
  fromClone,  \* run: --copy-source
  snap,       \* run: position of the exported snapshot, None before there is one
  holder,     \* run: the session that exported it is alive
  work,       \* run: state of each part in copyPart
  streaming,  \* run: the receiver and persister are running
  lost,       \* history: the last DROP SCHEMA of a reset was not carried out
  stale,      \* history: parts whose receipt outlived the rows it was for
  overtaken,  \* history: parts that a dead run committed while the next one
              \* was copying them
  tries, fails, kills, drops   \* counters of the bounds

srcVars == <<committed, pub, slot, active, full, clone>>
stVars  == <<phase, point, original, untuned, plan, completed, failed>>
dirVars == <<snapfile, log>>
dataVars == <<tables, rows, receipts, prepared, identity, tuned>>
tgtVars == <<dataVars, orphan>>
runVars == <<pc, fromClone, snap, holder, work, streaming>>
histVars == <<lost, stale, overtaken>>
cntVars == <<tries, fails, kills, drops>>
vars == <<srcVars, stVars, dirVars, tgtVars, runVars, histVars, cntVars>>

\* A slot is created once more at most for each fault.
MaxTry == 1 + MaxFail + MaxKill + MaxDrop

NoSlot == [point |-> None, confirmed |-> None]
NoClone == [marker |-> None, seed |-> None]
NoFile == [point |-> None, slotPoint |-> None]
NoFailure == [phase |-> "none", count |-> 0]
Idle == [p \in Part |-> "todo"]
Empty == [p \in Part |-> << >>]
Split == {t \in Table : Cardinality({p \in Part : TableOf[p] = t}) > 1}
MaxOf(S) == CHOOSE x \in S : \A y \in S : y <= x

\* Steps of resetInterruptedBaseCopy, and of setup.Run after its first object.
ResetSteps == {"recover_slot", "recover_pub", "untune", "drop_slot", "drop_pub",
               "restore", "drop_tables", "drop_metadata", "remove_snapshot",
               "remove_cdc", "reset"}
SetupSteps == {"slot", "mark", "clone", "snapshot", "record"}

Init ==
  /\ committed = 0 /\ pub = None /\ slot = NoSlot /\ active = FALSE /\ full = {}
  /\ clone = NoClone
  /\ phase = "preflight" /\ point = None /\ original = {} /\ untuned = FALSE
  /\ plan = FALSE /\ completed = {} /\ failed = NoFailure
  /\ snapfile = NoFile /\ log = {}
  /\ tables = {} /\ rows = Empty /\ receipts = {} /\ prepared = {}
  /\ identity = FALSE /\ tuned = FALSE /\ orphan = {}
  /\ pc = "off" /\ fromClone \in Modes /\ snap = None /\ holder = FALSE
  /\ work = Idle
  /\ streaming = FALSE
  /\ lost = FALSE /\ stale = {} /\ overtaken = {}
  /\ tries = 0 /\ fails = 0 /\ kills = 0 /\ drops = 0

-----------------------------------------------------------------------------
(***************************************************************************)
(* The source, the clone and the CDC stream beside the copy.               *)
(***************************************************************************)

SourceCommit ==
  /\ committed < MaxCommit /\ committed' = committed + 1
  /\ UNCHANGED <<pub, slot, active, full, clone, stVars, dirVars, tgtVars,
                 runVars, histVars, cntVars>>

\* The server notices that the client of the slot's session is gone.
SessionExpires ==
  /\ active /\ ~streaming /\ active' = FALSE
  /\ UNCHANGED <<committed, pub, slot, full, clone, stVars, dirVars, tgtVars,
                 runVars, histVars, cntVars>>

\* Somebody drops the slot of a migration that has finished its base copy.
SlotDropped ==
  /\ drops < MaxDrop /\ drops' = drops + 1
  /\ phase \in {"indexes", "catchup"} /\ ~active /\ slot # NoSlot
  /\ slot' = NoSlot
  /\ UNCHANGED <<committed, pub, active, full, clone, stVars, dirVars, tgtVars,
                 runVars, histVars, tries, fails, kills>>

\* The operator restores a backup of the source, or replaces an old one.
TakeClone ==
  /\ pc = "clone" /\ clone.marker # pub
  /\ clone' = [marker |-> pub, seed |-> committed]
  /\ UNCHANGED <<committed, pub, slot, active, full, stVars, dirVars, tgtVars,
                 runVars, histVars, cntVars>>

\* The receiver starts behind what is confirmed, copied or in the segments
\* already; the persister makes what it sends durable.
Receive ==
  /\ streaming /\ slot # NoSlot
  /\ LET have == MaxOf(log \cup {slot.confirmed, point}) IN
       /\ have < committed
       /\ log' = log \cup {have + 1}
  /\ UNCHANGED <<srcVars, stVars, snapfile, tgtVars, runVars, histVars, cntVars>>

Acknowledge ==
  /\ streaming /\ slot # NoSlot /\ log # {}
  /\ slot.confirmed < MaxOf(log)
  /\ slot' = [slot EXCEPT !.confirmed = MaxOf(log)]
  /\ UNCHANGED <<committed, pub, active, full, clone, stVars, dirVars, tgtVars,
                 runVars, histVars, cntVars>>

-----------------------------------------------------------------------------
(***************************************************************************)
(* How a run ends.                                                         *)
(***************************************************************************)

\* The run process is gone; the server still sees its session.
Gone ==
  /\ pc' = "off" /\ snap' = None /\ holder' = FALSE /\ work' = Idle
  /\ streaming' = FALSE
  /\ UNCHANGED fromClone

\* recordFailedAttempt: a failure counts on when it repeats the last one, which
\* takes the same phase and the same signature.
RecordFailure ==
  \E same \in BOOLEAN :
    failed' = [phase |-> phase,
               count |-> IF same /\ failed.phase = phase /\ failed.count # 0
                         THEN 2 ELSE 1]

\* setup.Run removes what it created, as far as it can, and snapshot.json when
\* the store refused the snapshot.
SetupCleanup ==
  IF pc \in SetupSteps
    THEN /\ slot' \in {slot, NoSlot} /\ pub' \in {pub, None}
         /\ snapfile' = IF pc = "record" THEN NoFile ELSE snapfile
    ELSE UNCHANGED <<slot, pub, snapfile>>

\* The workers' connections end with the run.  What is not committed is rolled
\* back, but the server may still carry out a COMMIT that it was sent.
LeaveCommits ==
  \E S \in SUBSET {p \in Part \ orphan : work[p] \in {"open", "blind"}} :
    orphan' = orphan \cup S

\* Any statement of a run may fail.
Fail ==
  /\ pc # "off" /\ fails < MaxFail /\ fails' = fails + 1
  /\ Gone /\ RecordFailure /\ SetupCleanup /\ LeaveCommits
  /\ UNCHANGED <<committed, active, full, clone, phase, point, original, untuned,
                 plan, completed, log, dataVars, histVars, tries, kills, drops>>

\* The process is killed.
Kill ==
  /\ pc # "off" /\ kills < MaxKill /\ kills' = kills + 1
  /\ Gone /\ LeaveCommits
  /\ UNCHANGED <<srcVars, stVars, dirVars, dataVars, histVars, tries, fails, drops>>

\* The session that exported the snapshot ends.
HolderLost ==
  /\ pc \in {"restore_schema", "plan", "to_copy", "prepare", "copying"}
  /\ holder /\ fails < MaxFail /\ fails' = fails + 1
  /\ holder' = FALSE
  /\ UNCHANGED <<srcVars, stVars, dirVars, tgtVars, pc, fromClone, snap, work,
                 streaming, histVars, tries, kills, drops>>

\* The server ends the transaction of a run that is gone, one way or the other.
OrphanEnds(p) ==
  /\ p \in orphan /\ orphan' = orphan \ {p}
  /\ \/ UNCHANGED <<rows, receipts, overtaken>>
     \/ /\ rows' = [rows EXCEPT ![p] = Append(@, point)]
        /\ receipts' = receipts \cup {p}
        /\ overtaken' = overtaken \cup {q \in {p} : work[q] = "blind"}
  /\ UNCHANGED <<srcVars, stVars, dirVars, tables, prepared, identity, tuned,
                 runVars, lost, stale, cntVars>>

-----------------------------------------------------------------------------
(***************************************************************************)
(* App.Run: what a new process does with what it finds.                    *)
(***************************************************************************)

Step(next) ==
  pc' = next /\ UNCHANGED <<fromClone, snap, holder, work, streaming>>

\* resetInterruptedBaseCopy starts: the target's identity row names the stream
\* of the state store, if there is one.
ResetAccepted == identity => point # None

\* With neither snapshot.json nor a recorded slot, RecoverStale comes first.
EnterReset ==
  Step(IF snapfile = NoFile /\ point = None THEN "recover_slot" ELSE "untune")

\* guardRepeatedBaseCopyFailure, with --retry-base-copy or without.
GuardAccepts(retry) == retry \/ failed.count < 2

\* The base copy of an interrupted setup, schema or copy is discarded.
StartOver ==
  /\ pc = "off" /\ phase \in {"setup", "schema", "copy"}
  /\ phase = "copy" => ~fromClone /\ snapfile # NoFile
  /\ \E retry \in BOOLEAN :
       /\ GuardAccepts(retry)
       /\ failed' = IF retry THEN NoFailure ELSE failed
  /\ ResetAccepted /\ EnterReset
  /\ UNCHANGED <<srcVars, phase, point, original, untuned, plan, completed,
                 dirVars, tgtVars, histVars, cntVars>>

\* A post-copy stream is discarded without asking whether it can be resumed.
BugStreamMissing == TRUE

\* prepareFreshSnapshotRestart: the publication or the slot is proved missing.
StreamMissing == pub = None \/ slot = NoSlot

\* RestartBaseCopy, the operator's explicit recovery.
RestartBaseCopy ==
  /\ pc = "off" /\ phase \in {"indexes", "catchup"}
  /\ StreamMissing
  /\ ResetAccepted /\ EnterReset
  /\ UNCHANGED <<srcVars, stVars, dirVars, tgtVars, histVars, cntVars>>

StartFresh ==
  /\ pc = "off" /\ phase = "preflight" /\ Step("preflight")
  /\ UNCHANGED <<srcVars, stVars, dirVars, tgtVars, histVars, cntVars>>

\* The slot of a clone's stream is held to the clone's seed.
BugStreamAccepted ==
  /\ identity
  /\ snapfile # NoFile /\ snapfile.point = point
  /\ pub # None /\ slot # NoSlot /\ ~active
  /\ point <= slot.confirmed

\* resumePostCopy up to ValidateResume: the target's identity, snapshot.json
\* against the store, the publication, and the slot and its positions.
StreamAccepted ==
  /\ identity
  /\ snapfile # NoFile /\ snapfile.point = point
  /\ pub # None /\ slot # NoSlot /\ ~active
  /\ snapfile.slotPoint <= point
  /\ snapfile.slotPoint <= slot.confirmed

\* resolveSupersededIndexFinding: in phase indexes with no failed attempt it
\* resolves the divergence finding, and ResolveFinding fails when there is none;
\* none is recorded before catchup.
FindingAccepted == phase = "indexes" => failed.count # 0

\* ResumeClone: the clone is the one whose rows were copied so far, and nothing
\* that the source was told is durable is missing from the segments.
CloneAccepted ==
  /\ clone.marker = pub /\ clone.seed = point
  /\ slot.confirmed <= MaxOf(log \cup {point})
  /\ plan

Resumed == phase \in {"indexes", "catchup"} \/ (phase = "copy" /\ fromClone)

ResumeAccepted ==
  StreamAccepted /\ FindingAccepted /\ (phase = "copy" => CloneAccepted)

\* resumePostCopy: the log is recovered, the stream continues, and so does the
\* phase: a clone exports a new snapshot of the same rows.
Resume ==
  /\ pc = "off" /\ Resumed /\ ResumeAccepted
  /\ streaming' = TRUE /\ active' = TRUE
  /\ pc' = IF phase = "catchup" THEN "up" ELSE "tune_record"
  /\ snap' = IF phase = "copy" THEN clone.seed ELSE None
  /\ holder' = (phase = "copy")
  /\ UNCHANGED <<committed, pub, slot, full, clone, stVars, dirVars, tgtVars,
                 fromClone, work, histVars, cntVars>>

\* The metadata of the reset that was interrupted is gone, yet the phase is
\* still copy: Run reads snapshot.json before it decides to start over.
Stranded == phase = "copy" /\ snapfile = NoFile /\ pc = "off"

\* What ends a run without an environment's fault: a validation.
Refusal ==
  \/ Stranded
  \/ pc = "off" /\ Resumed /\ ~ResumeAccepted
  \/ pc = "off" /\ phase \in {"setup", "schema", "copy"} /\ ~ResetAccepted
  \/ pc \in {"recover_slot", "drop_slot"} /\ slot # NoSlot /\ active
  \/ pc = "preflight" /\ tables # {}
  \/ pc = "publish" /\ ~StreamMissing
  \/ pc \in {"restore_schema", "copying"} /\ ~holder

Refuse ==
  /\ Refusal
  /\ Gone /\ RecordFailure /\ LeaveCommits
  /\ UNCHANGED <<srcVars, phase, point, original, untuned, plan, completed,
                 dirVars, dataVars, histVars, cntVars>>

\* cloneSnapshot refuses a clone that an earlier attempt asked for.
RefuseClone ==
  /\ pc = "clone" /\ clone # NoClone /\ clone.marker # pub
  /\ fails < MaxFail /\ fails' = fails + 1
  /\ Gone /\ RecordFailure /\ SetupCleanup
  /\ UNCHANGED <<committed, active, full, clone, phase, point, original, untuned,
                 plan, completed, log, tgtVars, histVars, tries, kills, drops>>

-----------------------------------------------------------------------------
(***************************************************************************)
(* resetInterruptedBaseCopy, in its order.                                 *)
(***************************************************************************)

\* validateRecoverableSlot refuses an active slot: see Refusal.
DropSlot ==
  /\ pc \in {"recover_slot", "drop_slot"}
  /\ slot # NoSlot => ~active
  /\ slot' = NoSlot
  /\ Step(IF pc = "drop_slot" THEN "drop_pub" ELSE "recover_pub")
  /\ UNCHANGED <<committed, pub, active, full, clone, stVars, dirVars, tgtVars,
                 histVars, cntVars>>

DropPublication ==
  /\ pc \in {"recover_pub", "drop_pub"}
  /\ pub' = None
  /\ Step(IF pc = "drop_pub" THEN "restore" ELSE "untune")
  /\ UNCHANGED <<committed, slot, active, full, clone, stVars, dirVars, tgtVars,
                 histVars, cntVars>>

\* The identities go back before the publication is gone.
BugAfterUntune == "restore"

AfterUntune ==
  IF snapfile # NoFile \/ point # None THEN "drop_slot" ELSE "restore"

\* revertTargetTuning: the recorded settings go back.
Untune ==
  /\ pc = "untune"
  /\ tuned' = (tuned /\ ~untuned)
  /\ Step(AfterUntune)
  /\ UNCHANGED <<srcVars, stVars, dirVars, tables, rows, receipts, prepared,
                 identity, orphan, histVars, cntVars>>

RestoreIdentities ==
  /\ pc = "restore"
  /\ full' = full \ original
  /\ Step("drop_tables")
  /\ UNCHANGED <<committed, pub, slot, active, clone, stVars, dirVars, tgtVars,
                 histVars, cntVars>>

\* The tables, the objects of the archive and the schemas.  DROP TABLE waits for
\* a transaction that still writes to one.
DropTables ==
  /\ pc = "drop_tables" /\ orphan = {}
  /\ tables' = {} /\ rows' = Empty /\ overtaken' = {}
  /\ Step("drop_metadata")
  /\ UNCHANGED <<srcVars, stVars, dirVars, receipts, prepared, identity, tuned,
                 orphan, lost, stale, cntVars>>

\* DROP SCHEMA pgmigrate_internal.  Its error is not looked at, so that the reset
\* goes on when there is one.
DropMetadata ==
  /\ pc = "drop_metadata"
  /\ \/ /\ lost' = FALSE
        /\ receipts' = {} /\ prepared' = {} /\ identity' = FALSE
     \/ /\ identity \/ prepared \cup receipts # {}
        /\ lost' = TRUE /\ UNCHANGED <<receipts, prepared, identity>>
  /\ stale' = receipts'
  /\ Step("remove_snapshot")
  /\ UNCHANGED <<srcVars, stVars, dirVars, tables, rows, tuned, orphan, overtaken,
                 cntVars>>

RemoveSnapshot ==
  /\ pc = "remove_snapshot"
  /\ snapfile' = NoFile
  /\ Step("remove_cdc")
  /\ UNCHANGED <<srcVars, stVars, log, tgtVars, histVars, cntVars>>

RemoveCDC == pc = "remove_cdc" /\ log' = {}

\* The dump and the CDC directory go, and are made again.
RemoveFiles ==
  /\ RemoveCDC
  /\ Step("reset")
  /\ UNCHANGED <<srcVars, stVars, snapfile, tgtVars, histVars, cntVars>>

\* ResetBaseCopy, or ResetForFreshSnapshot after a post-copy restart.
ResetState ==
  /\ pc = "reset"
  /\ phase' = "preflight" /\ point' = None /\ original' = {} /\ untuned' = FALSE
  /\ plan' = FALSE /\ completed' = {}
  /\ failed' = IF phase \in {"indexes", "catchup"} THEN NoFailure ELSE failed
  /\ Step("preflight")
  /\ UNCHANGED <<srcVars, dirVars, tgtVars, histVars, cntVars>>

-----------------------------------------------------------------------------
(***************************************************************************)
(* Setup: identities, publication, slot, snapshot, identity row, tuning.   *)
(***************************************************************************)

\* preflight.Run: a target with relations of its own is refused.
Preflight ==
  /\ pc = "preflight" /\ tables = {}
  /\ phase' = "setup" /\ Step("identities")
  /\ UNCHANGED <<srcVars, point, original, untuned, plan, completed, failed,
                 dirVars, tgtVars, histVars, cntVars>>

\* replident.Apply on one relation: record, then alter.
ApplyIdentity(t) ==
  \/ t \notin original /\ original' = original \cup {t} /\ UNCHANGED full
  \/ t \in original /\ t \notin full /\ full' = full \cup {t}
     /\ UNCHANGED original

\* applyReplicaIdentityFallback.
Identities ==
  /\ pc = "identities"
  /\ \/ /\ \E t \in Needy : ApplyIdentity(t)
        /\ UNCHANGED pc
     \/ Needy \subseteq full \cap original /\ pc' = "publish"
        /\ UNCHANGED <<full, original>>
  /\ UNCHANGED <<committed, pub, slot, active, clone, phase, point, untuned, plan,
                 completed, failed, dirVars, tgtVars, fromClone, snap, holder,
                 work, streaming, histVars, cntVars>>

\* Neither name may be taken.  The marker that cloneSnapshot will comment the
\* publication with is new in every attempt.
Publish ==
  /\ pc = "publish" /\ pub = None /\ slot = NoSlot
  /\ tries < MaxTry /\ tries' = tries + 1
  /\ pub' = tries'
  /\ Step("slot")
  /\ UNCHANGED <<committed, slot, active, full, clone, stVars, dirVars, tgtVars,
                 histVars, fails, kills, drops>>

\* The slot is created and exports a snapshot of the same position, which a run
\* with a clone gives up again.
CreateSlot ==
  /\ pc = "slot"
  /\ slot' = [point |-> committed, confirmed |-> committed]
  /\ snap' = IF fromClone THEN None ELSE committed
  /\ holder' = ~fromClone
  /\ pc' = IF fromClone THEN "clone" ELSE "snapshot"
  /\ UNCHANGED <<committed, pub, active, full, clone, stVars, dirVars, tgtVars,
                 fromClone, work, streaming, histVars, cntVars>>

\* cloneSnapshot: the clone carries this attempt's marker, and was taken at a
\* position the slot still retains.
CloneMatches ==
  /\ clone.marker = pub
  /\ clone.seed \in slot.point..committed
  /\ slot.confirmed <= clone.seed

UseClone ==
  /\ pc = "clone" /\ CloneMatches
  /\ snap' = clone.seed /\ holder' = TRUE /\ pc' = "snapshot"
  /\ UNCHANGED <<srcVars, stVars, dirVars, tgtVars, fromClone, work, streaming,
                 histVars, cntVars>>

WriteSnapshot ==
  /\ pc = "snapshot"
  /\ snapfile' = [point |-> snap, slotPoint |-> slot.point]
  /\ Step("record")
  /\ UNCHANGED <<srcVars, stVars, log, tgtVars, histVars, cntVars>>

\* Store.SetSnapshot: a recorded snapshot is never replaced.
SetSnapshot ==
  /\ pc = "record" /\ point = None
  /\ point' = snap
  /\ Step("identity")
  /\ UNCHANGED <<srcVars, phase, original, untuned, plan, completed, failed,
                 dirVars, tgtVars, histVars, cntVars>>

\* recordTargetIdentity and initializeTargetProgress; the names are derived
\* from the source and the directory, so a row of an earlier attempt agrees.
RecordIdentity ==
  /\ pc = "identity"
  /\ identity' = TRUE
  /\ Step("tune_record")
  /\ UNCHANGED <<srcVars, stVars, dirVars, tables, rows, receipts, prepared,
                 tuned, orphan, histVars, cntVars>>

\* tuneTarget plans nothing for a target that is tuned already.
RecordTuning ==
  /\ pc = "tune_record"
  /\ untuned' = (untuned \/ ~tuned)
  /\ Step("tune")
  /\ UNCHANGED <<srcVars, phase, point, original, plan, completed, failed, dirVars,
                 tgtVars, histVars, cntVars>>

Tune ==
  /\ pc = "tune"
  /\ tuned' = TRUE
  /\ Step(CASE phase = "setup"   -> "stream"
            [] phase = "copy"    -> "prepare"
            [] phase = "indexes" -> "build")
  /\ UNCHANGED <<srcVars, stVars, dirVars, tables, rows, receipts, prepared,
                 identity, orphan, histVars, cntVars>>

StartStream ==
  /\ pc = "stream"
  /\ streaming' = TRUE /\ active' = TRUE /\ pc' = "to_schema"
  /\ UNCHANGED <<committed, pub, slot, full, clone, stVars, dirVars, tgtVars,
                 fromClone, snap, holder, work, histVars, cntVars>>

-----------------------------------------------------------------------------
(***************************************************************************)
(* Schema and copy.                                                        *)
(***************************************************************************)

ToPhase(at, ph, next) ==
  /\ pc = at /\ phase' = ph /\ Step(next)
  /\ UNCHANGED <<srcVars, point, original, untuned, plan, completed, failed,
                 dirVars, tgtVars, histVars, cntVars>>

ToSchema == ToPhase("to_schema", "schema", "restore_schema")
ToCopy == ToPhase("to_copy", "copy", "prepare")

\* Dump, under the snapshot, and RestorePreData.
RestoreSchema ==
  /\ pc = "restore_schema" /\ holder
  /\ tables' = Table /\ rows' = Empty
  /\ Step("plan")
  /\ UNCHANGED <<srcVars, stVars, dirVars, receipts, prepared, identity, tuned,
                 orphan, histVars, cntVars>>

\* The plan of a clone's copy is kept for its resume.
SavePlan ==
  /\ pc = "plan"
  /\ plan' = fromClone
  /\ Step("to_copy")
  /\ UNCHANGED <<srcVars, phase, point, original, untuned, completed, failed,
                 dirVars, tgtVars, histVars, cntVars>>

Clear(t) == [p \in Part |-> IF TableOf[p] = t THEN << >> ELSE rows[p]]

\* Every run empties the split tables.
BugPrepareTable(t) ==
  /\ prepared' = prepared \cup {t} /\ rows' = Clear(t)

\* prepareSplitTable: the first preparation empties the table, in the
\* transaction that marks it.
PrepareTable(t) ==
  /\ t \notin prepared
  /\ {p \in receipts : TableOf[p] = t} = {}
  /\ prepared' = prepared \cup {t} /\ rows' = Clear(t)

Prepare ==
  /\ pc = "prepare"
  /\ \/ /\ \E t \in Split : PrepareTable(t)
        /\ UNCHANGED pc
     \/ /\ Split \subseteq prepared /\ pc' = "copying"
        /\ UNCHANGED <<prepared, rows>>
  /\ UNCHANGED <<srcVars, stVars, dirVars, tables, receipts, identity, tuned,
                 orphan, fromClone, snap, holder, work, streaming, histVars, cntVars>>

Works(p, s) ==
  /\ work' = [work EXCEPT ![p] = s]
  /\ UNCHANGED <<pc, fromClone, snap, holder, streaming>>

\* LargestFirst: an idle worker takes the largest part that is left; a part that
\* is tried again has its worker already.
Handed(p) ==
  \/ work[p] = "again"
  \/ /\ work[p] = "todo"
     /\ \A q \in Part : work[q] = "todo" => Bytes[q] <= Bytes[p]
     /\ Cardinality({q \in Part : work[q] \notin {"todo", "stored"}}) < Workers

\* copyPart: the target's receipt is what makes a part done.
PartDone(p) == p \in receipts

SkipPart(p) ==
  /\ pc = "copying" /\ Handed(p) /\ PartDone(p)
  /\ completed' = completed \cup {p}
  /\ Works(p, "stored")
  /\ UNCHANGED <<srcVars, phase, point, original, untuned, plan, failed, dirVars,
                 tgtVars, histVars, cntVars>>

\* copyPart until its COMMIT.  TRUNCATE waits for another writer of the table;
\* a DELETE does not see its rows.
OpenPart(p) ==
  /\ pc = "copying" /\ Handed(p) /\ ~PartDone(p)
  /\ holder
  /\ TableOf[p] \notin Split => p \notin orphan
  /\ Works(p, IF p \in orphan THEN "blind" ELSE "open")
  /\ UNCHANGED <<srcVars, stVars, dirVars, tgtVars, histVars, cntVars>>

\* TRUNCATE of the table, or clearCopiedRange, where there is a key.
Kept(p) ==
  IF TableOf[p] \notin Split \/ (TableOf[p] \in Keyed /\ work[p] = "open")
    THEN << >> ELSE rows[p]

\* The rows and the receipt in one transaction of the target.
CommitPart(p) ==
  /\ rows' = [rows EXCEPT ![p] = Append(Kept(p), snap)]
  /\ receipts' = receipts \cup {p}

\* The receipt's key makes the COMMIT wait for another writer of it.
StorePart(p) ==
  /\ pc = "copying" /\ work[p] \in {"open", "blind"} /\ p \notin orphan
  /\ CommitPart(p)
  /\ Works(p, "committed")
  /\ UNCHANGED <<srcVars, stVars, dirVars, tables, prepared, identity, tuned,
                 orphan, histVars, cntVars>>

\* The connection is lost, the transaction with it, and the part tried again.
RetryPart(p) ==
  /\ pc = "copying" /\ work[p] \in {"open", "blind"}
  /\ fails < MaxFail /\ fails' = fails + 1
  /\ Works(p, "again")
  /\ UNCHANGED <<srcVars, stVars, dirVars, tgtVars, histVars, tries, kills, drops>>

CompletePart(p) ==
  /\ pc = "copying" /\ work[p] = "committed"
  /\ completed' = completed \cup {p}
  /\ Works(p, "stored")
  /\ UNCHANGED <<srcVars, phase, point, original, untuned, plan, failed, dirVars,
                 tgtVars, histVars, cntVars>>

\* The workers are done and the snapshot is released.
EndCopy ==
  /\ pc = "copying" /\ \A p \in Part : work[p] = "stored"
  /\ holder' = FALSE /\ pc' = "to_indexes"
  /\ UNCHANGED <<srcVars, stVars, dirVars, tgtVars, fromClone, snap, work, streaming,
                 histVars, cntVars>>

ToIndexes == ToPhase("to_indexes", "indexes", "clear")

\* A restart keeps the copy from here on.
ClearFailure ==
  /\ pc = "clear"
  /\ failed' = NoFailure /\ Step("build")
  /\ UNCHANGED <<srcVars, phase, point, original, untuned, plan, completed,
                 dirVars, tgtVars, histVars, cntVars>>

\* Indexes, constraints and vacuum (see IndexBuild), then catchup.
Build == ToPhase("build", "catchup", "up")

\* Replay begins, which is not part of this module.
CatchUp == pc = "up" /\ UNCHANGED vars

-----------------------------------------------------------------------------
Environment ==
  \/ SourceCommit \/ SessionExpires \/ SlotDropped \/ TakeClone
  \/ Fail \/ Kill \/ HolderLost

Stream == Receive \/ Acknowledge

Starting == StartFresh \/ StartOver \/ RestartBaseCopy \/ Resume

Refusing == Refuse \/ RefuseClone

Resetting ==
  \/ DropSlot \/ DropPublication \/ Untune \/ RestoreIdentities \/ DropTables
  \/ DropMetadata \/ RemoveSnapshot \/ RemoveFiles \/ ResetState

SettingUp ==
  \/ Preflight \/ Identities \/ Publish \/ CreateSlot \/ UseClone
  \/ WriteSnapshot \/ SetSnapshot \/ RecordIdentity \/ RecordTuning \/ Tune
  \/ StartStream

Copying(p) ==
  SkipPart(p) \/ OpenPart(p) \/ StorePart(p) \/ CompletePart(p)

Advancing ==
  \/ ToSchema \/ RestoreSchema \/ SavePlan \/ ToCopy \/ Prepare \/ EndCopy
  \/ ToIndexes \/ ClearFailure \/ Build

Next ==
  \/ Environment \/ Stream \/ Starting \/ Refusing \/ Resetting \/ SettingUp
  \/ Advancing \/ CatchUp
  \/ \E p \in Part : Copying(p) \/ RetryPart(p) \/ OrphanEnds(p)

Spec == Init /\ [][Next]_vars

\* A run starts, and what it does by itself once it has started.
Running ==
  \/ Starting \/ Resetting \/ SettingUp \/ Advancing
  \/ \E p \in Part : Copying(p)

\* The servers end the sessions and transactions of clients that are gone, and
\* the operator takes the clone that was asked for.
Serving ==
  SessionExpires \/ TakeClone \/ \E p \in Part : OrphanEnds(p)

\* A run that works is scheduled; a supervisor starts one when there is none,
\* after a refusal too, and the operator restarts a copy whose stream is gone.
\* Each fault gives the servers finitely much to do.
FairSpec == Spec /\ WF_vars(Running) /\ WF_vars(Refuse) /\ WF_vars(Serving)

-----------------------------------------------------------------------------
(***************************************************************************)
(* Properties.                                                             *)
(***************************************************************************)

\* The run works, or the next one would go on to work, with what the base copy
\* left: its phase is past the copy, and ValidateResume accepts the stream.
Continues ==
  \/ pc \in {"clear", "build", "up"}
  \/ pc \in {"off", "tune_record", "tune"} /\ phase \in {"indexes", "catchup"}
     /\ (pc = "off" => StreamAccepted)

\* Rows that part p has if it is copied once; a part whose receipt outlived a
\* reset is taken for copied and is not.
Copied(p) == rows[p] = IF p \in stale THEN << >> ELSE <<point>>

\* Rows that part p has if a dead run's COMMIT of it landed beside the next copy.
CopiedTwice(p) == p \in overtaken /\ rows[p] = <<point, point>>

\* A migration that continues past the copy has every part on the target exactly
\* once, read at the position where its CDC stream starts, but for two kinds of
\* parts: one whose receipt survived the DROP SCHEMA of an earlier reset has no
\* rows, and one that was committed late, by a dead run, may be there twice.
PartsOnce ==
  Continues => \A p \in Part : Copied(p) \/ CopiedTwice(p)

\* A stream that is running, or that the next run would resume, has no gap: a
\* commit after the snapshot is in the segments or still to come from the slot,
\* and the segments hold nothing that the copied rows have already.
NoGap ==
  Continues \/ streaming =>
    /\ \A c \in (point + 1)..committed : c \in log \/ slot.confirmed < c
    /\ \A c \in log : point < c

\* A receipt that copyPart would believe is a receipt for the rows that are
\* there, but for these two kinds of parts.
ReceiptsHold ==
  \A p \in receipts : TableOf[p] \in tables => Copied(p) \/ CopiedTwice(p)

\* The target's identity row names a stream that the state store knows, which
\* every later reset insists on, unless the last DROP SCHEMA failed.
IdentityKnown == identity => point # None \/ lost

\* A published relation can always identify its rows: at no point between two
\* statements of setup, reset or cleanup do the source's updates fail.
WritableSource == pub # None => Needy \subseteq full

\* What the run changed on the source and the target is on record for as long
\* as it is changed: no crash leaves a change that nothing knows how to undo.
OriginalsKept == full \subseteq original /\ (tuned => untuned)

\* Once the state says preflight nothing of the old attempt survives, on the
\* source, in the directory or among the target's tables and settings, because
\* resetInterruptedBaseCopy commits the reset last; on the target's metadata it
\* can rely only when the last DROP SCHEMA was carried out.
CleanSlate ==
  phase = "preflight" =>
    /\ pub = None /\ slot = NoSlot /\ full = {}
    /\ snapfile = NoFile /\ log = {}
    /\ tables = {} /\ ~tuned
    /\ receipts = stale
    /\ ~lost => receipts = {} /\ ~identity

\* No interruption mixes two attempts: what continues past the copy is one
\* attempt's snapshot and the stream from its position on, and a reset leaves
\* nothing to be taken up, except through a DROP SCHEMA that failed unnoticed;
\* the parts are whole and once, except where a COMMIT of a dead run landed late.
CopyExact ==
  PartsOnce /\ NoGap /\ ReceiptsHold /\ IdentityKnown /\ CleanSlate

\* Whatever the run changes on the source or the target can be undone, and the
\* source's writes never fail because of it.
SourceIsSafe == WritableSource /\ OriginalsKept

\* Work that a restart can keep is kept: no run starts to discard a post-copy
\* stream that it could resume, and a part that a clone's copy committed keeps
\* its rows until the copy is over, across every restart; they grow only where
\* another COMMIT of the same part landed beside the copy.
KeepsWork ==
  [][/\ pc = "off" /\ pc' \in ResetSteps => ~(Resumed /\ StreamAccepted)
     /\ fromClone /\ phase = "copy" =>
          \A p \in receipts :
            /\ p \in receipts'
            /\ \/ rows'[p] = rows[p]
               \/ p \in overtaken /\ rows'[p] = Append(rows[p], point)]_vars

\* The reset of an attempt is refused, because the identity row of an earlier
\* one outlived its own reset (see IdentityKnown).
Disowned == phase = "setup" /\ pc = "off" /\ ~ResetAccepted

\* When the faults are over, a supervised migration reaches catchup and stays
\* there, unless it was killed inside the window of Stranded, or during setup
\* after a DROP SCHEMA that failed unnoticed.
Completes == <>[](pc = "up" \/ Stranded \/ Disowned)

=============================================================================
