-------------------------- MODULE BaseCopy_proofs --------------------------
(***************************************************************************)
(* What setup, failures and resets leave behind on the source and the      *)
(* target, for every set of tables, parts and relations without identity   *)
(* and for every number of commits, errors, kills and dropped slots.       *)
(***************************************************************************)
EXTENDS BaseCopy, SequenceTheorems, TLAPS

\* The reset after the publication is gone.
Restoring == {"restore", "drop_tables", "drop_metadata", "remove_snapshot",
              "remove_cdc", "reset"}

\* Where a run may be while its receiver is running.
Streamed == {"tune_record", "tune", "stream", "to_schema", "restore_schema", "plan",
             "to_copy", "prepare", "copying", "to_indexes", "clear", "build", "up"}

\* Setup before the identity row.
Early == {"identities", "publish", "slot", "clone", "snapshot", "record", "identity"}

\* Which phase the steps of a run belong to, as far as it matters.
PlaceInv ==
  /\ tuned \in BOOLEAN /\ untuned \in BOOLEAN
  /\ streaming \in BOOLEAN /\ identity \in BOOLEAN
  /\ phase = "preflight" => pc \in {"off", "preflight"}
  /\ pc = "preflight" => phase = "preflight"
  /\ pc \in Early => phase = "setup"
  /\ pc \in {"tune_record", "tune"} => phase \in {"setup", "copy", "indexes"}
  /\ streaming => pc \in Streamed

\* Identities: every relation at FULL is on record, all of them are before the
\* publication exists, and none is after they were restored.
IdentityInv ==
  /\ full \subseteq original
  /\ pub # None => Needy \subseteq full
  /\ pc = "publish" => Needy \subseteq full
  /\ pc \in Restoring \ {"restore"} => full = {}

\* Slot and publication: each path of the reset that comes to the identities
\* has dropped both, also the one that found neither snapshot.json nor a
\* recorded snapshot.
StreamInv ==
  /\ pc \in {"recover_pub", "drop_pub"} => slot = NoSlot
  /\ pc = "untune" /\ snapfile = NoFile /\ point = None => pub = None /\ slot = NoSlot
  /\ pc \in Restoring => pub = None /\ slot = NoSlot

\* Settings of the bulk load: recorded before, put back before the record goes.
TuningInv ==
  /\ tuned => untuned
  /\ pc = "tune" => untuned
  /\ pc \in {"drop_slot", "drop_pub"} \cup Restoring => ~tuned

SafeInv == PlaceInv /\ IdentityInv /\ StreamInv /\ TuningInv

-----------------------------------------------------------------------------
LEMMA SafeInit == Init => SafeInv
BY DEF Init, SafeInv, PlaceInv, IdentityInv, StreamInv, TuningInv, Early, Restoring, Streamed

\* The steps of the environment and of the stream, and the ways a run ends.
LEMMA SafeOutside ==
  ASSUME SafeInv, Environment \/ Stream \/ Refusing \/ CatchUp
         \/ \E p \in Part : Copying(p) \/ RetryPart(p) \/ OrphanEnds(p)
  PROVE  SafeInv'
<1> USE DEF SafeInv, PlaceInv, IdentityInv, StreamInv, TuningInv, Early, Restoring, Streamed,
            srcVars, stVars, dirVars, tgtVars, dataVars, runVars, cntVars
<1>1. CASE SourceCommit \/ SessionExpires \/ SlotDropped \/ TakeClone
  BY <1>1 DEF SourceCommit, SessionExpires, SlotDropped, TakeClone
<1>2. CASE Fail \/ RefuseClone
  <2>1. pc' = "off" /\ streaming' = FALSE /\ pub' \in {pub, None}
        /\ UNCHANGED <<phase, full, original, untuned, tuned, identity>>
    BY <1>2 DEF Fail, RefuseClone, Gone, SetupCleanup
  <2> QED
    BY <2>1
<1>3. CASE Kill
  <2>1. pc' = "off" /\ streaming' = FALSE
        /\ UNCHANGED <<pub, phase, full, original, untuned, tuned, identity>>
    BY <1>3 DEF Kill, Gone
  <2> QED
    BY <2>1
<1>4. CASE HolderLost
  BY <1>4 DEF HolderLost
<1>5. CASE Stream
  BY <1>5 DEF Stream, Receive, Acknowledge
<1>6. CASE Refuse
  <2>1. pc' = "off" /\ streaming' = FALSE
        /\ UNCHANGED <<pub, phase, full, original, untuned, tuned, identity>>
    BY <1>6 DEF Refuse, Gone
  <2> QED
    BY <2>1
<1>7. CASE CatchUp
  BY <1>7 DEF CatchUp, vars
<1>8. ASSUME NEW p \in Part, Copying(p) \/ RetryPart(p) \/ OrphanEnds(p) PROVE SafeInv'
  BY <1>8 DEF Copying, SkipPart, OpenPart, StorePart, CompletePart, RetryPart, OrphanEnds, Works
<1> QED
  BY <1>1, <1>2, <1>3, <1>4, <1>5, <1>6, <1>7, <1>8 DEF Environment, Refusing

\* What a new process decides, and the reset.
LEMMA SafeReset ==
  ASSUME SafeInv, Starting \/ Resetting PROVE SafeInv'
<1> USE DEF SafeInv, PlaceInv, IdentityInv, StreamInv, TuningInv, Early, Restoring, Streamed,
            srcVars, stVars, dirVars, tgtVars, dataVars, histVars, cntVars, Step
<1>1. CASE StartFresh
  BY <1>1 DEF StartFresh
<1>2. CASE StartOver
  BY <1>2 DEF StartOver, EnterReset
<1>3. CASE RestartBaseCopy
  BY <1>3 DEF RestartBaseCopy, EnterReset
<1>4. CASE Resume
  BY <1>4 DEF Resume, Resumed
<1>5. CASE DropSlot
  BY <1>5 DEF DropSlot
<1>6. CASE DropPublication
  BY <1>6 DEF DropPublication
<1>7. CASE Untune
  BY <1>7 DEF Untune, AfterUntune
<1>8. CASE RestoreIdentities
  BY <1>8 DEF RestoreIdentities
<1>9. CASE DropTables
  BY <1>9 DEF DropTables
<1>10. CASE DropMetadata
  <2>1. identity' \in BOOLEAN
    BY <1>10 DEF DropMetadata
  <2> QED
    BY <1>10, <2>1 DEF DropMetadata
<1>11. CASE RemoveSnapshot
  BY <1>11 DEF RemoveSnapshot
<1>12. CASE RemoveFiles
  BY <1>12 DEF RemoveFiles, RemoveCDC
<1>13. CASE ResetState
  BY <1>13 DEF ResetState
<1> QED
  BY <1>1, <1>2, <1>3, <1>4, <1>5, <1>6, <1>7, <1>8, <1>9, <1>10, <1>11, <1>12, <1>13
    DEF Starting, Resetting

\* Setup and the phases after it.
LEMMA SafeForward ==
  ASSUME SafeInv, SettingUp \/ Advancing PROVE SafeInv'
<1> USE DEF SafeInv, PlaceInv, IdentityInv, StreamInv, TuningInv, Early, Restoring, Streamed,
            srcVars, stVars, dirVars, tgtVars, dataVars, histVars, cntVars, Step
<1>1. CASE Preflight
  BY <1>1 DEF Preflight
<1>2. CASE Identities
  BY <1>2 DEF Identities, ApplyIdentity
<1>3. CASE Publish
  BY <1>3 DEF Publish
<1>4. CASE CreateSlot \/ UseClone \/ WriteSnapshot
  BY <1>4 DEF CreateSlot, UseClone, WriteSnapshot
<1>5. CASE SetSnapshot
  BY <1>5 DEF SetSnapshot
<1>6. CASE RecordIdentity
  BY <1>6 DEF RecordIdentity
<1>7. CASE RecordTuning
  BY <1>7 DEF RecordTuning
<1>8. CASE Tune
  BY <1>8 DEF Tune
<1>9. CASE StartStream
  BY <1>9 DEF StartStream
<1>10. CASE ToSchema \/ ToCopy \/ ToIndexes \/ Build
  BY <1>10 DEF ToSchema, ToCopy, ToIndexes, Build, ToPhase
<1>11. CASE RestoreSchema \/ SavePlan
  BY <1>11 DEF RestoreSchema, SavePlan
<1>12. CASE Prepare \/ EndCopy
  BY <1>12 DEF Prepare, EndCopy
<1>13. CASE ClearFailure
  BY <1>13 DEF ClearFailure
<1> QED
  BY <1>1, <1>2, <1>3, <1>4, <1>5, <1>6, <1>7, <1>8, <1>9, <1>10, <1>11, <1>12, <1>13
    DEF SettingUp, Advancing

LEMMA SafeStep == SafeInv /\ [Next]_vars => SafeInv'
<1> SUFFICES ASSUME SafeInv, [Next]_vars PROVE SafeInv'
  OBVIOUS
<1>1. CASE Next
  BY <1>1, SafeOutside, SafeReset, SafeForward DEF Next
<1>2. CASE UNCHANGED vars
  BY <1>2 DEF vars, srcVars, stVars, dirVars, tgtVars, dataVars, runVars, SafeInv, PlaceInv, IdentityInv,
              StreamInv, TuningInv
<1> QED
  BY <1>1, <1>2

\* The invariant holds in every reachable state.
LEMMA SafeInvariant == Spec => []SafeInv
BY SafeInit, SafeStep, PTL DEF Spec

\* No error, kill or reset leaves the source with a publication whose updates
\* fail, nor a changed identity or setting that nothing has on record.
THEOREM SourceIsSafeAlways == Spec => []SourceIsSafe
<1>1. SafeInv => SourceIsSafe
  BY DEF SafeInv, IdentityInv, TuningInv, SourceIsSafe, WritableSource, OriginalsKept
<1> QED
  BY <1>1, SafeInvariant, PTL

-----------------------------------------------------------------------------
(***************************************************************************)
(* What a reset leaves, whether or not the server carries out its last     *)
(* DROP SCHEMA.                                                            *)
(***************************************************************************)
Emptied == {"drop_metadata", "remove_snapshot", "remove_cdc", "reset"}

\* A part is in the middle of a target transaction only while parts are copied.
WorkInv ==
  /\ work \in [Part -> {"todo", "again", "open", "blind", "committed", "stored"}]
  /\ \A p \in Part : work[p] \in {"open", "blind"} => pc = "copying"

\* The reset removes the tables, the metadata, snapshot.json and the segments in
\* this order, and none of them comes back before the state says preflight; what
\* is left of the metadata is there because DROP SCHEMA failed.
CleanInv ==
  /\ pc \in Emptied => tables = {} /\ orphan = {} /\ overtaken = {}
  /\ pc \in Emptied \ {"drop_metadata"} =>
       receipts = stale /\ (~lost => receipts = {} /\ ~identity)
  /\ pc \in {"remove_cdc", "reset"} => snapfile = NoFile
  /\ pc = "reset" => log = {}
  /\ phase = "preflight" => orphan = {}
  /\ CleanSlate

\* A clone's copy is never reset, and its schema was restored before.
KeepInv ==
  /\ receipts \subseteq Part /\ rows = [p \in Part |-> rows[p]]
  /\ pc \in ResetSteps /\ phase = "copy" => ~fromClone
  /\ pc = "restore_schema" => phase = "schema"

LEMMA WorkInit == Init => WorkInv
BY DEF Init, WorkInv, Idle

LEMMA WorkStep == WorkInv /\ [Next]_vars => WorkInv'
<1> SUFFICES ASSUME WorkInv, [Next]_vars PROVE WorkInv'
  OBVIOUS
<1>1. CASE work' = Idle
  BY <1>1 DEF WorkInv, Idle
<1>2. CASE work' = work /\ (pc = "copying" => pc' = "copying")
  BY <1>2 DEF WorkInv
<1>3. CASE EndCopy
  BY <1>3 DEF WorkInv, EndCopy
<1>4. ASSUME NEW p \in Part, Copying(p) \/ RetryPart(p) PROVE WorkInv'
  <2>1. PICK s \in {"todo", "again", "open", "blind", "committed", "stored"} :
          work' = [work EXCEPT ![p] = s] /\ pc' = pc /\ pc = "copying"
    BY <1>4 DEF Copying, SkipPart, OpenPart, StorePart, CompletePart, RetryPart, Works
  <2> QED
    BY <2>1 DEF WorkInv
<1>5. CASE Environment
  BY <1>1, <1>2, <1>5
    DEF Environment, SourceCommit, SessionExpires, SlotDropped, TakeClone, Fail, Kill, HolderLost, Gone, runVars
<1>6. CASE Stream \/ Starting \/ Refusing
  BY <1>1, <1>2, <1>6
    DEF Stream, Receive, Acknowledge, Starting, StartFresh, StartOver, RestartBaseCopy, EnterReset, Resume,
        Step, Refusing, Refuse, RefuseClone, Gone, runVars
<1>7. CASE Resetting
  BY <1>2, <1>7
    DEF Resetting, DropSlot, DropPublication, Untune, RestoreIdentities, DropTables, DropMetadata,
        RemoveSnapshot, RemoveFiles, RemoveCDC, ResetState, Step
<1>8. CASE SettingUp
  BY <1>2, <1>8
    DEF SettingUp, Preflight, Identities, Publish, CreateSlot, UseClone, WriteSnapshot, SetSnapshot,
        RecordIdentity, RecordTuning, Tune, StartStream, Step
<1>9. CASE Advancing
  BY <1>2, <1>3, <1>9
    DEF Advancing, ToSchema, RestoreSchema, SavePlan, ToCopy, Prepare, ToIndexes, ClearFailure, Build,
        ToPhase, Step
<1>10. CASE CatchUp \/ (\E p \in Part : OrphanEnds(p)) \/ UNCHANGED vars
  BY <1>2, <1>10 DEF CatchUp, OrphanEnds, vars, runVars
<1> QED
  BY <1>4, <1>5, <1>6, <1>7, <1>8, <1>9, <1>10 DEF Next

LEMMA CleanInit == Init => CleanInv
BY DEF Init, CleanInv, CleanSlate, Emptied

\* A run that is not copying leaves no COMMIT behind.
LEMMA LeaveNothing ==
  ASSUME WorkInv, SafeInv, LeaveCommits, phase = "preflight" PROVE UNCHANGED orphan
<1>1. PICK S \in SUBSET {p \in Part \ orphan : work[p] \in {"open", "blind"}} :
        orphan' = orphan \cup S
  BY DEF LeaveCommits
<1>2. S = {}
  BY <1>1 DEF WorkInv, SafeInv, PlaceInv
<1> QED
  BY <1>1, <1>2

LEMMA CleanStep == CleanInv /\ SafeInv /\ WorkInv /\ [Next]_vars => CleanInv'
<1> SUFFICES ASSUME CleanInv, SafeInv, WorkInv, [Next]_vars PROVE CleanInv'
  OBVIOUS
<1> USE DEF CleanInv, CleanSlate, Emptied, SafeInv, PlaceInv, Early, Streamed, Restoring,
            srcVars, stVars, dirVars, tgtVars, dataVars, histVars, cntVars
<1>1. CASE SourceCommit \/ SessionExpires \/ SlotDropped \/ TakeClone \/ HolderLost
  BY <1>1 DEF SourceCommit, SessionExpires, SlotDropped, TakeClone, HolderLost, runVars
<1>2. CASE Fail \/ RefuseClone
  <2>1. pc' = "off" /\ slot' \in {slot, NoSlot} /\ pub' \in {pub, None} /\ snapfile' \in {snapfile, NoFile}
        /\ UNCHANGED <<phase, full, log, tables, receipts, identity, tuned, lost, stale, overtaken>>
    BY <1>2 DEF Fail, RefuseClone, Gone, SetupCleanup
  <2>2. phase = "preflight" => orphan' = orphan
    BY <1>2, LeaveNothing DEF Fail, RefuseClone
  <2> QED
    BY <2>1, <2>2
<1>3. CASE Kill
  <2>1. pc' = "off"
        /\ UNCHANGED <<phase, slot, pub, snapfile, full, log, tables, receipts, identity, tuned, lost, stale, overtaken>>
    BY <1>3 DEF Kill, Gone
  <2>2. phase = "preflight" => orphan' = orphan
    BY <1>3, LeaveNothing DEF Kill
  <2> QED
    BY <2>1, <2>2
<1>4. CASE Stream
  BY <1>4 DEF Stream, Receive, Acknowledge, runVars
<1>5. CASE Starting
  BY <1>5 DEF Starting, StartFresh, StartOver, RestartBaseCopy, EnterReset, Resume, Resumed, Step
<1>6. CASE Refuse
  <2>1. pc' = "off"
        /\ UNCHANGED <<phase, slot, pub, snapfile, full, log, tables, receipts, identity, tuned, lost, stale, overtaken>>
    BY <1>6 DEF Refuse, Gone
  <2>2. phase = "preflight" => orphan' = orphan
    BY <1>6, LeaveNothing DEF Refuse
  <2> QED
    BY <2>1, <2>2
<1>7. CASE DropSlot \/ DropPublication \/ Untune \/ RestoreIdentities
  BY <1>7 DEF DropSlot, DropPublication, Untune, AfterUntune, RestoreIdentities, Step
<1>8. CASE DropTables
  BY <1>8 DEF DropTables, Step
<1>9. CASE DropMetadata
  <2>1. receipts' = stale' /\ (~lost' => receipts' = {} /\ ~identity')
    BY <1>9 DEF DropMetadata
  <2>2. /\ pc = "drop_metadata" /\ pc' = "remove_snapshot"
        /\ UNCHANGED <<phase, tables, orphan, overtaken>>
    BY <1>9 DEF DropMetadata, Step
  <2> QED
    BY <2>1, <2>2
<1>10. CASE RemoveSnapshot \/ RemoveFiles
  BY <1>10 DEF RemoveSnapshot, RemoveFiles, RemoveCDC, Step
<1>11. CASE ResetState
  BY <1>11 DEF ResetState, Step, IdentityInv, StreamInv, TuningInv
<1>12. CASE SettingUp
  BY <1>12
    DEF SettingUp, Preflight, Identities, Publish, CreateSlot, UseClone, WriteSnapshot, SetSnapshot,
        RecordIdentity, RecordTuning, Tune, StartStream, Step
<1>13. CASE Advancing
  BY <1>13
    DEF Advancing, ToSchema, RestoreSchema, SavePlan, ToCopy, Prepare, EndCopy, ToIndexes, ClearFailure, Build,
        ToPhase, Step
<1>14. ASSUME NEW p \in Part, Copying(p) \/ RetryPart(p) \/ OrphanEnds(p) PROVE CleanInv'
  BY <1>14
    DEF Copying, SkipPart, OpenPart, StorePart, CompletePart, RetryPart, OrphanEnds, Works, runVars
<1>15. CASE CatchUp \/ UNCHANGED vars
  BY <1>15 DEF CatchUp, vars, runVars
<1> QED
  BY <1>1, <1>2, <1>3, <1>4, <1>5, <1>6, <1>7, <1>8, <1>9, <1>10, <1>11, <1>12, <1>13, <1>14, <1>15
    DEF Next, Environment, Refusing, Resetting

\* Once the state says preflight nothing of an old attempt is left on the source
\* or in the directory, nor a table or a setting on the target, at whichever
\* statements earlier resets were interrupted; of the target's metadata exactly
\* what a DROP SCHEMA left that failed without stopping the reset.
THEOREM CleanSlateAlways == Spec => []CleanSlate
<1>1. CleanInv => CleanSlate
  BY DEF CleanInv
<1> QED
  BY <1>1, SafeInit, SafeStep, WorkInit, WorkStep, CleanInit, CleanStep, PTL DEF Spec

-----------------------------------------------------------------------------
LEMMA KeepInit == Init => KeepInv
BY DEF Init, KeepInv, Empty, ResetSteps

LEMMA KeepStep == KeepInv /\ SafeInv /\ WorkInv /\ [Next]_vars => KeepInv'
<1> SUFFICES ASSUME KeepInv, SafeInv, WorkInv, [Next]_vars PROVE KeepInv'
  OBVIOUS
<1> USE DEF KeepInv, ResetSteps, srcVars, stVars, dirVars, tgtVars, dataVars, histVars, cntVars
<1>1. CASE SourceCommit \/ SessionExpires \/ SlotDropped \/ TakeClone \/ HolderLost \/ Stream
  BY <1>1
    DEF SourceCommit, SessionExpires, SlotDropped, TakeClone, HolderLost, Stream, Receive, Acknowledge, runVars
<1>2. CASE Fail \/ RefuseClone \/ Refuse \/ Kill
  <2>1. pc' = "off" /\ UNCHANGED <<phase, receipts, rows, fromClone>>
    BY <1>2 DEF Fail, RefuseClone, Refuse, Kill, Gone
  <2> QED
    BY <2>1
<1>3. CASE Prepare
  <2>1. rows' = [p \in Part |-> rows'[p]] /\ UNCHANGED <<phase, receipts, fromClone>>
        /\ pc' \in {pc, "copying"}
    BY <1>3 DEF Prepare, PrepareTable, Clear
  <2> QED
    BY <2>1
<1>4. CASE StartFresh \/ Resume
  BY <1>4 DEF StartFresh, Resume, Step
<1>5. CASE StartOver \/ RestartBaseCopy
  BY <1>5 DEF StartOver, RestartBaseCopy, EnterReset, Step, Resumed, StreamMissing, StreamAccepted
<1>6. CASE DropSlot \/ DropPublication \/ Untune \/ RestoreIdentities \/ RemoveSnapshot \/ RemoveFiles
  BY <1>6
    DEF DropSlot, DropPublication, Untune, AfterUntune, RestoreIdentities, RemoveSnapshot, RemoveFiles,
        RemoveCDC, Step
<1>7. CASE DropTables
  BY <1>7 DEF DropTables, Step, Empty
<1>8. CASE DropMetadata
  <2>1. receipts' \in {receipts, {}}
    BY <1>8 DEF DropMetadata
  <2> QED
    BY <1>8, <2>1 DEF DropMetadata, Step
<1>9. CASE ResetState
  BY <1>9 DEF ResetState, Step
<1>10. CASE SettingUp
  BY <1>10
    DEF SettingUp, Preflight, Identities, Publish, CreateSlot, UseClone, WriteSnapshot, SetSnapshot,
        RecordIdentity, RecordTuning, Tune, StartStream, Step, SafeInv, PlaceInv
<1>11. CASE RestoreSchema
  BY <1>11 DEF RestoreSchema, Step, Empty
<1>12. CASE ToSchema \/ SavePlan \/ ToCopy \/ EndCopy \/ ToIndexes \/ ClearFailure \/ Build
  BY <1>12 DEF ToSchema, SavePlan, ToCopy, EndCopy, ToIndexes, ClearFailure, Build, ToPhase, Step
<1>13. ASSUME NEW p \in Part, SkipPart(p) \/ OpenPart(p) \/ CompletePart(p) \/ RetryPart(p)
       PROVE  KeepInv'
  BY <1>13 DEF SkipPart, OpenPart, CompletePart, RetryPart, Works
<1>14. ASSUME NEW p \in Part, StorePart(p) \/ OrphanEnds(p) PROVE KeepInv'
  <2>1. UNCHANGED <<fromClone, pc, phase>> /\ receipts' \subseteq Part
    BY <1>14 DEF StorePart, CommitPart, Works, OrphanEnds, runVars
  <2>2. rows' = [q \in Part |-> rows'[q]]
    BY <1>14 DEF StorePart, CommitPart, OrphanEnds
  <2> QED
    BY <2>1, <2>2
<1>15. CASE CatchUp \/ UNCHANGED vars
  BY <1>15 DEF CatchUp, vars, runVars
<1> QED
  BY <1>1, <1>2, <1>3, <1>4, <1>5, <1>6, <1>7, <1>8, <1>9, <1>10, <1>11, <1>12, <1>13, <1>14, <1>15
    DEF Next, Environment, Refusing, Starting, Resetting, Advancing, Copying

-----------------------------------------------------------------------------
(***************************************************************************)
(* What continues past the copy: the parts, their receipts and the stream. *)
(***************************************************************************)
Past == {"indexes", "catchup"}

\* Setup before the snapshot is recorded.
Unrecorded == {"identities", "publish", "slot", "clone", "snapshot", "record"}

\* Each step of a run belongs to one phase, apart from the reset and the tuning.
PhaseInv ==
  /\ phase \in {"preflight", "setup", "schema", "copy"} \cup Past
  /\ pc \in {"stream", "to_schema"} => phase = "setup"
  /\ pc \in {"restore_schema", "plan", "to_copy"} => phase = "schema"
  /\ pc \in {"prepare", "copying", "to_indexes"} => phase = "copy"
  /\ pc \in {"clear", "build"} => phase = "indexes"
  /\ pc = "up" => phase = "catchup"
  /\ pc \in {"tune_record", "tune"} /\ phase = "copy" => fromClone

\* Setup has a position before it records one, and only then; a run copies at
\* the recorded one.
PointInv ==
  /\ point \in Nat \cup {None} /\ snap \in Nat \cup {None} /\ committed \in Nat /\ fromClone \in BOOLEAN
  /\ slot \in [point : Int, confirmed : Int]
  /\ phase = "preflight" \/ pc \in Unrecorded => point = None
  /\ phase \in {"schema", "copy"} \cup Past \/ pc = "identity" \/ pc \in Streamed => point # None
  /\ pc = "clone" => slot.point \in Nat
  /\ pc \in {"snapshot", "record"} => slot.confirmed <= snap /\ snap # None
  /\ pc \in {"identity"} \cup Streamed /\ phase \notin Past => snap = point

\* The segments hold what follows the recorded position, up to some position
\* that the slot has not confirmed more than.
SegmentInv ==
  /\ point = None => log = {}
  /\ point # None => \E high \in Int : /\ point <= high /\ log = (point + 1)..high
                                       /\ slot.confirmed <= high

\* A table holds a part exactly when there is a receipt for it that no reset left
\* behind, and holds it twice only where a late COMMIT overtook the copy.
Good(p) ==
  \/ rows[p] = IF p \in receipts \ stale THEN <<point>> ELSE << >>
  \/ p \in overtaken /\ rows[p] = <<point, point>>

\* Two transactions that copy the same part, one of them of a dead run: the
\* second is the one that may double the rows, and can only be one of them.
Beside(p) == p \in receipts /\ (work[p] = "blind" \/ p \in orphan)

OrphanInv ==
  /\ orphan \subseteq Part
  /\ stale \subseteq receipts /\ overtaken \subseteq receipts \ stale
  /\ orphan # {} => /\ tables = Table /\ pc \notin Emptied
                    /\ phase \in {"copy"} \cup Past
  /\ \A p \in Part : /\ work[p] = "open" => p \notin receipts \cup orphan
                     /\ Beside(p) => /\ p \in overtaken /\ rows[p] = <<point>>
                                     /\ work[p] # "blind" \/ p \notin orphan

RowsInv ==
  /\ tables \in {{}, Table}
  /\ tables = Table => \A p \in Part : Good(p)
  /\ phase \in {"preflight", "setup", "schema"} => receipts = stale
  /\ pc \in {"plan", "to_copy", "prepare", "copying", "to_indexes"} => tables = Table
  /\ \A p \in Part : work[p] \in {"committed", "stored"} => p \in receipts
  /\ pc \in {"off"} \cup ResetSteps => work = Idle
  /\ pc = "to_indexes" => receipts = Part
  /\ phase = "copy" /\ fromClone => tables = Table

\* A copy that was finished is there until its stream is missing, and nothing
\* gives a stream back to the phases after the copy.
PastInv ==
  phase \in Past =>
    /\ pc \in {"off", "tune_record", "tune", "clear", "build", "up"} \cup ResetSteps
    /\ pc \in ResetSteps => StreamMissing
    /\ pc \notin {"off"} \cup ResetSteps \/ ~StreamMissing => tables = Table /\ receipts = Part

CopyInv == PhaseInv /\ PointInv /\ SegmentInv /\ OrphanInv /\ RowsInv /\ PastInv

-----------------------------------------------------------------------------
LEMMA CopyInit == Init => CopyInv
<1> SUFFICES ASSUME Init PROVE CopyInv
  OBVIOUS
<1> USE DEF Init, Past, Unrecorded, Streamed, ResetSteps, None, NoSlot
<1>1. PhaseInv /\ PastInv
  BY DEF PhaseInv, PastInv
<1>2. PointInv
  BY ConstAssumption DEF PointInv
<1>3. SegmentInv
  BY DEF SegmentInv
<1>4. RowsInv
  BY DEF RowsInv, Good, Empty, Idle
<1>5. OrphanInv
  BY DEF OrphanInv, Beside, Idle
<1> QED
  BY <1>1, <1>2, <1>3, <1>4, <1>5 DEF CopyInv

LEMMA PhaseStep == CopyInv /\ SafeInv /\ [Next]_vars => PhaseInv'
<1> SUFFICES ASSUME CopyInv, SafeInv, [Next]_vars PROVE PhaseInv'
  OBVIOUS
<1> USE DEF CopyInv, PhaseInv, SafeInv, PlaceInv, Past, Early, stVars, runVars
<1>1. CASE pc' = "off" /\ UNCHANGED phase
  BY <1>1
<1>2. CASE UNCHANGED <<pc, phase, fromClone>>
  BY <1>2
<1>3. CASE Environment \/ Stream \/ Refusing \/ CatchUp \/ UNCHANGED vars
  BY <1>1, <1>2, <1>3
    DEF Environment, SourceCommit, SessionExpires, SlotDropped, TakeClone, Fail, Kill, HolderLost, Gone,
        Stream, Receive, Acknowledge, Refusing, Refuse, RefuseClone, CatchUp, vars
<1>4. CASE \E p \in Part : Copying(p) \/ RetryPart(p) \/ OrphanEnds(p)
  BY <1>2, <1>4 DEF Copying, SkipPart, OpenPart, StorePart, CompletePart, RetryPart, OrphanEnds, Works
<1>5. CASE Starting
  BY <1>5 DEF Starting, StartFresh, StartOver, RestartBaseCopy, EnterReset, Resume, Resumed, Step
<1>6. CASE Resetting
  BY <1>6 DEF Resetting, DropSlot, DropPublication, Untune, AfterUntune, RestoreIdentities, DropTables,
              DropMetadata, RemoveSnapshot, RemoveFiles, RemoveCDC, ResetState, Step
<1>7. CASE SettingUp
  BY <1>7 DEF SettingUp, Preflight, Identities, Publish, CreateSlot, UseClone, WriteSnapshot, SetSnapshot,
              RecordIdentity, RecordTuning, Tune, StartStream, Step
<1>8. CASE Advancing
  BY <1>8 DEF Advancing, ToSchema, RestoreSchema, SavePlan, ToCopy, Prepare, EndCopy, ToIndexes,
              ClearFailure, Build, ToPhase, Step
<1> QED
  BY <1>3, <1>4, <1>5, <1>6, <1>7, <1>8 DEF Next

LEMMA PastStep == CopyInv /\ SafeInv /\ KeepInv /\ [Next]_vars => PastInv'
<1> SUFFICES ASSUME CopyInv, SafeInv, KeepInv, [Next]_vars PROVE PastInv'
  OBVIOUS
<1> USE DEF CopyInv, PhaseInv, PastInv, StreamMissing, SafeInv, PlaceInv, Past, Early, ResetSteps,
            srcVars, stVars, dirVars, tgtVars, dataVars, histVars, runVars
<1>1. CASE SourceCommit \/ SessionExpires \/ SlotDropped \/ TakeClone \/ HolderLost
  BY <1>1 DEF SourceCommit, SessionExpires, SlotDropped, TakeClone, HolderLost
<1>2. CASE Fail \/ RefuseClone
  <2>1. pc' = "off" /\ UNCHANGED <<phase, tables, receipts>>
        /\ (pc \notin SetupSteps => UNCHANGED <<slot, pub>>)
    BY <1>2 DEF Fail, RefuseClone, Gone, SetupCleanup
  <2>2. phase \in Past => pc \notin SetupSteps
    BY DEF SetupSteps
  <2> QED
    BY <2>1, <2>2
<1>3. CASE Kill \/ Refuse
  <2>1. pc' = "off" /\ UNCHANGED <<phase, tables, receipts, slot, pub>>
    BY <1>3 DEF Kill, Refuse, Gone
  <2> QED
    BY <2>1
<1>4. CASE Receive
  BY <1>4 DEF Receive
<1>5. CASE Acknowledge
  <2>1. slot # NoSlot /\ UNCHANGED <<pc, phase, pub, tables, receipts>> /\ pc \in Streamed
    BY <1>5 DEF Acknowledge
  <2> QED
    BY <2>1 DEF Streamed
<1>6. CASE StartFresh \/ StartOver \/ RestartBaseCopy
  BY <1>6 DEF StartFresh, StartOver, RestartBaseCopy, EnterReset, Step
<1>7. CASE Resume
  BY <1>7 DEF Resume, ResumeAccepted, StreamAccepted
<1>8. CASE DropSlot \/ DropPublication \/ Untune \/ RestoreIdentities
  BY <1>8 DEF DropSlot, DropPublication, Untune, AfterUntune, RestoreIdentities, Step
<1>9. CASE DropTables \/ DropMetadata \/ RemoveSnapshot \/ RemoveFiles
  BY <1>9 DEF DropTables, DropMetadata, RemoveSnapshot, RemoveFiles, RemoveCDC, Step
<1>10. CASE ResetState
  BY <1>10 DEF ResetState, Step
<1>11. CASE SettingUp
  BY <1>11 DEF SettingUp, Preflight, Identities, Publish, CreateSlot, UseClone, WriteSnapshot, SetSnapshot,
               RecordIdentity, RecordTuning, Tune, StartStream, Step
<1>12. CASE Advancing
  BY <1>12 DEF Advancing, ToSchema, RestoreSchema, SavePlan, ToCopy, Prepare, EndCopy, ToIndexes,
               ClearFailure, Build, ToPhase, Step, RowsInv
<1>13. ASSUME NEW p \in Part, Copying(p) \/ RetryPart(p) \/ OrphanEnds(p) PROVE PastInv'
  <2>1. CASE Copying(p) \/ RetryPart(p)
    <3>1. phase' = phase /\ phase \notin Past
      BY <2>1 DEF Copying, SkipPart, OpenPart, StorePart, CompletePart, RetryPart
    <3> QED
      BY <3>1
  <2>2. CASE OrphanEnds(p)
    <3>1. receipts' \in {receipts, receipts \cup {p}}
          /\ UNCHANGED <<phase, pc, pub, slot, tables>>
      BY <2>2 DEF OrphanEnds
    <3>2. receipts = Part => receipts' = Part
      BY <3>1
    <3> QED
      BY <3>1, <3>2
  <2> QED
    BY <1>13, <2>1, <2>2
<1>14. CASE CatchUp \/ UNCHANGED vars
  BY <1>14 DEF CatchUp, vars
<1> QED
  BY <1>1, <1>2, <1>3, <1>4, <1>5, <1>6, <1>7, <1>8, <1>9, <1>10, <1>11, <1>12, <1>13, <1>14
    DEF Next, Environment, Stream, Starting, Refusing, Resetting

-----------------------------------------------------------------------------
\* The greatest position of the segments is where they end.
LEMMA MaxOfIs ==
  ASSUME NEW high \in Int, NEW S, \A x \in S : x \in Int /\ x <= high, high \in S
  PROVE  MaxOf(S) = high
<1> DEFINE Top(x) == x \in S /\ \A y \in S : y <= x
<1>1. Top(high)
  OBVIOUS
<1>2. MaxOf(S) = CHOOSE x : Top(x)
  BY DEF MaxOf
<1> HIDE DEF Top
<1>3. Top(CHOOSE x : Top(x))
  BY <1>1
<1>4. Top(MaxOf(S))
  BY <1>2, <1>3
<1>5. MaxOf(S) \in S /\ \A y \in S : y <= MaxOf(S)
  BY <1>4 DEF Top
<1>6. MaxOf(S) \in Int /\ MaxOf(S) <= high /\ high <= MaxOf(S)
  BY <1>5
<1> QED
  BY <1>6

LEMMA PointStep == CopyInv /\ SafeInv /\ [Next]_vars => PointInv'
<1> SUFFICES ASSUME CopyInv, SafeInv, [Next]_vars PROVE PointInv'
  OBVIOUS
<1> USE DEF CopyInv, PhaseInv, PointInv, SafeInv, PlaceInv, Past, Early, Unrecorded, Streamed,
            None, NoSlot, srcVars, stVars, dirVars, runVars
<1>1. CASE SourceCommit
  BY <1>1 DEF SourceCommit
<1>2. CASE SessionExpires \/ TakeClone \/ HolderLost \/ Receive
  BY <1>2 DEF SessionExpires, TakeClone, HolderLost, Receive
<1>3. CASE SlotDropped
  BY <1>3 DEF SlotDropped
<1>4. CASE Acknowledge
  <2>1. PICK high \in Int : log = (point + 1)..high
    BY <1>4 DEF Acknowledge, SegmentInv
  <2>2. MaxOf(log) \in Int
    <3>1. high \in log /\ \A x \in log : x \in Int /\ x <= high
      BY <1>4, <2>1 DEF Acknowledge
    <3>2. MaxOf(log) = high
      BY <3>1, MaxOfIs
    <3> QED
      BY <3>2
  <2> QED
    BY <1>4, <2>2 DEF Acknowledge
<1>5. CASE Fail \/ RefuseClone
  <2>1. pc' = "off" /\ snap' = None /\ slot' \in {slot, NoSlot} /\ UNCHANGED <<committed, phase, point, fromClone>>
    BY <1>5 DEF Fail, RefuseClone, Gone, SetupCleanup
  <2> QED
    BY <2>1
<1>6. CASE Kill \/ Refuse
  <2>1. pc' = "off" /\ snap' = None /\ UNCHANGED <<slot, committed, phase, point, fromClone>>
    BY <1>6 DEF Kill, Refuse, Gone
  <2> QED
    BY <2>1
<1>7. CASE StartFresh \/ StartOver \/ RestartBaseCopy
  BY <1>7 DEF StartFresh, StartOver, RestartBaseCopy, EnterReset, Step
<1>8. CASE Resume
  BY <1>8 DEF Resume, Resumed, ResumeAccepted, CloneAccepted
<1>9. CASE Resetting
  BY <1>9 DEF Resetting, DropSlot, DropPublication, Untune, AfterUntune, RestoreIdentities, DropTables,
              DropMetadata, RemoveSnapshot, RemoveFiles, RemoveCDC, ResetState, Step
<1>10. CASE CreateSlot
  BY <1>10 DEF CreateSlot
<1>11. CASE UseClone
  BY <1>11 DEF UseClone, CloneMatches
<1>12. CASE SetSnapshot
  BY <1>12 DEF SetSnapshot, Step
<1>13. CASE Preflight \/ Identities \/ Publish \/ WriteSnapshot \/ RecordIdentity \/ RecordTuning \/ Tune \/ StartStream
  BY <1>13 DEF Preflight, Identities, Publish, WriteSnapshot, RecordIdentity, RecordTuning, Tune,
               StartStream, Step
<1>14. CASE Advancing
  BY <1>14 DEF Advancing, ToSchema, RestoreSchema, SavePlan, ToCopy, Prepare, EndCopy, ToIndexes,
               ClearFailure, Build, ToPhase, Step
<1>15. CASE \E p \in Part : Copying(p) \/ RetryPart(p) \/ OrphanEnds(p)
  BY <1>15 DEF Copying, SkipPart, OpenPart, StorePart, CompletePart, RetryPart, OrphanEnds, Works
<1>16. CASE CatchUp \/ UNCHANGED vars
  BY <1>16 DEF CatchUp, vars
<1> QED
  BY <1>1, <1>2, <1>3, <1>4, <1>5, <1>6, <1>7, <1>8, <1>9, <1>10, <1>11, <1>12, <1>13, <1>14, <1>15, <1>16
    DEF Next, Environment, Stream, Starting, Refusing, SettingUp

LEMMA SegmentStep == CopyInv /\ SafeInv /\ CleanInv /\ [Next]_vars => SegmentInv'
<1> SUFFICES ASSUME CopyInv, SafeInv, CleanInv, [Next]_vars PROVE SegmentInv'
  OBVIOUS
<1> USE DEF CopyInv, SegmentInv, None, srcVars, stVars, dirVars
<1>1. CASE UNCHANGED <<point, log>> /\ slot' \in {slot, NoSlot}
  BY <1>1 DEF PointInv, NoSlot
<1>2. CASE Environment \/ Refusing \/ Starting \/ CatchUp \/ UNCHANGED vars
  BY <1>1, <1>2
    DEF Environment, SourceCommit, SessionExpires, SlotDropped, TakeClone, Fail, Kill, HolderLost, SetupCleanup,
        Refusing, Refuse, RefuseClone, Starting, StartFresh, StartOver, RestartBaseCopy, Resume, CatchUp, vars
<1>3. CASE Stream
  <2>1. point # None
    BY <1>3 DEF Stream, Receive, Acknowledge, PointInv, SafeInv, PlaceInv
  <2>2. PICK high \in Int : point <= high /\ log = (point + 1)..high /\ slot.confirmed <= high
    BY <2>1
  <2>3. CASE Receive
    <3>1. point \in Nat /\ slot.confirmed \in Int
      BY <2>1 DEF PointInv
    <3>2. /\ high \in log \cup {slot.confirmed, point}
          /\ \A x \in log \cup {slot.confirmed, point} : x \in Int /\ x <= high
      BY <2>2, <3>1
    <3>3. MaxOf(log \cup {slot.confirmed, point}) = high
      BY <3>2, MaxOfIs
    <3>4. log' = (point + 1)..(high + 1) /\ UNCHANGED <<point, slot>>
      BY <2>2, <2>3, <3>1, <3>3 DEF Receive
    <3> QED
      BY <2>1, <2>2, <3>1, <3>4
  <2>4. CASE Acknowledge
    <3>1. high \in log /\ \A x \in log : x \in Int /\ x <= high
      BY <2>2, <2>4 DEF Acknowledge, PointInv
    <3>2. MaxOf(log) = high
      BY <3>1, MaxOfIs
    <3>3. slot'.confirmed = high /\ UNCHANGED <<point, log>>
      BY <2>4, <3>2 DEF Acknowledge, PointInv
    <3> QED
      BY <2>1, <2>2, <3>3
  <2> QED
    BY <1>3, <2>3, <2>4 DEF Stream
<1>4. CASE RemoveFiles
  <2>1. log' = {} /\ UNCHANGED <<point, slot>> /\ slot = NoSlot
    BY <1>4 DEF RemoveFiles, RemoveCDC, SafeInv, StreamInv, Restoring
  <2>2. CASE point # None
    <3>1. point \in Int /\ point <= point /\ {} = (point + 1)..point /\ slot.confirmed <= point
      BY <2>1, <2>2 DEF PointInv, NoSlot
    <3> QED
      BY <2>1, <3>1
  <2> QED
    BY <2>1, <2>2
<1>5. CASE ResetState
  BY <1>5 DEF ResetState, CleanInv
<1>6. CASE DropSlot \/ DropPublication \/ Untune \/ RestoreIdentities \/ DropTables \/ DropMetadata \/ RemoveSnapshot
  BY <1>1, <1>6 DEF DropSlot, DropPublication, Untune, RestoreIdentities, DropTables, DropMetadata, RemoveSnapshot
<1>7. CASE CreateSlot
  BY <1>7 DEF CreateSlot, PointInv, Unrecorded
<1>8. CASE SetSnapshot
  <2>1. point = None /\ point' = snap /\ snap \in Nat /\ slot.confirmed <= snap /\ log = {} /\ UNCHANGED <<log, slot>>
    BY <1>8 DEF SetSnapshot, PointInv
  <2>2. snap \in Int /\ snap <= snap /\ {} = (snap + 1)..snap
    BY <2>1
  <2> QED
    BY <2>1, <2>2
<1>9. CASE Preflight \/ Identities \/ Publish \/ UseClone \/ WriteSnapshot \/ RecordIdentity \/ RecordTuning \/ Tune \/ StartStream
  BY <1>1, <1>9 DEF Preflight, Identities, Publish, UseClone, WriteSnapshot, RecordIdentity, RecordTuning, Tune,
                    StartStream
<1>10. CASE Advancing
  BY <1>1, <1>10 DEF Advancing, ToSchema, RestoreSchema, SavePlan, ToCopy, Prepare, EndCopy, ToIndexes,
                     ClearFailure, Build, ToPhase
<1>11. CASE \E p \in Part : Copying(p) \/ RetryPart(p) \/ OrphanEnds(p)
  BY <1>1, <1>11 DEF Copying, SkipPart, OpenPart, StorePart, CompletePart, RetryPart, OrphanEnds
<1> QED
  BY <1>2, <1>3, <1>4, <1>5, <1>6, <1>7, <1>8, <1>9, <1>10, <1>11 DEF Next, Resetting, SettingUp

-----------------------------------------------------------------------------
\* The states of a part that the two lemmas below leave alone.
LEMMA GoodElsewhere ==
  ASSUME NEW p \in Part, Good(p), UNCHANGED point, rows'[p] = rows[p],
         p \in receipts' <=> p \in receipts, p \in stale' <=> p \in stale,
         p \in overtaken => p \in overtaken'
  PROVE  Good(p)'
BY DEF Good

\* A part without rows has them once after a COMMIT, one that has them, twice.
LEMMA AppendOnce == \A x, y : Append(<< >>, y) = <<y>> /\ Append(<<x>>, y) = <<x, y>>
<1> SUFFICES ASSUME NEW x, NEW y PROVE Append(<< >>, y) = <<y>> /\ Append(<<x>>, y) = <<x, y>>
  OBVIOUS
<1>1. Append(<< >>, y) = <<y>>
  OBVIOUS
<1> DEFINE S == {x, y}
<1>2. <<x>> \in Seq(S) /\ <<x, y>> \in Seq(S) /\ Append(<<x>>, y) \in Seq(S)
  OBVIOUS
<1>3. Len(Append(<<x>>, y)) = 2 /\ Append(<<x>>, y)[1] = x /\ Append(<<x>>, y)[2] = y
  BY <1>2
<1>4. Len(<<x, y>>) = 2 /\ <<x, y>>[1] = x /\ <<x, y>>[2] = y
  OBVIOUS
<1>5. \A i \in 1..2 : Append(<<x>>, y)[i] = <<x, y>>[i]
  <2>1. \A i \in 1..2 : i = 1 \/ i = 2
    OBVIOUS
  <2> QED
    BY <2>1, <1>3, <1>4
<1>6. Append(<<x>>, y) = <<x, y>>
  BY <1>2, <1>3, <1>4, <1>5, SeqEqual
<1> QED
  BY <1>1, <1>6

\* A part that is stored is there once, whichever way the range was cleared,
\* unless its range held rows of another transaction that it did not see.
LEMMA StoreKeeps ==
  ASSUME CopyInv, WorkInv, KeepInv, NEW p \in Part, StorePart(p)
  PROVE  OrphanInv' /\ RowsInv'
<1>1. /\ pc = "copying" /\ work[p] \in {"open", "blind"} /\ work' = [work EXCEPT ![p] = "committed"]
      /\ rows' = [rows EXCEPT ![p] = Append(Kept(p), snap)] /\ receipts' = receipts \cup {p}
      /\ p \notin orphan
      /\ UNCHANGED <<pc, phase, point, fromClone, tables, orphan, stale, overtaken>>
  BY DEF StorePart, CommitPart, Works, stVars, histVars
<1>2. /\ tables = Table /\ snap = point /\ receipts \subseteq Part /\ phase = "copy"
      /\ \A q \in Part : Good(q)
  BY <1>1 DEF CopyInv, RowsInv, PhaseInv, PointInv, Streamed, Past, KeepInv
<1>3. p \notin stale
  BY <1>1 DEF CopyInv, OrphanInv, Beside
<1>4. Kept(p) \in {<< >>, rows[p]}
  BY DEF Kept
<1>5. rows'[p] = <<point>> \/ (p \in overtaken /\ rows'[p] = <<point, point>>)
  <2>1. CASE p \in receipts
    <3>1. p \in overtaken /\ rows[p] = <<point>>
      BY <1>1, <2>1 DEF CopyInv, OrphanInv, Beside
    <3>2. Kept(p) = << >> => Append(Kept(p), snap) = <<point>>
      BY <1>2, AppendOnce
    <3>3. Kept(p) = <<point>> => Append(Kept(p), snap) = <<point, point>>
      BY <1>2, AppendOnce
    <3>4. Kept(p) = << >> \/ Kept(p) = <<point>>
      BY <1>4, <3>1
    <3>5. rows'[p] = Append(Kept(p), snap)
      BY <1>1 DEF KeepInv
    <3>6. CASE Kept(p) = << >>
      BY <3>2, <3>5, <3>6
    <3>7. CASE Kept(p) = <<point>>
      BY <3>1, <3>3, <3>5, <3>7
    <3> QED
      BY <3>4, <3>6, <3>7
  <2>2. CASE p \notin receipts
    <3>1. rows[p] = << >>
      <4>1. Good(p) /\ overtaken \subseteq receipts
        BY <1>2 DEF CopyInv, OrphanInv
      <4> QED
        BY <2>2, <4>1 DEF Good
    <3>2. Append(Kept(p), snap) = <<point>>
      <4>1. Kept(p) = << >> /\ snap = point
        BY <1>2, <1>4, <3>1
      <4>2. Append(Kept(p), snap) = Append(<< >>, point)
        BY <4>1
      <4> QED
        BY <4>2, AppendOnce
    <3>3. rows'[p] = Append(Kept(p), snap)
      BY <1>1 DEF KeepInv
    <3> QED
      BY <3>2, <3>3
  <2> QED
    BY <2>1, <2>2
<1>6. \A q \in Part \ {p} : rows'[q] = rows[q] /\ work'[q] = work[q]
  BY <1>1 DEF KeepInv, WorkInv
<1>7. \A q \in Part : Good(q)'
  <2>1. Good(p)'
    BY <1>1, <1>3, <1>5 DEF Good
  <2>2. ASSUME NEW q \in Part \ {p} PROVE Good(q)'
    BY <1>1, <1>2, <1>6, GoodElsewhere
  <2> QED
    BY <2>1, <2>2
<1>8. work'[p] = "committed"
  BY <1>1 DEF WorkInv
<1>9. \A q \in Part : work'[q] \in {"committed", "stored"} => q \in receipts'
  BY <1>1, <1>6, <1>8 DEF CopyInv, RowsInv
<1>10. OrphanInv'
  <2>1. \A q \in Part \ {p} : /\ work'[q] = "open" => q \notin receipts' \cup orphan'
                              /\ Beside(q)' => /\ q \in overtaken' /\ rows'[q] = <<point'>>
                                               /\ work'[q] # "blind" \/ q \notin orphan'
    BY <1>1, <1>6 DEF CopyInv, OrphanInv, Beside
  <2>2. work'[p] # "open" /\ ~Beside(p)'
    BY <1>1, <1>8 DEF Beside
  <2>3. \A q \in Part : /\ work'[q] = "open" => q \notin receipts' \cup orphan'
                        /\ Beside(q)' => /\ q \in overtaken' /\ rows'[q] = <<point'>>
                                         /\ work'[q] # "blind" \/ q \notin orphan'
    BY <2>1, <2>2
  <2>4. /\ orphan' \subseteq Part /\ stale' \subseteq receipts' /\ overtaken' \subseteq receipts' \ stale'
        /\ orphan' # {} => tables' = Table /\ pc' \notin Emptied /\ phase' \in {"copy"} \cup Past
    BY <1>1 DEF CopyInv, OrphanInv
  <2> QED
    BY <2>3, <2>4 DEF OrphanInv
<1> QED
  BY <1>1, <1>2, <1>7, <1>9, <1>10 DEF CopyInv, RowsInv, ResetSteps

\* A COMMIT that outlived its run brings the rows of a part that has none, or
\* doubles those of a part that was copied beside it.
LEMMA OrphanKeeps ==
  ASSUME CopyInv, WorkInv, KeepInv, NEW p \in Part, OrphanEnds(p)
  PROVE  OrphanInv' /\ RowsInv'
<1>1. /\ p \in orphan /\ orphan' = orphan \ {p}
      /\ UNCHANGED <<pc, phase, point, fromClone, tables, work, stale>>
  BY DEF OrphanEnds, stVars, runVars
<1>2. /\ tables = Table /\ phase \in {"copy"} \cup Past
      /\ receipts \subseteq Part /\ \A q \in Part : Good(q)
  BY <1>1 DEF CopyInv, OrphanInv, RowsInv, KeepInv
<1>3. work[p] # "open"
  BY <1>1 DEF CopyInv, OrphanInv
<1>4. CASE UNCHANGED <<rows, receipts, overtaken>>
  <2>1. \A q \in Part : Good(q)'
    BY <1>1, <1>2, <1>4, GoodElsewhere
  <2>2. OrphanInv'
    BY <1>1, <1>4 DEF CopyInv, OrphanInv, Beside
  <2> QED
    BY <1>1, <1>2, <1>4, <2>1, <2>2 DEF CopyInv, RowsInv
<1>5. CASE /\ rows' = [rows EXCEPT ![p] = Append(@, point)] /\ receipts' = receipts \cup {p}
           /\ overtaken' = overtaken \cup {q \in {p} : work[q] = "blind"}
  <2>1. /\ \A q \in Part \ {p} : /\ rows'[q] = rows[q] /\ (q \in receipts' <=> q \in receipts)
                                 /\ (q \in overtaken' <=> q \in overtaken)
        /\ rows'[p] = Append(rows[p], point)
        /\ p \in overtaken' <=> p \in overtaken \/ work[p] = "blind"
    BY <1>5 DEF KeepInv
  <2>2. /\ p \notin stale
        /\ \/ p \notin receipts /\ rows'[p] = <<point>>
           \/ p \in overtaken /\ rows'[p] = <<point, point>> /\ p \in receipts /\ work[p] # "blind"
    <3>1. CASE p \in receipts
      <4>1. p \in overtaken /\ rows[p] = <<point>> /\ work[p] # "blind" /\ p \notin stale
        BY <1>1, <3>1 DEF CopyInv, OrphanInv, Beside
      <4>2. Append(<<point>>, point) = <<point, point>>
        BY AppendOnce
      <4> QED
        BY <2>1, <3>1, <4>1, <4>2
    <3>2. CASE p \notin receipts
      <4>1. rows[p] = << >>
        <5>1. Good(p) /\ overtaken \subseteq receipts
          BY <1>2 DEF CopyInv, OrphanInv
        <5> QED
          BY <3>2, <5>1 DEF Good
      <4> QED
        BY <2>1, <3>2, <4>1 DEF CopyInv, OrphanInv
    <3> QED
      BY <3>1, <3>2
  <2>3. \A q \in Part : Good(q)'
    <3>1. Good(p)'
      BY <1>1, <1>5, <2>1, <2>2 DEF Good
    <3>2. ASSUME NEW q \in Part \ {p} PROVE Good(q)'
      BY <1>1, <1>2, <2>1, GoodElsewhere
    <3> QED
      BY <3>1, <3>2
  <2>4. OrphanInv'
    <3>1. \A q \in Part \ {p} : /\ work'[q] = "open" => q \notin receipts' \cup orphan'
                                /\ Beside(q)' => /\ q \in overtaken' /\ rows'[q] = <<point'>>
                                                 /\ work'[q] # "blind" \/ q \notin orphan'
      BY <1>1, <2>1 DEF CopyInv, OrphanInv, Beside
    <3>2. p \notin orphan' /\ work'[p] # "open"
      BY <1>1, <1>3
    <3>3. Beside(p)' => p \in overtaken' /\ rows'[p] = <<point'>>
      BY <1>1, <2>1, <2>2, <3>2 DEF Beside
    <3>4. \A q \in Part : /\ work'[q] = "open" => q \notin receipts' \cup orphan'
                          /\ Beside(q)' => /\ q \in overtaken' /\ rows'[q] = <<point'>>
                                           /\ work'[q] # "blind" \/ q \notin orphan'
      BY <3>1, <3>2, <3>3
    <3>5. /\ orphan' \subseteq Part /\ stale' \subseteq receipts' /\ overtaken' \subseteq receipts' \ stale'
          /\ tables' = Table /\ phase' \in {"copy"} \cup Past /\ (orphan' # {} => pc' \notin Emptied)
      BY <1>1, <1>2, <1>5, <2>2 DEF CopyInv, OrphanInv
    <3> QED
      BY <3>4, <3>5 DEF OrphanInv
  <2>5. receipts = Part => receipts' = Part
    BY <1>5
  <2>6. \A q \in Part : work'[q] \in {"committed", "stored"} => q \in receipts'
    BY <1>1, <1>5 DEF CopyInv, RowsInv
  <2> QED
    BY <1>1, <1>2, <2>3, <2>4, <2>5, <2>6 DEF CopyInv, RowsInv, Past
<1> QED
  BY <1>4, <1>5 DEF OrphanEnds

\* What a run leaves when it ends: its open transactions, which may be carried out.
LEMMA EndKeeps ==
  ASSUME CopyInv, WorkInv, KeepInv, PlaceInv,
         Fail \/ Kill \/ Refuse \/ RefuseClone
  PROVE  OrphanInv' /\ RowsInv'
<1>1. /\ pc' = "off" /\ work' = Idle
      /\ UNCHANGED <<tables, rows, receipts, point, phase, fromClone, stale, overtaken>>
  BY DEF Fail, Kill, Refuse, RefuseClone, Gone, srcVars, stVars, dirVars, tgtVars, dataVars, histVars
<1>2. PICK S \in SUBSET {p \in Part \ orphan : work[p] \in {"open", "blind"}} :
        orphan' = orphan \cup S
  <2>1. CASE RefuseClone
    <3>1. orphan' = orphan \cup {}
      BY <2>1 DEF RefuseClone, tgtVars
    <3> QED
      BY <3>1
  <2>2. CASE ~RefuseClone
    <3>1. LeaveCommits
      BY <2>2 DEF Fail, Kill, Refuse
    <3> QED
      BY <3>1 DEF LeaveCommits
  <2> QED
    BY <2>1, <2>2
<1>3. S # {} => phase = "copy" /\ tables = Table
  BY <1>2 DEF WorkInv, CopyInv, RowsInv, PhaseInv
<1>4. \A p \in Part : work'[p] = "todo"
  BY <1>1 DEF Idle
<1>5. \A p \in Part : Beside(p)' => Beside(p)
  BY <1>1, <1>2, <1>4 DEF Beside, CopyInv, OrphanInv
<1>6. OrphanInv'
  <2>1. orphan' \subseteq Part
    BY <1>2 DEF CopyInv, OrphanInv
  <2>2. orphan' # {} => tables' = Table /\ pc' \notin Emptied /\ phase' \in {"copy"} \cup Past
    BY <1>1, <1>2, <1>3 DEF CopyInv, OrphanInv, Emptied
  <2> QED
    BY <1>1, <1>4, <1>5, <2>1, <2>2 DEF CopyInv, OrphanInv
<1>7. \A p \in Part : Good(p) => Good(p)'
  BY <1>1, GoodElsewhere
<1> QED
  BY <1>1, <1>4, <1>6, <1>7 DEF CopyInv, RowsInv, ResetSteps

\* A step that leaves the target and the workers alone keeps what is said of them,
\* where it comes to allows it; a position that is not used yet may change.
LEMMA TargetKeeps ==
  ASSUME OrphanInv, RowsInv,
         UNCHANGED <<tables, rows, receipts, orphan, stale, overtaken, work>>,
         point' = point \/ (receipts = stale /\ orphan = {}),
         orphan # {} => pc' \notin Emptied /\ phase' \in {"copy"} \cup Past,
         phase' \in {"preflight", "setup", "schema"} => receipts = stale,
         pc' \in {"plan", "to_copy", "prepare", "copying", "to_indexes"} => tables = Table,
         pc' \in {"off"} \cup ResetSteps => work = Idle,
         pc' = "to_indexes" => receipts = Part,
         phase' = "copy" /\ fromClone' => tables = Table
  PROVE  OrphanInv' /\ RowsInv'
<1>1. CASE point' = point
  <2>1. \A p \in Part : (Good(p)' <=> Good(p)) /\ (Beside(p)' <=> Beside(p))
    BY <1>1 DEF Good, Beside
  <2>2. OrphanInv'
    BY <1>1, <2>1 DEF OrphanInv
  <2> QED
    BY <2>1, <2>2 DEF RowsInv
<1>2. CASE receipts = stale /\ orphan = {}
  <2>1. overtaken = {}
    BY <1>2 DEF OrphanInv
  <2>2. \A p \in Part : (Good(p) => Good(p)') /\ ~Beside(p)'
    BY <1>2, <2>1 DEF Good, Beside, OrphanInv
  <2>3. OrphanInv'
    BY <1>2, <2>1, <2>2 DEF OrphanInv
  <2> QED
    BY <2>2, <2>3 DEF RowsInv
<1> QED
  BY <1>1, <1>2

LEMMA RowsStep ==
  CopyInv /\ SafeInv /\ WorkInv /\ CleanInv /\ KeepInv /\ [Next]_vars => OrphanInv' /\ RowsInv'
<1> SUFFICES ASSUME CopyInv, SafeInv, WorkInv, CleanInv, KeepInv, [Next]_vars
             PROVE  OrphanInv' /\ RowsInv'
  OBVIOUS
<1> USE DEF CopyInv, PhaseInv, OrphanInv, RowsInv, SafeInv, PlaceInv, Past, Early, Emptied, ResetSteps, KeepInv,
            srcVars, stVars, dirVars, tgtVars, dataVars, histVars, runVars
<1>1. CASE UNCHANGED <<tables, rows, receipts, orphan, stale, overtaken, point, pc, phase, fromClone, work>>
  BY <1>1, TargetKeeps
<1>2. CASE SourceCommit \/ SessionExpires \/ SlotDropped \/ TakeClone \/ HolderLost \/ Stream \/ CatchUp \/ UNCHANGED vars
  BY <1>1, <1>2
    DEF SourceCommit, SessionExpires, SlotDropped, TakeClone, HolderLost, Stream, Receive, Acknowledge, CatchUp, vars
<1>3. CASE Fail \/ Kill \/ Refuse \/ RefuseClone
  BY <1>3, EndKeeps
<1>5. CASE StartFresh \/ StartOver \/ RestartBaseCopy
  BY TargetKeeps, <1>5 DEF StartFresh, StartOver, RestartBaseCopy, EnterReset, Step
<1>6. CASE Resume
  BY TargetKeeps, <1>6 DEF Resume, Resumed
<1>7. CASE DropSlot \/ DropPublication \/ Untune \/ RestoreIdentities \/ RemoveSnapshot \/ RemoveFiles
  BY TargetKeeps, <1>7 DEF DropSlot, DropPublication, Untune, AfterUntune, RestoreIdentities, RemoveSnapshot, RemoveFiles,
              RemoveCDC, Step
<1>8. CASE DropTables
  <2>1. /\ pc = "drop_tables" /\ pc' = "drop_metadata" /\ orphan = {} /\ orphan' = {}
        /\ tables' = {} /\ rows' = Empty /\ overtaken' = {} /\ UNCHANGED <<receipts, stale, phase, fromClone, work>>
    BY <1>8 DEF DropTables, Step
  <2>2. Table = {} => Part = {}
    BY ConstAssumption
  <2>3. \A p \in Part : work'[p] = "todo"
    BY <2>1 DEF Idle
  <2> QED
    BY <2>1, <2>2, <2>3 DEF Beside
<1>9. CASE DropMetadata
  <2>1. receipts' \in {receipts, {}} /\ stale' = receipts'
    BY <1>9 DEF DropMetadata
  <2>2. /\ pc = "drop_metadata" /\ pc' = "remove_snapshot" /\ tables = {} /\ orphan = {} /\ overtaken = {}
        /\ UNCHANGED <<tables, rows, orphan, overtaken, phase, point, fromClone, work>>
    BY <1>9 DEF DropMetadata, Step, CleanInv
  <2>3. Table = {} => Part = {}
    BY ConstAssumption
  <2>4. \A p \in Part : work'[p] = "todo"
    BY <2>2 DEF Idle
  <2> QED
    BY <2>1, <2>2, <2>3, <2>4 DEF Beside
<1>10. CASE ResetState
  <2>1. receipts = stale /\ orphan = {}
    BY <1>10 DEF ResetState, CleanInv
  <2> QED
    BY TargetKeeps, <1>10, <2>1 DEF ResetState, Step
<1>11. CASE SetSnapshot
  <2>1. receipts = stale /\ orphan = {}
    BY <1>11 DEF SetSnapshot
  <2> QED
    BY TargetKeeps, <1>11, <2>1 DEF SetSnapshot, Step
<1>12. CASE Preflight \/ Identities \/ Publish \/ CreateSlot \/ UseClone \/ WriteSnapshot \/ RecordIdentity
            \/ RecordTuning \/ Tune \/ StartStream
  BY TargetKeeps, <1>12 DEF Preflight, Identities, Publish, CreateSlot, UseClone, WriteSnapshot, RecordIdentity,
               RecordTuning, Tune, StartStream, Step
<1>13. CASE RestoreSchema
  <2>1. /\ receipts = stale /\ orphan = {} /\ overtaken = {} /\ tables' = Table /\ rows' = Empty
        /\ pc' = "plan" /\ UNCHANGED <<receipts, orphan, stale, overtaken, point, phase, fromClone, work>>
    BY <1>13 DEF RestoreSchema, Step
  <2> QED
    BY <2>1 DEF Good, Beside, Empty
<1>14. CASE Prepare
  <2>1. UNCHANGED <<tables, receipts, orphan, stale, overtaken, point, phase, fromClone, work>>
        /\ pc = "prepare" /\ pc' \in {"prepare", "copying"}
    BY <1>14 DEF Prepare
  <2>2. rows' = rows
    <3>1. CASE \E t \in Split : PrepareTable(t)
      <4>1. PICK t \in Split : PrepareTable(t)
        BY <3>1
      <4>2. \A p \in Part : TableOf[p] = t => rows[p] = << >>
        BY <2>1, <4>1 DEF PrepareTable, Good
      <4> QED
        BY <4>1, <4>2 DEF PrepareTable, Clear
    <3>2. CASE ~(\E t \in Split : PrepareTable(t))
      BY <1>14, <3>2 DEF Prepare
    <3> QED
      BY <3>1, <3>2
  <2> QED
    BY TargetKeeps, <2>1, <2>2
<1>15. CASE EndCopy
  <2>1. receipts = Part
    BY <1>15 DEF EndCopy
  <2> QED
    BY TargetKeeps, <1>15, <2>1 DEF EndCopy
<1>16. CASE ToSchema \/ SavePlan \/ ToCopy \/ ToIndexes \/ ClearFailure \/ Build
  BY TargetKeeps, <1>16 DEF ToSchema, SavePlan, ToCopy, ToIndexes, ClearFailure, Build, ToPhase, Step
<1>17. ASSUME NEW p \in Part, SkipPart(p) \/ OpenPart(p) \/ CompletePart(p) \/ RetryPart(p)
       PROVE  OrphanInv' /\ RowsInv'
  <2>1. PICK s \in {"stored", "open", "blind", "again"} :
          /\ work' = [work EXCEPT ![p] = s]
          /\ s = "stored" => p \in receipts
          /\ s = "open" => p \notin receipts \cup orphan
          /\ s = "blind" => p \notin receipts
    BY <1>17 DEF SkipPart, OpenPart, CompletePart, RetryPart, Works, PartDone
  <2>2. /\ pc = "copying"
        /\ UNCHANGED <<pc, tables, rows, receipts, orphan, stale, overtaken, point, phase, fromClone>>
    BY <1>17 DEF SkipPart, OpenPart, CompletePart, RetryPart, Works
  <2>3. work'[p] = s /\ \A q \in Part \ {p} : work'[q] = work[q]
    BY <2>1 DEF WorkInv
  <2>4. \A q \in Part : Good(q)'
    BY <2>2, GoodElsewhere
  <2>5. \A q \in Part : Beside(q)' => Beside(q) /\ (work'[q] = work[q] \/ work'[q] # "blind")
    BY <2>1, <2>2, <2>3 DEF Beside
  <2>6. \A q \in Part : work'[q] \in {"committed", "stored"} => q \in receipts'
    BY <2>1, <2>2, <2>3
  <2>7. \A q \in Part : work'[q] = "open" => q \notin receipts' \cup orphan'
    BY <2>1, <2>2, <2>3
  <2> QED
    BY <2>2, <2>4, <2>5, <2>6, <2>7
<1>18. ASSUME NEW p \in Part, StorePart(p) \/ OrphanEnds(p) PROVE OrphanInv' /\ RowsInv'
  BY <1>18, StoreKeeps, OrphanKeeps
<1> QED
  BY <1>2, <1>3, <1>5, <1>6, <1>7, <1>8, <1>9, <1>10, <1>11, <1>12, <1>13, <1>14, <1>15, <1>16, <1>17, <1>18
    DEF Next, Environment, Starting, Refusing, Resetting, SettingUp, Advancing, Copying

\* The row of the target's identity is known to the store, or was left by a reset
\* whose DROP SCHEMA failed.
LEMMA KnownStep ==
  IdentityKnown /\ CopyInv /\ SafeInv /\ CleanInv /\ [Next]_vars => IdentityKnown'
<1> SUFFICES ASSUME IdentityKnown, CopyInv, SafeInv, CleanInv, [Next]_vars PROVE IdentityKnown'
  OBVIOUS
<1> USE DEF IdentityKnown, srcVars, stVars, dirVars, tgtVars, dataVars, histVars, runVars
<1>1. CASE UNCHANGED <<identity, point, lost>>
  BY <1>1
<1>2. CASE Environment \/ Stream \/ Starting \/ Refusing \/ CatchUp \/ UNCHANGED vars
  BY <1>1, <1>2
    DEF Environment, SourceCommit, SessionExpires, SlotDropped, TakeClone, Fail, Kill, HolderLost,
        Stream, Receive, Acknowledge, Starting, StartFresh, StartOver, RestartBaseCopy, Resume,
        Refusing, Refuse, RefuseClone, CatchUp, vars
<1>3. CASE DropMetadata
  BY <1>3 DEF DropMetadata
<1>4. CASE ResetState
  BY <1>4 DEF ResetState, CleanInv, Emptied
<1>5. CASE DropSlot \/ DropPublication \/ Untune \/ RestoreIdentities \/ DropTables \/ RemoveSnapshot \/ RemoveFiles
  BY <1>1, <1>5 DEF DropSlot, DropPublication, Untune, RestoreIdentities, DropTables, RemoveSnapshot, RemoveFiles
<1>6. CASE SetSnapshot
  BY <1>6 DEF SetSnapshot, CopyInv, PointInv
<1>7. CASE RecordIdentity
  BY <1>7 DEF RecordIdentity, CopyInv, PointInv
<1>8. CASE Preflight \/ Identities \/ Publish \/ CreateSlot \/ UseClone \/ WriteSnapshot \/ RecordTuning \/ Tune \/ StartStream
  BY <1>1, <1>8 DEF Preflight, Identities, Publish, CreateSlot, UseClone, WriteSnapshot, RecordTuning, Tune, StartStream
<1>9. CASE Advancing
  BY <1>1, <1>9 DEF Advancing, ToSchema, RestoreSchema, SavePlan, ToCopy, Prepare, EndCopy, ToIndexes,
                    ClearFailure, Build, ToPhase
<1>10. CASE \E p \in Part : Copying(p) \/ RetryPart(p) \/ OrphanEnds(p)
  BY <1>1, <1>10 DEF Copying, SkipPart, OpenPart, StorePart, CompletePart, RetryPart, OrphanEnds
<1> QED
  BY <1>2, <1>3, <1>4, <1>5, <1>6, <1>7, <1>8, <1>9, <1>10 DEF Next, Resetting, SettingUp

\* The invariant of the whole module.
AllInv == CopyInv /\ SafeInv /\ WorkInv /\ CleanInv /\ KeepInv /\ IdentityKnown

LEMMA AllInit == Init => AllInv
<1>1. Init => IdentityKnown
  BY DEF Init, IdentityKnown
<1> QED
  BY <1>1, CopyInit, SafeInit, WorkInit, CleanInit, KeepInit DEF AllInv

LEMMA AllStep == AllInv /\ [Next]_vars => AllInv'
<1> SUFFICES ASSUME AllInv, [Next]_vars PROVE AllInv'
  OBVIOUS
<1>1. SafeInv' /\ WorkInv' /\ CleanInv' /\ KeepInv' /\ IdentityKnown'
  BY SafeStep, WorkStep, CleanStep, KeepStep, KnownStep DEF AllInv
<1>2. CopyInv'
  BY PhaseStep, PointStep, SegmentStep, RowsStep, PastStep DEF CopyInv, AllInv
<1> QED
  BY <1>1, <1>2 DEF AllInv

LEMMA CopyImplies == AllInv => CopyExact
<1> SUFFICES ASSUME AllInv PROVE CopyExact
  OBVIOUS
<1> USE DEF AllInv, CopyInv
<1>0. ASSUME NEW p \in receipts, tables = Table PROVE Copied(p) \/ CopiedTwice(p)
  BY <1>0 DEF RowsInv, Good, Copied, CopiedTwice, KeepInv
<1>1. PartsOnce
  <2> SUFFICES ASSUME Continues PROVE \A p \in Part : Copied(p) \/ CopiedTwice(p)
    BY DEF PartsOnce
  <2>1. phase \in Past
    BY DEF Continues, PhaseInv, Past
  <2>2. tables = Table /\ receipts = Part
    BY <2>1 DEF Continues, PastInv, StreamAccepted, StreamMissing, ResetSteps
  <2> QED
    BY <1>0, <2>2
<1>2. NoGap
  <2> SUFFICES ASSUME Continues \/ streaming
               PROVE  /\ \A c \in (point + 1)..committed : c \in log \/ slot.confirmed < c
                      /\ \A c \in log : point < c
    BY DEF NoGap
  <2>1. point # None
    BY DEF Continues, PointInv, SafeInv, PlaceInv, Past, Streamed
  <2>2. PICK high \in Int : point <= high /\ log = (point + 1)..high /\ slot.confirmed <= high
    BY <2>1 DEF SegmentInv
  <2> QED
    BY <2>1, <2>2 DEF PointInv
<1>3. ReceiptsHold
  <2>1. ASSUME NEW p \in receipts, TableOf[p] \in tables PROVE Copied(p) \/ CopiedTwice(p)
    <3>1. tables = Table
      BY <2>1 DEF RowsInv
    <3> QED
      BY <1>0, <3>1
  <2> QED
    BY <2>1 DEF ReceiptsHold
<1> QED
  BY <1>1, <1>2, <1>3 DEF CopyExact, CleanInv

\* No kill, error, retry, orphaned COMMIT, failed DROP SCHEMA, dropped slot or
\* restart mixes two attempts: what goes on past the copy is one snapshot and the
\* stream from its position without a gap, and a receipt vouches for what is there,
\* but for the two kinds of parts that the code cannot tell: a receipt that outlived
\* its reset stands for no rows, and a part may be there twice if a COMMIT of a dead
\* run landed while the next run was copying it.
THEOREM CopyExactAlways == Spec => []CopyExact
BY AllInit, AllStep, CopyImplies, PTL DEF Spec

-----------------------------------------------------------------------------
(***************************************************************************)
(* What no step does: discard a stream that can be resumed, or the part    *)
(* that a clone's copy has committed.                                      *)
(***************************************************************************)

\* One step of the promise.
Keeps ==
  /\ pc = "off" /\ pc' \in ResetSteps => ~(Resumed /\ StreamAccepted)
  /\ fromClone /\ phase = "copy" =>
       \A p \in receipts :
         /\ p \in receipts'
         /\ \/ rows'[p] = rows[p]
            \/ p \in overtaken /\ rows'[p] = Append(rows[p], point)

LEMMA KeepsStep == AllInv /\ [Next]_vars => [Keeps]_vars
<1> SUFFICES ASSUME AllInv, [Next]_vars PROVE [Keeps]_vars
  OBVIOUS
<1> USE DEF AllInv, Keeps, ResetSteps, srcVars, stVars, dirVars, tgtVars, dataVars, histVars
<1>1. CASE SourceCommit \/ SessionExpires \/ SlotDropped \/ TakeClone \/ HolderLost \/ Stream
  BY <1>1
    DEF SourceCommit, SessionExpires, SlotDropped, TakeClone, HolderLost, Stream, Receive, Acknowledge, runVars
<1>2. CASE Fail \/ RefuseClone \/ Refuse \/ Kill
  <2>1. pc' = "off" /\ UNCHANGED <<receipts, rows>>
    BY <1>2 DEF Fail, RefuseClone, Refuse, Kill, Gone
  <2> QED
    BY <2>1
<1>3. CASE StartFresh \/ Resume
  BY <1>3 DEF StartFresh, Resume, Step
<1>4. CASE StartOver \/ RestartBaseCopy
  BY <1>4 DEF StartOver, RestartBaseCopy, EnterReset, Step, Resumed, StreamMissing, StreamAccepted
<1>5. CASE DropSlot \/ DropPublication \/ Untune \/ RestoreIdentities \/ RemoveSnapshot \/ RemoveFiles \/ ResetState
  BY <1>5
    DEF DropSlot, DropPublication, Untune, RestoreIdentities, RemoveSnapshot, RemoveFiles, RemoveCDC, ResetState, Step
<1>6. CASE DropTables \/ DropMetadata
  BY <1>6 DEF DropTables, DropMetadata, Step, KeepInv
<1>7. CASE SettingUp
  BY <1>7
    DEF SettingUp, Preflight, Identities, Publish, CreateSlot, UseClone, WriteSnapshot, SetSnapshot,
        RecordIdentity, RecordTuning, Tune, StartStream, Step
<1>8. CASE RestoreSchema
  BY <1>8 DEF RestoreSchema, Step, KeepInv
<1>9. CASE Prepare
  <2>1. receipts' = receipts /\ pc = "prepare"
    BY <1>9 DEF Prepare
  <2>2. \A p \in receipts : rows'[p] = rows[p]
    <3>1. CASE \E t \in Split : PrepareTable(t)
      <4>1. PICK t \in Split : PrepareTable(t)
        BY <3>1
      <4> QED
        BY <4>1 DEF PrepareTable, Clear, KeepInv
    <3>2. CASE ~(\E t \in Split : PrepareTable(t))
      BY <1>9, <3>2 DEF Prepare
    <3> QED
      BY <3>1, <3>2
  <2> QED
    BY <2>1, <2>2
<1>10. CASE ToSchema \/ SavePlan \/ ToCopy \/ EndCopy \/ ToIndexes \/ ClearFailure \/ Build
  BY <1>10 DEF ToSchema, SavePlan, ToCopy, EndCopy, ToIndexes, ClearFailure, Build, ToPhase, Step
<1>11. ASSUME NEW p \in Part, SkipPart(p) \/ OpenPart(p) \/ CompletePart(p) \/ RetryPart(p)
       PROVE  [Keeps]_vars
  BY <1>11 DEF SkipPart, OpenPart, CompletePart, RetryPart, Works
<1>12. ASSUME NEW p \in Part, StorePart(p) PROVE [Keeps]_vars
  <2>1. /\ pc = "copying" /\ work[p] \in {"open", "blind"} /\ receipts' = receipts \cup {p}
        /\ rows' = [rows EXCEPT ![p] = Append(Kept(p), snap)]
    BY <1>12 DEF StorePart, CommitPart
  <2>2. \A q \in receipts \ {p} : rows'[q] = rows[q]
    BY <2>1 DEF KeepInv
  <2>3. p \in receipts => p \in overtaken /\ rows[p] = <<point>>
    BY <2>1 DEF CopyInv, OrphanInv, Beside
  <2>4. snap = point
    BY <2>1 DEF CopyInv, PhaseInv, PointInv, Streamed, Past
  <2>5. Kept(p) \in {<< >>, rows[p]}
    BY DEF Kept
  <2>6. p \in receipts => rows'[p] = rows[p] \/ rows'[p] = Append(rows[p], point)
    BY <2>1, <2>3, <2>4, <2>5 DEF KeepInv
  <2> QED
    BY <2>1, <2>2, <2>3, <2>6
<1>13. ASSUME NEW p \in Part, OrphanEnds(p) PROVE [Keeps]_vars
  <2>1. pc' = pc
    BY <1>13 DEF OrphanEnds, runVars
  <2>2. p \in receipts => p \in overtaken
    BY <1>13 DEF OrphanEnds, CopyInv, OrphanInv, Beside
  <2>3. \A q \in receipts : q \in receipts' /\ (rows'[q] = rows[q] \/ (q = p /\ rows'[q] = Append(rows[q], point)))
    <3> SUFFICES ASSUME NEW q \in receipts
                 PROVE  q \in receipts' /\ (rows'[q] = rows[q] \/ (q = p /\ rows'[q] = Append(rows[q], point)))
      OBVIOUS
    <3>1. CASE rows' = rows /\ receipts' = receipts
      BY <3>1
    <3>2. CASE rows' = [rows EXCEPT ![p] = Append(rows[p], point)] /\ receipts' = receipts \cup {p}
      <4>1. rows = [x \in Part |-> rows[x]] /\ q \in Part
        BY DEF KeepInv
      <4>2. q # p => rows'[q] = rows[q]
        BY <3>2, <4>1
      <4>3. rows'[p] = Append(rows[p], point)
        BY <3>2, <4>1
      <4> QED
        BY <3>2, <4>2, <4>3
    <3> QED
      BY <1>13, <3>1, <3>2 DEF OrphanEnds
  <2> QED
    BY <2>1, <2>2, <2>3
<1>14. CASE CatchUp \/ UNCHANGED vars
  BY <1>14 DEF CatchUp, vars, runVars
<1> QED
  BY <1>1, <1>2, <1>3, <1>4, <1>5, <1>6, <1>7, <1>8, <1>9, <1>10, <1>11, <1>12, <1>13, <1>14
    DEF Next, Environment, Refusing, Starting, Resetting, Advancing, Copying

\* No run starts to discard a post-copy stream that it could resume, and a part that
\* a clone's copy has committed keeps its rows through every restart, error and late
\* COMMIT; where a COMMIT of a dead run landed beside it, they may come to be there
\* twice, and never fewer times.
THEOREM KeepsWorkAlways == Spec => KeepsWork
<1>1. [Keeps]_vars <=>
        [/\ pc = "off" /\ pc' \in ResetSteps => ~(Resumed /\ StreamAccepted)
         /\ fromClone /\ phase = "copy" =>
              \A p \in receipts :
                /\ p \in receipts'
                /\ \/ rows'[p] = rows[p]
                   \/ p \in overtaken /\ rows'[p] = Append(rows[p], point)]_vars
  BY DEF Keeps
<1> QED
  BY <1>1, AllInit, AllStep, KeepsStep, PTL DEF Spec, KeepsWork
=============================================================================
