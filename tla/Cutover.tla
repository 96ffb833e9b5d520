------------------------------ MODULE Cutover -------------------------------
(***************************************************************************)
(* The cutover command beside the run process.  They are two processes of  *)
(* one migration: they meet in the SQLite state store (every write of      *)
(* which is atomic and durable), in the target's progress row and at the   *)
(* source's replication slot.  The command emits or takes an end position, *)
(* waits for the run process to drain to it, sets the sequences, undoes    *)
(* what the migration changed on both servers and publishes a report; each *)
(* step is marked in the store, and the command may be stopped and started *)
(* again at any point.                                                     *)
(*                                                                         *)
(* A position is the number of a transaction or cutover message in the     *)
(* source's WAL.  The segment log is its durable prefix, without what was  *)
(* pruned: SegmentLog shows that this is what it keeps.                    *)
(***************************************************************************)
EXTENDS Integers

CONSTANTS
  N,          \* bound on source positions
  MaxCommit,  \* the source's own commits stop here, leaving room for messages
  Manual,     \* operators may pass --endpos
  MaxStop,    \* bound on failures of the cutover command
  MaxRunStop  \* bound on failures of the run process

ASSUME ConstAssumption ==
  /\ N \in Nat
  /\ MaxCommit \in 0..N
  /\ Manual \in BOOLEAN
  /\ MaxStop \in Nat
  /\ MaxRunStop \in Nat

VARIABLES
  committed,  \* source: last position written
  objects,    \* source: the migration's slot, publication and REPLICA IDENTITY
              \* FULL, as long as they are there
  session,    \* source: "live" while a receiver holds the slot, "stale" while
              \* the server has not noticed that it is gone
  phase,      \* store: migration.phase
  endpos,     \* store: migration.end_position, 0 when not set
  steps,      \* store: completed steps
  report,     \* disk: end position in cutover-report.json, 0 when absent
  rsynced,    \* disk: the part of that which a directory fsync covers
  run,        \* run process: "up", "down", or finalizing the target cleanup
  receiver,   \* run process: "off", "on" or "done"
  sent,       \* run process: last position delivered to the persister
  durable,    \* segment log: DurableWatermark
  kept,       \* segment log: positions up to this one were pruned
  applier,    \* run process: "run" or "done"
  resolved,   \* Applier.endPositionRequested once resolved, 0 before
  batch,      \* applier: end of the batch collected, 0 when none
  progress,   \* target: replication progress
  leftovers,  \* target: the schema pgmigrate_internal ("metadata"), and the
              \* bulk-load settings and replica identities ("tuning")
  cpc,        \* cutover command: its next step, "off" when not running
  cend,       \* cutover command: report.EndPosition, or its --endpos
  keep,       \* cutover command: --no-cleanup
  stops,      \* failures of the command so far
  runStops    \* failures of the run process so far

srcVars == <<committed, objects, session>>
stVars  == <<phase, endpos, steps>>
repVars == <<report, rsynced>>
runVars == <<run, receiver, sent, durable, kept, applier, resolved, batch>>
tgtVars == <<progress, leftovers>>
cmdVars == <<cpc, cend, keep>>
cntVars == <<stops, runStops>>
vars == <<srcVars, stVars, repVars, runVars, tgtVars, cmdVars, cntVars>>

Pos == 0..N

\* phaseOrder, from the phase that admits a cutover.
Order == [follow |-> 0, drained |-> 1, cutover |-> 2, complete |-> 3]

StepNames ==
  {"end_position", "drain", "sequences", "cleanup", "report",
   "target.cleanup.requested", "target.cleanup.completed"}

Init ==
  /\ committed = 0 /\ session = "none"
  /\ objects = {"slot", "publication", "full_identity"}
  /\ phase = "follow" /\ endpos = 0 /\ steps = {}
  /\ report = 0 /\ rsynced = 0
  /\ run = "down" /\ receiver = "off" /\ sent = 0 /\ durable = 0 /\ kept = 0
  /\ applier = "run" /\ resolved = 0 /\ batch = 0
  /\ progress = 0 /\ leftovers = {"metadata", "tuning"}
  /\ cpc = "off" /\ cend = 0 /\ keep = FALSE
  /\ stops = 0 /\ runStops = 0

-----------------------------------------------------------------------------
(***************************************************************************)
(* The run process and its environment.                                    *)
(***************************************************************************)

\* Nobody stops the application from writing to the source.
SourceCommit ==
  /\ committed < MaxCommit /\ committed' = committed + 1
  /\ UNCHANGED <<objects, session, stVars, repVars, runVars, tgtVars,
                 cmdVars, cntVars>>

\* The --endpos of an invocation: none, or one that NormalizeEndPosition finds
\* exactly in the retained log, which the command scans beside the run process
\* and so with frames that are appended but not yet fsynced.
Requests == {0} \cup {e \in 1..sent : Manual /\ kept < e}

\* A later end position replaces the recorded one.
BugEndAccepts(e) == e # 0

\* Store.SetEndPosition succeeds: the position is immutable once recorded.
EndAccepts(e) == e # 0 /\ endpos \in {0, e}

\* resumePostCopy: the slot, the publication and the target's identity are
\* validated, the log is recovered and --endpos is recorded.
RunStart ==
  /\ run = "down" /\ phase # "complete"
  /\ {"slot", "publication"} \subseteq objects /\ session = "none"
  /\ "metadata" \in leftovers
  /\ \E e \in Requests :
       /\ e # 0 => EndAccepts(e)
       /\ endpos' = IF e = 0 THEN endpos ELSE e
  /\ run' = "up" /\ receiver' = "off" /\ sent' = durable
  /\ applier' = "run" /\ resolved' = 0 /\ batch' = 0
  /\ UNCHANGED <<srcVars, phase, steps, repVars, durable, kept, tgtVars,
                 cmdVars, cntVars>>

\* What the end of the run process, for whatever reason, leaves.
RunEnds(next) ==
  /\ run' = next /\ receiver' = "off" /\ applier' = "run"
  /\ resolved' = 0 /\ batch' = 0 /\ sent' = durable
  /\ session' = IF session = "live" THEN "stale" ELSE session
  /\ UNCHANGED <<committed, objects, stVars, repVars, durable, kept, tgtVars,
                 cmdVars>>

\* The process is killed, or one of its goroutines returns an error.
RunStop ==
  /\ run # "down" /\ runStops < MaxRunStop /\ runStops' = runStops + 1
  /\ RunEnds("down") /\ UNCHANGED stops

\* The server ends a session whose client is gone.
SessionExpires ==
  /\ session = "stale" /\ session' = "none"
  /\ UNCHANGED <<committed, objects, stVars, repVars, runVars, tgtVars, cmdVars,
                 cntVars>>

\* A session is opened on the slot.
ReceiverStart ==
  /\ run = "up" /\ receiver = "off" /\ "slot" \in objects /\ session = "none"
  /\ receiver' = "on" /\ session' = "live"
  /\ UNCHANGED <<committed, objects, stVars, repVars, run, sent,
                 durable, kept, applier, resolved, batch, tgtVars, cmdVars,
                 cntVars>>

\* The slot is gone: START_REPLICATION fails and ends the run.
ReceiverFail ==
  /\ run = "up" /\ receiver = "off" /\ "slot" \notin objects
  /\ RunEnds("down") /\ UNCHANGED cntVars

\* runSession delivers the next position; it may pass the end position before
\* that is recorded, or before the persister has caught up.
Deliver ==
  /\ run = "up" /\ receiver = "on" /\ sent < committed
  /\ sent' = sent + 1
  /\ UNCHANGED <<srcVars, stVars, repVars, run, receiver, durable, kept,
                 applier, resolved, batch, tgtVars, cmdVars, cntVars>>

\* The persister makes it durable and publishes the watermark.
Persist ==
  /\ run = "up" /\ durable < sent
  /\ durable' = durable + 1
  /\ UNCHANGED <<srcVars, stVars, repVars, run, receiver, sent, kept, applier,
                 resolved, batch, tgtVars, cmdVars, cntVars>>

\* The end position is recorded and the durable log reaches it.
EndDurable == endpos # 0 /\ durable >= endpos

\* The session ends when the durable log reaches the end position;
\* runReceiverContinuous then waits for good.
ReceiverDone ==
  /\ run = "up" /\ receiver = "on" /\ EndDurable
  /\ receiver' = "done" /\ session' = "none"
  /\ UNCHANGED <<committed, objects, stVars, repVars, run, sent,
                 durable, kept, applier, resolved, batch, tgtVars, cmdVars,
                 cntVars>>

\* The end position is in the retained log, or was found there earlier.
Resolvable == resolved = endpos \/ kept < endpos

\* effectiveEndPosition: the last position a batch may hold.
ApplyLimit == IF EndDurable /\ endpos < durable THEN endpos ELSE durable

\* applyFromReader collects a batch,
Collect ==
  /\ run = "up" /\ applier = "run" /\ batch = 0
  /\ EndDurable => Resolvable
  /\ resolved' = IF EndDurable THEN endpos ELSE resolved
  /\ \E b \in (progress + 1)..ApplyLimit : batch' = b
  /\ UNCHANGED <<srcVars, stVars, repVars, run, receiver, sent, durable, kept,
                 applier, tgtVars, cmdVars, cntVars>>

\* and commits it with the progress row.
Apply ==
  /\ run = "up" /\ batch # 0
  /\ progress' = batch /\ batch' = 0
  /\ UNCHANGED <<srcVars, stVars, repVars, run, receiver, sent, durable, kept,
                 applier, resolved, leftovers, cmdVars, cntVars>>

\* runConnection returns once progress reaches the end position.
ApplierDone ==
  /\ run = "up" /\ applier = "run" /\ batch = 0
  /\ EndDurable /\ Resolvable /\ progress >= endpos
  /\ applier' = "done" /\ resolved' = endpos
  /\ UNCHANGED <<srcVars, stVars, repVars, run, receiver, sent, durable, kept,
                 batch, tgtVars, cmdVars, cntVars>>

\* NormalizeEndPosition finds nothing retained at or before the end position:
\* the applier's error ends the run.
ApplierFail ==
  /\ run = "up" /\ applier = "run" /\ batch = 0
  /\ EndDurable /\ ~Resolvable
  /\ RunEnds("down") /\ UNCHANGED cntVars

\* The pruner keeps the segment with the progress position and the one before.
Prune ==
  /\ run = "up"
  /\ \E k \in (kept + 1)..(progress - 2) : kept' = k
  /\ UNCHANGED <<srcVars, stVars, repVars, run, receiver, sent, durable,
                 applier, resolved, batch, tgtVars, cmdVars, cntVars>>

\* The run process notices that the migration is complete and stops its
\* goroutines before it cleans the target.
RunComplete ==
  /\ run = "up" /\ phase = "complete"
  /\ RunEnds("finalize") /\ UNCHANGED cntVars

CleanupDue ==
  /\ "target.cleanup.requested" \in steps
  /\ "target.cleanup.completed" \notin steps

\* A run started on a complete migration only finalizes, after it has
\* validated the target's identity.
RunFinalize ==
  /\ run = "down" /\ phase = "complete" /\ CleanupDue
  /\ "metadata" \in leftovers
  /\ RunEnds("finalize") /\ UNCHANGED cntVars

\* finalizeTargetCleanup drops the migration's schema on the target,
FinalizeDrop ==
  /\ run = "finalize"
  /\ \/ CleanupDue /\ run' = "mark" /\ leftovers' = leftovers \ {"metadata"}
     \/ ~CleanupDue /\ run' = "down" /\ UNCHANGED leftovers
  /\ UNCHANGED <<srcVars, stVars, repVars, receiver, sent, durable, kept,
                 applier, resolved, batch, progress, cmdVars, cntVars>>

\* and then marks it done.
FinalizeMark ==
  /\ run = "mark"
  /\ run' = "down" /\ steps' = steps \cup {"target.cleanup.completed"}
  /\ UNCHANGED <<srcVars, phase, endpos, repVars, receiver, sent, durable, kept,
                 applier, resolved, batch, tgtVars, cmdVars, cntVars>>

-----------------------------------------------------------------------------
(***************************************************************************)
(* The cutover command.  cpc names its next step.                          *)
(***************************************************************************)

\* What every step of the command but the first leaves alone.
Elsewhere == UNCHANGED <<runVars, keep, cntVars>>

\* The command is killed, or a statement of it fails (a stalled drain, a lost
\* connection).  The CONTROL lock admits one command at a time.
CutoverStop ==
  /\ cpc # "off" /\ stops < MaxStop /\ stops' = stops + 1
  /\ cpc' = "off" /\ cend' = 0
  /\ UNCHANGED <<srcVars, stVars, repVars, runVars, tgtVars, keep, runStops>>

\* A power failure ends both processes and may undo the report's rename.
PowerFailure ==
  /\ stops < MaxStop /\ stops' = stops + 1
  /\ cpc' = "off" /\ cend' = 0
  /\ report' \in {rsynced, report}
  /\ run' = "down" /\ receiver' = "off" /\ applier' = "run"
  /\ resolved' = 0 /\ batch' = 0 /\ sent' = durable
  /\ session' = IF session = "live" THEN "stale" ELSE session
  /\ UNCHANGED <<committed, objects, stVars, rsynced, durable, kept, tgtVars,
                 keep, runStops>>

\* App.Cutover: the target's identity is validated and --endpos looked up in
\* the retained log.
CutoverStart ==
  /\ cpc = "off" /\ phase # "complete" /\ "metadata" \in leftovers
  /\ keep' \in BOOLEAN
  /\ \E e \in Requests :
       /\ cend' = e /\ cpc' = IF e = 0 THEN "request" ELSE "manual"
  /\ UNCHANGED <<srcVars, stVars, repVars, runVars, tgtVars, cntVars>>

\* A refused write of the store ends the command.
Refused == cpc' = "off" /\ cend' = 0

\* SetEndPosition with the manual or the emitted position.
RecordEnd(from, to) ==
  /\ cpc = from
  /\ \/ EndAccepts(cend) /\ endpos' = cend /\ cpc' = to /\ UNCHANGED cend
     \/ ~EndAccepts(cend) /\ UNCHANGED endpos /\ Refused
  /\ UNCHANGED <<srcVars, phase, steps, repVars, tgtVars>>
  /\ Elsewhere

SetManualEnd == RecordEnd("manual", "request")

\* SetTargetCleanupRequested.
RequestCleanup ==
  /\ cpc = "request" /\ cpc' = "check"
  /\ steps' = IF keep THEN steps \ {"target.cleanup.requested"}
                      ELSE steps \cup {"target.cleanup.requested"}
  /\ UNCHANGED <<srcVars, phase, endpos, repVars, tgtVars, cend>>
  /\ Elsewhere

\* A command stopped between the report's marker and the last transition only
\* has that transition to do.
CheckReport ==
  /\ cpc = "check"
  /\ cpc' = IF "report" \in steps THEN "complete" ELSE "position"
  /\ UNCHANGED <<srcVars, stVars, repVars, tgtVars, cend>>
  /\ Elsewhere

\* The recorded end position is reused,
ReadPosition ==
  /\ cpc = "position"
  /\ cend' = endpos /\ cpc' = IF endpos = 0 THEN "emit" ELSE "mark_end"
  /\ UNCHANGED <<srcVars, stVars, repVars, tgtVars>>
  /\ Elsewhere

\* or a message is written to the source's WAL,
EmitBoundary ==
  /\ cpc = "emit" /\ committed < N
  /\ committed' = committed + 1 /\ cend' = committed + 1 /\ cpc' = "set_end"
  /\ UNCHANGED <<objects, session, stVars, repVars, tgtVars>>
  /\ Elsewhere

\* whose position is recorded.
SetEnd == RecordEnd("set_end", "mark_end")

\* runStep writes the marker of a step whose action has been done.
Mark(from, step, to) ==
  /\ cpc = from /\ cpc' = to /\ steps' = steps \cup {step}
  /\ UNCHANGED <<srcVars, phase, endpos, repVars, tgtVars, cend>>
  /\ Elsewhere

MarkEnd == Mark("mark_end", "end_position", "drain")

\* The wait is satisfied by whatever the log holds.
BugDrained == durable >= cend

\* The drain waits for something after the end position.
BugDrainedPast == progress > cend

\* waitTargetProgress: the target has reached the end position.
Drained == progress >= cend

Drain == ("drain" \in steps \/ Drained) /\ Mark("drain", "drain", "to_drained")

\* TransitionPhase allows the current phase and its successor.
Advances(p) == Order[p] \in {Order[phase], Order[phase] + 1}

\* transitionOptional: a refused transition ends the command.
ToPhase(from, p, to) ==
  /\ cpc = from
  /\ \/ Advances(p) /\ phase' = p /\ cpc' = to /\ UNCHANGED cend
     \/ ~Advances(p) /\ UNCHANGED phase /\ Refused
  /\ UNCHANGED <<srcVars, endpos, steps, repVars, tgtVars>>
  /\ Elsewhere

ToDrained == ToPhase("to_drained", "drained", "sequences")

\* SynchronizeSequences (see SequenceSync) and its marker.
Sequences == Mark("sequences", "sequences", "to_cutover")

\* A cleanup that is marked is not repeated.
ToCutover ==
  ToPhase("to_cutover", "cutover",
          IF "cleanup" \in steps THEN "report" ELSE "cleanup")

\* With --no-cleanup the target is left as it is.
BugRevertTarget ==
  /\ cpc = "cleanup"
  /\ leftovers' = IF keep THEN leftovers ELSE leftovers \ {"tuning"}
  /\ cpc' = IF keep THEN "mark_cleanup" ELSE "wait_slot"
  /\ UNCHANGED <<srcVars, stVars, repVars, progress, cend>>
  /\ Elsewhere

\* cleanupAfterCutover: settings and identities of the target are put back,
\* with --no-cleanup too.
RevertTarget ==
  /\ cpc = "cleanup"
  /\ leftovers' = leftovers \ {"tuning"}
  /\ cpc' = IF keep THEN "mark_cleanup" ELSE "wait_slot"
  /\ UNCHANGED <<srcVars, stVars, repVars, progress, cend>>
  /\ Elsewhere

WaitSlotInactive ==
  /\ cpc = "wait_slot" /\ session = "none" /\ cpc' = "drop_slot"
  /\ UNCHANGED <<srcVars, stVars, repVars, tgtVars, cend>>
  /\ Elsewhere

\* CleanupOwned drops the slot, unless a restarted run has taken it again,
DropSlot ==
  /\ cpc = "drop_slot"
  /\ \/ /\ session = "none" /\ objects' = objects \ {"slot"}
        /\ cpc' = "drop_pub" /\ UNCHANGED cend
     \/ session # "none" /\ UNCHANGED objects /\ Refused
  /\ UNCHANGED <<committed, session, stVars, repVars, tgtVars>>
  /\ Elsewhere

\* The identities go first.
BugDropPublication ==
  /\ cpc = "drop_pub" /\ cpc' = "restore"
  /\ objects' = objects \ {"full_identity"}
  /\ UNCHANGED <<committed, session, stVars, repVars, tgtVars, cend>>
  /\ Elsewhere

\* then the publication;
DropPublication ==
  /\ cpc = "drop_pub" /\ cpc' = "restore"
  /\ objects' = objects \ {"publication"}
  /\ UNCHANGED <<committed, session, stVars, repVars, tgtVars, cend>>
  /\ Elsewhere

\* restoreReplicaIdentities comes last.
RestoreIdentities ==
  /\ cpc = "restore" /\ cpc' = "mark_cleanup"
  /\ objects' = objects \ {"full_identity"}
  /\ UNCHANGED <<committed, session, stVars, repVars, tgtVars, cend>>
  /\ Elsewhere

MarkCleanup == Mark("mark_cleanup", "cleanup", "report")

\* A report left by an earlier attempt is adopted; otherwise it is written to
\* a temporary file and renamed,
PublishReport ==
  /\ cpc = "report"
  /\ report' = IF report = 0 THEN cend ELSE report
  /\ cpc' = IF report = 0 THEN "sync_report" ELSE "mark_report"
  /\ UNCHANGED <<srcVars, stVars, rsynced, tgtVars, cend>>
  /\ Elsewhere

\* and the directory is fsynced.
SyncReport ==
  /\ cpc = "sync_report" /\ cpc' = "mark_report" /\ rsynced' = report
  /\ UNCHANGED <<srcVars, stVars, report, tgtVars, cend>>
  /\ Elsewhere

MarkReport == Mark("mark_report", "report", "complete")

ToComplete == ToPhase("complete", "complete", "off")

-----------------------------------------------------------------------------
RunNext ==
  \/ RunStart \/ RunStop \/ SessionExpires \/ ReceiverStart \/ ReceiverFail
  \/ Deliver \/ Persist \/ ReceiverDone \/ Collect \/ Apply \/ ApplierDone
  \/ ApplierFail \/ Prune \/ RunComplete \/ RunFinalize \/ FinalizeDrop
  \/ FinalizeMark

CutoverNext ==
  \/ CutoverStart \/ CutoverStop \/ SetManualEnd \/ RequestCleanup
  \/ CheckReport \/ ReadPosition \/ EmitBoundary \/ SetEnd \/ MarkEnd
  \/ Drain \/ ToDrained \/ Sequences \/ ToCutover \/ RevertTarget
  \/ WaitSlotInactive \/ DropSlot \/ DropPublication \/ RestoreIdentities
  \/ MarkCleanup \/ PublishReport \/ SyncReport \/ MarkReport \/ ToComplete

Next == SourceCommit \/ PowerFailure \/ RunNext \/ CutoverNext

Spec == Init /\ [][Next]_vars

(***************************************************************************)
(* Fairness: the goroutines of the run process and the steps of the        *)
(* command are scheduled, the supervisor starts a run that ended, and the  *)
(* operator starts a command that failed, and not for ever with an         *)
(* --endpos that the store refuses.                                        *)
(***************************************************************************)
Fairness ==
  /\ WF_vars(RunStart) /\ WF_vars(SessionExpires)
  /\ WF_vars(ReceiverStart \/ ReceiverDone)
  /\ WF_vars(Deliver) /\ WF_vars(Persist)
  /\ WF_vars(Collect \/ Apply \/ ApplierDone)
  /\ WF_vars(CutoverNext /\ stops' = stops)
  /\ SF_vars(CutoverStart /\ cend' = 0)

FairSpec == Spec /\ Fairness

-----------------------------------------------------------------------------
Commands ==
  {"off", "manual", "request", "check", "position", "emit", "set_end",
   "mark_end", "drain", "to_drained", "sequences", "to_cutover", "cleanup",
   "wait_slot", "drop_slot", "drop_pub", "restore", "mark_cleanup", "report",
   "sync_report", "mark_report", "complete"}

\* Every variable has its type.
TypeOK ==
  /\ committed \in Pos /\ session \in {"none", "live", "stale"}
  /\ objects \subseteq {"slot", "publication", "full_identity"}
  /\ phase \in DOMAIN Order /\ endpos \in Pos /\ steps \subseteq StepNames
  /\ report \in Pos /\ rsynced \in Pos
  /\ run \in {"down", "up", "finalize", "mark"}
  /\ receiver \in {"off", "on", "done"} /\ applier \in {"run", "done"}
  /\ sent \in Pos /\ durable \in Pos /\ kept \in Pos /\ batch \in Pos
  /\ resolved \in Pos /\ progress \in Pos
  /\ leftovers \subseteq {"metadata", "tuning"}
  /\ cpc \in Commands /\ cend \in Pos /\ keep \in BOOLEAN
  /\ stops \in 0..MaxStop /\ runStops \in 0..MaxRunStop

\* Once the drain step is marked, and so before sequences are set, the target
\* holds everything up to the end position in the store, whatever commands and
\* runs with other end positions came in between.
DrainCoversEnd == "drain" \in steps => endpos # 0 /\ progress >= endpos

\* The source's slot is only dropped when nothing up to the end position still
\* has to come from it.
SlotOutlivesStream == "slot" \notin objects => endpos # 0 /\ progress >= endpos

\* A relation is never both published and without a usable replica identity:
\* the source would reject the application's updates and deletes.
PublishedKeepsIdentity ==
  "publication" \in objects => "full_identity" \in objects

\* A complete migration has a report with the end position it drained to, and
\* no power failure can take it back.
CompleteHasReport ==
  phase = "complete" => endpos # 0 /\ report = endpos /\ rsynced = endpos

\* A complete migration has left both servers as it should: the target without
\* the bulk-load settings; the source either without slot, publication and
\* changed identities, or (--no-cleanup) with all of them.
CompleteIsTidy ==
  phase = "complete" =>
    /\ "tuning" \notin leftovers
    /\ objects \in {{}, {"slot", "publication", "full_identity"}}

\* The metadata schema outlives the applier, which keeps its progress there.
MetadataOutlivesApply ==
  "metadata" \notin leftovers => run # "up" /\ phase = "complete"

\* A stopped receiver has left everything up to the end position durable, so
\* the applier can drain without the source.
StoppedReceiverIsDurable == receiver = "done" => endpos # 0 /\ durable >= endpos

\* A command that is run again after a failure, or a run that is restarted,
\* gets to the point where the target takes over.
EventuallyCutover == <>(phase \in {"cutover", "complete"})
=============================================================================
