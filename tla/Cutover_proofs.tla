--------------------------- MODULE Cutover_proofs ---------------------------
(***************************************************************************)
(* The safety properties of the cutover, for every number of positions,    *)
(* of failures of the command and of failures of the run process, and      *)
(* those of the sequences that it sets.                                    *)
(***************************************************************************)
EXTENDS Cutover, SequenceSync, TLAPS

Owned == {"slot", "publication", "full_identity"}

\* Where the command has read or recorded the end position,
Positioned ==
  {"mark_end", "drain", "to_drained", "sequences", "to_cutover", "cleanup",
   "wait_slot", "drop_slot", "drop_pub", "restore", "mark_cleanup", "report",
   "sync_report", "mark_report"}

\* where it has drained,
Draining == Positioned \ {"mark_end", "drain"}

\* where it has passed the point of no return,
Switched ==
  {"cleanup", "wait_slot", "drop_slot", "drop_pub", "restore", "mark_cleanup",
   "report", "sync_report", "mark_report"}

\* and where it has cleaned up what the options ask for.
Cleaned == {"mark_cleanup", "report", "sync_report", "mark_report"}

-----------------------------------------------------------------------------
\* Positions pass from the source to the log to the target in order.
LogInv ==
  /\ progress <= durable /\ durable <= sent /\ sent <= committed
  /\ batch # 0 => progress < batch /\ batch <= durable
  /\ StoppedReceiverIsDurable

\* The command works with the recorded end position, which the target has
\* reached once the drain is marked.
EndInv ==
  /\ cpc \in Positioned => endpos # 0 /\ cend = endpos
  /\ cpc \in Draining => "drain" \in steps
  /\ DrainCoversEnd

\* How the phase, the markers and the place of the command correspond.
PhaseInv ==
  /\ phase # "follow" => "drain" \in steps
  /\ cpc \in {"sequences", "to_cutover"} => phase = "drained"
  /\ cpc \in Switched => phase = "cutover"
  /\ phase \in {"follow", "drained"} => steps \cap {"report", "cleanup"} = {}
  /\ cpc \in Positioned \cup {"position", "emit", "set_end"} =>
       "report" \notin steps
  /\ phase = "complete" \/ cpc = "complete" => "report" \in steps

\* What is left on the source and the target, and when.
ObjectsInv ==
  /\ objects \in {Owned, {"publication", "full_identity"}, {"full_identity"},
                 {}}
  /\ phase \in {"follow", "drained"} => objects = Owned
  /\ cpc \in {"cleanup", "wait_slot", "drop_slot"} => objects = Owned
  /\ cpc = "drop_pub" => objects = {"publication", "full_identity"}
  /\ cpc = "restore" => objects = {"full_identity"}
  /\ cpc \in Cleaned \/ "report" \in steps => objects \in {{}, Owned}
  /\ cpc \in Switched \ {"cleanup"} \/ "report" \in steps =>
       "tuning" \notin leftovers

\* What the report on disk says.
ReportInv ==
  /\ phase \in {"follow", "drained"} => report = 0 /\ rsynced = 0
  /\ cpc \in Switched \ {"sync_report", "mark_report"} =>
       report = 0 /\ rsynced = 0
  /\ cpc = "sync_report" => report = endpos
  /\ cpc = "mark_report" \/ "report" \in steps =>
       endpos # 0 /\ report = endpos /\ rsynced = endpos

\* The run process drops the metadata only after the migration is complete.
RunInv ==
  /\ run \in {"finalize", "mark"} => phase = "complete"
  /\ MetadataOutlivesApply

CutoverInv ==
  TypeOK /\ LogInv /\ EndInv /\ PhaseInv /\ ObjectsInv /\ ReportInv /\ RunInv

-----------------------------------------------------------------------------
\* Every action of either process, of the source and of a power failure keeps
\* the invariant.
LEMMA InvStep == CutoverInv /\ Next => CutoverInv'
<1> SUFFICES ASSUME CutoverInv, Next PROVE CutoverInv'
  OBVIOUS
<1> USE ConstAssumption
  DEF CutoverInv, TypeOK, LogInv, EndInv, PhaseInv, ObjectsInv, ReportInv,
      RunInv, Pos, Order, StepNames, Commands, StoppedReceiverIsDurable,
      DrainCoversEnd, MetadataOutlivesApply, Owned, Positioned, Draining,
      Switched, Cleaned, srcVars, stVars, repVars, runVars, tgtVars,
      cmdVars, cntVars
<1>1. CASE SourceCommit
  BY <1>1 DEF SourceCommit
<1>2. CASE PowerFailure
  BY <1>2 DEF PowerFailure
<1>3. CASE RunStart
  BY <1>3 DEF RunStart, Requests, EndAccepts
<1>4. CASE RunStop
  BY <1>4 DEF RunStop, RunEnds
<1>5. CASE SessionExpires
  BY <1>5 DEF SessionExpires
<1>6. CASE ReceiverStart
  BY <1>6 DEF ReceiverStart
<1>7. CASE ReceiverFail
  BY <1>7 DEF ReceiverFail, RunEnds
<1>8. CASE Deliver
  BY <1>8 DEF Deliver
<1>9. CASE Persist
  BY <1>9 DEF Persist
<1>10. CASE ReceiverDone
  BY <1>10 DEF ReceiverDone, EndDurable
<1>11. CASE Collect
  BY <1>11 DEF Collect, EndDurable, ApplyLimit
<1>12. CASE Apply
  BY <1>12 DEF Apply
<1>13. CASE ApplierDone
  BY <1>13 DEF ApplierDone, EndDurable
<1>14. CASE ApplierFail
  BY <1>14 DEF ApplierFail, RunEnds
<1>15. CASE Prune
  BY <1>15 DEF Prune
<1>16. CASE RunComplete
  BY <1>16 DEF RunComplete, RunEnds
<1>17. CASE RunFinalize
  BY <1>17 DEF RunFinalize, RunEnds
<1>18. CASE FinalizeDrop
  <2>1. CASE run' = "mark" /\ leftovers' = leftovers \ {"metadata"}
    BY <1>18, <2>1 DEF FinalizeDrop
  <2>2. CASE run' = "down" /\ UNCHANGED leftovers
    BY <1>18, <2>2 DEF FinalizeDrop
  <2> QED
    BY <1>18, <2>1, <2>2 DEF FinalizeDrop
<1>19. CASE FinalizeMark
  BY <1>19 DEF FinalizeMark
<1>20. CASE CutoverStart
  BY <1>20 DEF CutoverStart, Requests
<1>21. CASE CutoverStop
  BY <1>21 DEF CutoverStop
<1>22. CASE SetManualEnd
  BY <1>22 DEF SetManualEnd, RecordEnd, EndAccepts, Refused, Elsewhere
<1>23. CASE RequestCleanup
  BY <1>23 DEF RequestCleanup, Elsewhere
<1>24. CASE CheckReport
  BY <1>24 DEF CheckReport, Elsewhere
<1>25. CASE ReadPosition
  BY <1>25 DEF ReadPosition, Elsewhere
<1>26. CASE EmitBoundary
  BY <1>26 DEF EmitBoundary, Elsewhere
<1>27. CASE SetEnd
  BY <1>27 DEF SetEnd, RecordEnd, EndAccepts, Refused, Elsewhere
<1>28. CASE MarkEnd
  BY <1>28 DEF MarkEnd, Mark, Elsewhere
<1>29. CASE Drain
  BY <1>29 DEF Drain, Mark, Drained, Elsewhere
<1>30. CASE ToDrained
  BY <1>30 DEF ToDrained, ToPhase, Advances, Refused, Elsewhere
<1>31. CASE Sequences
  BY <1>31 DEF Sequences, Mark, Elsewhere
<1>32. CASE ToCutover
  BY <1>32 DEF ToCutover, ToPhase, Advances, Refused, Elsewhere
<1>33. CASE RevertTarget
  BY <1>33 DEF RevertTarget, Elsewhere
<1>34. CASE WaitSlotInactive
  BY <1>34 DEF WaitSlotInactive, Elsewhere
<1>35. CASE DropSlot
  BY <1>35 DEF DropSlot, Elsewhere, Refused
<1>36. CASE DropPublication
  BY <1>36 DEF DropPublication, Elsewhere
<1>37. CASE RestoreIdentities
  BY <1>37 DEF RestoreIdentities, Elsewhere
<1>38. CASE MarkCleanup
  BY <1>38 DEF MarkCleanup, Mark, Elsewhere
<1>39. CASE PublishReport
  BY <1>39 DEF PublishReport, Elsewhere
<1>40. CASE SyncReport
  BY <1>40 DEF SyncReport, Elsewhere
<1>41. CASE MarkReport
  BY <1>41 DEF MarkReport, Mark, Elsewhere
<1>42. CASE ToComplete
  BY <1>42 DEF ToComplete, ToPhase, Advances, Refused, Elsewhere
<1> QED
  BY <1>1, <1>2, <1>3, <1>4, <1>5, <1>6, <1>7, <1>8, <1>9, <1>10, <1>11,
     <1>12, <1>13, <1>14, <1>15, <1>16, <1>17, <1>18, <1>19, <1>20, <1>21,
     <1>22, <1>23, <1>24, <1>25, <1>26, <1>27, <1>28, <1>29, <1>30, <1>31,
     <1>32, <1>33, <1>34, <1>35, <1>36, <1>37, <1>38, <1>39, <1>40, <1>41,
     <1>42
     DEF Next, RunNext, CutoverNext

\* The invariant holds initially and is kept by every step.
THEOREM CutoverInvariant == Spec => []CutoverInv
<1>1. Init => CutoverInv
  <2> SUFFICES ASSUME Init PROVE CutoverInv
    OBVIOUS
  <2>1. keep \in BOOLEAN
    BY Zenon DEF Init
  <2>2. TypeOK
    BY <2>1, ConstAssumption DEF Init, TypeOK, Pos, Order, StepNames, Commands
  <2>3. LogInv
    BY DEF Init, LogInv, StoppedReceiverIsDurable
  <2>4. EndInv /\ PhaseInv
    BY DEF Init, EndInv, PhaseInv, DrainCoversEnd, Positioned, Draining, Switched
  <2>5. ObjectsInv /\ ReportInv /\ RunInv
    BY DEF Init, ObjectsInv, ReportInv, RunInv, MetadataOutlivesApply, Owned,
       Switched, Cleaned
  <2> QED
    BY <2>2, <2>3, <2>4, <2>5 DEF CutoverInv
<1>2. CutoverInv /\ [Next]_vars => CutoverInv'
  <2>1. CutoverInv /\ Next => CutoverInv'
    BY InvStep
  <2>2. CutoverInv /\ UNCHANGED vars => CutoverInv'
    BY DEF vars, srcVars, stVars, repVars, runVars, tgtVars, cmdVars, cntVars,
       CutoverInv, TypeOK, LogInv, EndInv, PhaseInv, ObjectsInv, ReportInv,
       RunInv, StoppedReceiverIsDurable, DrainCoversEnd, MetadataOutlivesApply
  <2> QED
    BY <2>1, <2>2
<1> QED
  BY <1>1, <1>2, PTL DEF Spec

-----------------------------------------------------------------------------
\* Every variable of the two processes, the store and the servers has its type:
\* no sequence of restarts, end positions or commands takes a position past the
\* source's.
THEOREM CutoverTypeCorrect == Spec => []TypeOK
<1>1. CutoverInv => TypeOK
  BY DEF CutoverInv
<1> QED
  BY <1>1, CutoverInvariant, PTL

\* Once waitTargetProgress is marked as done, the target holds everything up to
\* the recorded end position, through any restarts with other --endpos values.
THEOREM DrainCoversEndAlways == Spec => []DrainCoversEnd
<1>1. CutoverInv => DrainCoversEnd
  BY DEF CutoverInv, EndInv
<1> QED
  BY <1>1, CutoverInvariant, PTL

\* CleanupOwned never drops the slot while something up to the end position is
\* still missing on the target.
THEOREM SlotOutlivesStreamAlways == Spec => []SlotOutlivesStream
<1>1. CutoverInv => SlotOutlivesStream
  BY DEF CutoverInv, TypeOK, Order, EndInv, PhaseInv, ObjectsInv, Owned,
     DrainCoversEnd, SlotOutlivesStream
<1> QED
  BY <1>1, CutoverInvariant, PTL

\* Neither cleanupAfterCutover nor its interruption leaves a published relation
\* without its replica identity.
THEOREM PublishedKeepsIdentityAlways == Spec => []PublishedKeepsIdentity
<1>1. CutoverInv => PublishedKeepsIdentity
  BY DEF CutoverInv, ObjectsInv, Owned, PublishedKeepsIdentity
<1> QED
  BY <1>1, CutoverInvariant, PTL

\* A migration that is complete has its report durably on disk, with the end
\* position it drained to.
THEOREM CompleteHasReportAlways == Spec => []CompleteHasReport
<1>1. CutoverInv => CompleteHasReport
  BY DEF CutoverInv, PhaseInv, ReportInv, CompleteHasReport
<1> QED
  BY <1>1, CutoverInvariant, PTL

\* A migration that is complete has undone what it changed on both servers.
THEOREM CompleteIsTidyAlways == Spec => []CompleteIsTidy
<1>1. CutoverInv => CompleteIsTidy
  BY DEF CutoverInv, PhaseInv, ObjectsInv, Owned, CompleteIsTidy
<1> QED
  BY <1>1, CutoverInvariant, PTL

\* finalizeTargetCleanup never takes the progress row from under an applier.
THEOREM MetadataOutlivesApplyAlways == Spec => []MetadataOutlivesApply
<1>1. CutoverInv => MetadataOutlivesApply
  BY DEF CutoverInv, RunInv
<1> QED
  BY <1>1, CutoverInvariant, PTL

\* A receiver that stopped at the end position has left the log complete.
THEOREM StoppedReceiverIsDurableAlways == Spec => []StoppedReceiverIsDurable
<1>1. CutoverInv => StoppedReceiverIsDurable
  BY DEF CutoverInv, LogInv
<1> QED
  BY <1>1, CutoverInvariant, PTL

-----------------------------------------------------------------------------
(***************************************************************************)
(* The synchronization of the sequences: the offset is the room that it    *)
(* promises, for every number of sequences, every start value, offset and  *)
(* range of bigint, and any number of synchronizations.                    *)
(***************************************************************************)
ReadType == [at : Seqs, value : Bigint, called : BOOLEAN, used : Nat]

\* How far v lies from the first value in the direction of s.
Ord(s, v) == IF Increment[s] < 0 THEN First - v ELSE v - First

\* The values of the source lie before used[s], and its state is at the last
\* of them.
SourceInv ==
  \A s \in Seqs :
    /\ \A v \in given[s] : Ord(s, v) < used[s]
    /\ src[s].called => Ord(s, src[s].last) = used[s] - Step(s)
    /\ ~src[s].called => src[s].last = First /\ used[s] = 0

\* A value that was read lies the offset after the source's at the time.
ReadInv ==
  read # NoRead =>
    /\ read.at = at
    /\ read.called => Ord(at, read.value) = read.used - Step(at) + Offset
    /\ ~read.called => Ord(at, read.value) = read.used + Offset

\* A sequence that was set hands out values from there on.
TargetInv ==
  \A s \in set :
    /\ \A v \in fresh[s] : Ord(s, v) >= base[s] + Offset
    /\ tgt[s].called => Ord(s, tgt[s].last) >= base[s] - Step(s) + Offset
    /\ ~tgt[s].called => Ord(s, tgt[s].last) >= base[s] + Offset

SyncInv == SyncTypeOK /\ SourceInv /\ ReadInv /\ TargetInv

-----------------------------------------------------------------------------
LEMMA SyncBegins == SyncInit => SyncInv
<1> SUFFICES ASSUME SyncInit PROVE SyncInv
  OBVIOUS
<1> USE SyncAssumption DEF SyncInit
<1>1. [last |-> First, called |-> FALSE] \in Value
  BY DEF Value, Bigint
<1>2. SyncTypeOK
  <2>1. src \in [Seqs -> Value] /\ tgt \in [Seqs -> Value]
    BY <1>1
  <2>2. used \in [Seqs -> Nat] /\ base \in [Seqs -> Nat] /\ at \in 0..K /\ syncs \in 0..MaxSync
    OBVIOUS
  <2>3. given \in [Seqs -> SUBSET Bigint] /\ fresh \in [Seqs -> SUBSET Bigint]
    OBVIOUS
  <2> QED
    BY <2>1, <2>2, <2>3 DEF SyncTypeOK
<1>3. SourceInv /\ ReadInv /\ TargetInv
  BY DEF SourceInv, ReadInv, TargetInv
<1> QED
  BY <1>2, <1>3 DEF SyncInv

\* Steps are positive, and distances are integers.
LEMMA Distances ==
  ASSUME NEW s \in Seqs
  PROVE  /\ Step(s) \in Nat /\ Step(s) > 0
         /\ \A v \in Int : Ord(s, v) \in Int
BY SyncAssumption DEF Step, Ord, Seqs, Bigint

\* What nextval returns lies one step on.
LEMMA NextIsLater ==
  ASSUME NEW s \in Seqs, NEW q \in Value
  PROVE  /\ NextVal(q, s) \in Int
         /\ q.called => Ord(s, NextVal(q, s)) = Ord(s, q.last) + Step(s)
         /\ ~q.called => NextVal(q, s) = q.last
BY SyncAssumption DEF NextVal, Ord, Step, Seqs, Value, Bigint

\* The offset moves a value by as much.
LEMMA OffsetIsLater ==
  ASSUME NEW s \in Seqs, NEW v \in Bigint, Fits(v, Delta(s))
  PROVE  v + Delta(s) \in Bigint /\ Ord(s, v + Delta(s)) = Ord(s, v) + Offset
BY SyncAssumption DEF Fits, Delta, Ord, Bigint, Seqs

LEMMA SyncStep == SyncInv /\ [SyncNext]_syncVars => SyncInv'
<1> SUFFICES ASSUME SyncInv, [SyncNext]_syncVars PROVE SyncInv'
  OBVIOUS
<1> USE SyncAssumption DEF SyncInv
<1>1. ASSUME NEW s \in Seqs, SourceNext(s) PROVE SyncInv'
  <2> DEFINE v == NextVal(src[s], s)
             q == [last |-> v, called |-> TRUE]
  <2>0. Step(s) \in Nat /\ Step(s) > 0
    BY Distances
  <2>1. /\ v \in Bigint /\ src' = [src EXCEPT ![s] = q]
        /\ given' = [given EXCEPT ![s] = @ \cup {v}]
        /\ used' = [used EXCEPT ![s] = @ + Step(s)]
        /\ UNCHANGED <<tgt, fresh, set, base, read, at, syncs>>
    BY <1>1 DEF SourceNext
  <2>2. src[s] \in Value
    BY DEF SyncTypeOK
  <2>3. q \in Value /\ q.last = v /\ q.called
    BY <2>1 DEF Value
  <2>4. Ord(s, v) = used[s]
    <3>1. CASE src[s].called
      <4>1. Ord(s, v) = Ord(s, src[s].last) + Step(s)
        BY <2>2, <3>1, NextIsLater
      <4>2. Ord(s, src[s].last) = used[s] - Step(s)
        BY <3>1 DEF SourceInv
      <4>3. used[s] \in Nat /\ Step(s) \in Nat
        BY <2>0 DEF SyncTypeOK
      <4> QED
        BY <4>1, <4>2, <4>3
    <3>2. CASE ~src[s].called
      BY <2>2, <3>2, NextIsLater DEF SourceInv, Ord
    <3> QED
      BY <3>1, <3>2
  <2> HIDE DEF v, q
  <2>5. SyncTypeOK'
    BY <2>0, <2>1, <2>3 DEF SyncTypeOK
  <2>6. SourceInv'
    <3> SUFFICES ASSUME NEW r \in Seqs
                 PROVE  /\ \A u \in given'[r] : Ord(r, u) < used'[r]
                        /\ src'[r].called => Ord(r, src'[r].last) = used'[r] - Step(r)
                        /\ ~src'[r].called => src'[r].last = First /\ used'[r] = 0
      BY DEF SourceInv
    <3>1. CASE r # s
      BY <2>1, <3>1 DEF SourceInv, SyncTypeOK
    <3>2. CASE r = s
      <4>1. src'[s] = q /\ given'[s] = given[s] \cup {v} /\ used'[s] = used[s] + Step(s) /\ used[s] \in Nat
        BY <2>1 DEF SyncTypeOK
      <4>2. \A u \in given[s] : Ord(s, u) \in Int /\ Ord(s, u) < used[s]
        BY DEF SourceInv, SyncTypeOK, Ord, Bigint
      <4> QED
        BY <2>0, <2>3, <2>4, <3>2, <4>1, <4>2
    <3> QED
      BY <3>1, <3>2
  <2>7. ReadInv' /\ TargetInv'
    BY <2>1 DEF ReadInv, TargetInv
  <2> QED
    BY <2>5, <2>6, <2>7
<1>2. ASSUME NEW s \in Seqs, TargetNext(s) PROVE SyncInv'
  <2> DEFINE v == NextVal(tgt[s], s)
             q == [last |-> v, called |-> TRUE]
  <2>0. Step(s) \in Nat /\ Step(s) > 0
    BY Distances
  <2>1. /\ v \in Bigint /\ s \in set /\ tgt' = [tgt EXCEPT ![s] = q]
        /\ fresh' = [fresh EXCEPT ![s] = @ \cup {v}]
        /\ UNCHANGED <<src, given, used, set, base, read, at, syncs>>
    BY <1>2 DEF TargetNext
  <2>2. tgt[s] \in Value
    BY DEF SyncTypeOK
  <2>3. q \in Value /\ q.last = v /\ q.called
    BY <2>1 DEF Value
  <2>4. Ord(s, v) >= base[s] + Offset
    <3>1. /\ tgt[s].called => Ord(s, v) = Ord(s, tgt[s].last) + Step(s)
          /\ ~tgt[s].called => v = tgt[s].last
      BY <2>2, NextIsLater
    <3>2. /\ tgt[s].called => Ord(s, tgt[s].last) >= base[s] - Step(s) + Offset
          /\ ~tgt[s].called => Ord(s, tgt[s].last) >= base[s] + Offset
      BY <2>1 DEF TargetInv
    <3>3. base[s] \in Nat /\ tgt[s].last \in Int
      BY <2>2 DEF SyncTypeOK, Value, Bigint
    <3>4. Ord(s, tgt[s].last) \in Int
      BY <3>3, Distances
    <3> QED
      BY <2>0, <3>1, <3>2, <3>3, <3>4
  <2> HIDE DEF v, q
  <2>5. SyncTypeOK'
    BY <2>1, <2>3 DEF SyncTypeOK
  <2>6. SourceInv' /\ ReadInv'
    BY <2>1 DEF SourceInv, ReadInv
  <2>7. TargetInv'
    <3> SUFFICES ASSUME NEW r \in set
                 PROVE  /\ \A u \in fresh'[r] : Ord(r, u) >= base[r] + Offset
                        /\ tgt'[r].called => Ord(r, tgt'[r].last) >= base[r] - Step(r) + Offset
                        /\ ~tgt'[r].called => Ord(r, tgt'[r].last) >= base[r] + Offset
      BY <2>1 DEF TargetInv
    <3>1. r \in Seqs
      BY DEF SyncTypeOK
    <3>2. CASE r # s
      BY <2>1, <3>1, <3>2 DEF TargetInv, SyncTypeOK
    <3>3. CASE r = s
      <4>1. tgt'[s] = q /\ fresh'[s] = fresh[s] \cup {v} /\ base[s] \in Nat
        BY <2>1 DEF SyncTypeOK
      <4>2. \A u \in fresh[s] : Ord(s, u) >= base[s] + Offset
        BY <2>1 DEF TargetInv
      <4>3. v \in Int
        BY <2>1 DEF Bigint
      <4>4. Ord(s, v) \in Int
        BY <4>3, Distances
      <4>5. Ord(s, v) >= base[s] - Step(s) + Offset
        BY <2>0, <2>4, <4>1, <4>4
      <4> QED
        BY <2>3, <2>4, <3>3, <4>1, <4>2, <4>5
    <3> QED
      BY <3>2, <3>3
  <2> QED
    BY <2>5, <2>6, <2>7
<1>3. CASE SyncStart
  <2>1. SyncTypeOK'
    BY <1>3 DEF SyncStart, SyncTypeOK
  <2>2. read = NoRead
    BY <1>3 DEF SyncStart, ReadInv, SyncTypeOK, Seqs, NoRead
  <2> QED
    BY <1>3, <2>1, <2>2 DEF SyncStart, SourceInv, ReadInv, TargetInv
<1>4. CASE SyncRead
  <2>1. SourceInv' /\ TargetInv'
    BY <1>4 DEF SyncRead, SourceInv, TargetInv
  <2>2. CASE Fits(src[at].last, Delta(at))
    <3> DEFINE r == [at |-> at, value |-> src[at].last + Delta(at),
                     called |-> src[at].called, used |-> used[at]]
    <3>1. read' = r /\ at \in Seqs /\ src[at] \in Value
          /\ UNCHANGED <<src, tgt, given, used, fresh, set, base, syncs, at>>
      BY <1>4, <2>2 DEF SyncRead, SyncTypeOK
    <3>0. Step(at) \in Nat /\ Step(at) > 0
      BY <3>1, Distances
    <3>2. src[at].last \in Bigint /\ src[at].called \in BOOLEAN
      BY <3>1 DEF Value
    <3>3. /\ r.value \in Bigint
          /\ Ord(at, r.value) = Ord(at, src[at].last) + Offset
      BY <2>2, <3>1, <3>2, OffsetIsLater
    <3>4. r \in ReadType /\ r.at = at /\ r.used = used[at] /\ r.called = src[at].called
      BY <3>1, <3>2, <3>3 DEF ReadType, SyncTypeOK
    <3> HIDE DEF r
    <3>5. SyncTypeOK'
      BY <3>1, <3>4 DEF SyncTypeOK, ReadType
    <3>6. ReadInv'
      <4>1. /\ src[at].called => Ord(at, src[at].last) = used[at] - Step(at)
            /\ ~src[at].called => src[at].last = First /\ used[at] = 0
        BY <3>1 DEF SourceInv
      <4>2. Ord(at, First) = 0
        BY DEF Ord, Bigint
      <4>3. used[at] \in Nat
        BY <3>1 DEF SyncTypeOK
      <4>4. /\ r.called => Ord(at, r.value) = r.used - Step(at) + Offset
            /\ ~r.called => Ord(at, r.value) = r.used + Offset
        BY <3>0, <3>2, <3>3, <3>4, <4>1, <4>2, <4>3
      <4> QED
        BY <3>1, <3>4, <4>4 DEF ReadInv
    <3> QED
      BY <2>1, <3>5, <3>6
  <2>3. CASE ~Fits(src[at].last, Delta(at))
    BY <1>4, <2>1, <2>3 DEF SyncRead, SyncTypeOK, ReadInv
  <2> QED
    BY <2>2, <2>3
<1>5. CASE SyncSet
  <2> DEFINE q == [last |-> read.value, called |-> read.called]
  <2>1. read \in ReadType /\ at \in Seqs /\ read.at = at
    BY <1>5 DEF SyncSet, SyncTypeOK, ReadType, ReadInv
  <2>2. /\ tgt' = [tgt EXCEPT ![at] = q]
        /\ base' = [base EXCEPT ![at] = read.used]
        /\ fresh' = [fresh EXCEPT ![at] = {}] /\ set' = set \cup {at}
        /\ read' = NoRead /\ at' \in 0..K
        /\ UNCHANGED <<src, given, used, syncs>>
    BY <1>5, <2>1 DEF SyncSet, Seqs
  <2>3. q \in Value /\ q.last = read.value /\ q.called = read.called /\ read.used \in Nat
    BY <2>1 DEF Value, ReadType
  <2> HIDE DEF q
  <2>4. SyncTypeOK'
    BY <2>1, <2>2, <2>3 DEF SyncTypeOK
  <2>5. SourceInv' /\ ReadInv'
    BY <2>2 DEF SourceInv, ReadInv
  <2>6. TargetInv'
    <3>0. Step(at) \in Nat /\ Step(at) > 0
      BY <2>1, Distances
    <3>1. read # NoRead
      BY <1>5 DEF SyncSet
    <3>2. /\ q.called => Ord(at, q.last) >= read.used - Step(at) + Offset
          /\ ~q.called => Ord(at, q.last) >= read.used + Offset
      BY <2>1, <2>3, <3>0, <3>1 DEF ReadInv, ReadType, Ord, Bigint
    <3> QED
      BY <2>1, <2>2, <2>3, <3>2 DEF TargetInv, SyncTypeOK
  <2> QED
    BY <2>4, <2>5, <2>6
<1>6. CASE SyncStop
  BY <1>6 DEF SyncStop, SyncTypeOK, SourceInv, ReadInv, TargetInv
<1>7. CASE UNCHANGED syncVars
  BY <1>7 DEF syncVars, SyncTypeOK, SourceInv, ReadInv, TargetInv
<1> QED
  BY <1>1, <1>2, <1>3, <1>4, <1>5, <1>6, <1>7 DEF SyncNext

\* The invariant holds in every reachable state.
LEMMA SyncInvariant == SyncSpec => []SyncInv
BY SyncBegins, SyncStep, PTL DEF SyncSpec

\* Every reachable state is well typed: the overflow check keeps what the
\* target is set to, in either direction, inside bigint.
THEOREM SyncTypeCorrect == SyncSpec => []SyncTypeOK
BY SyncInvariant, PTL DEF SyncInv

\* While the source has moved no further than the offset since its value was read,
\* the values of the target since it was set are none of the source's.
THEOREM OffsetIsRoomAlways == SyncSpec => []OffsetIsRoom
<1>1. SyncInv => OffsetIsRoom
  <2> SUFFICES ASSUME SyncInv, NEW s \in Seqs, s \in set, used[s] - base[s] <= Offset,
                      NEW v \in fresh[s], v \in given[s]
               PROVE  FALSE
    BY DEF OffsetIsRoom
  <2>1. Ord(s, v) < used[s] /\ Ord(s, v) >= base[s] + Offset
    BY DEF SyncInv, SourceInv, TargetInv
  <2>2. Ord(s, v) \in Int /\ used[s] \in Nat /\ base[s] \in Nat
    BY SyncAssumption DEF Ord, SyncInv, SyncTypeOK, Bigint
  <2> QED
    BY <2>1, <2>2, SyncAssumption
<1> QED
  BY <1>1, SyncInvariant, PTL
=============================================================================
