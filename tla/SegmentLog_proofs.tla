-------------------------- MODULE SegmentLog_proofs --------------------------
(***************************************************************************)
(* Proofs about SegmentLog, for every number of transactions, channel      *)
(* capacity, prune limit and number of crashes and dropped connections.    *)
(***************************************************************************)
EXTENDS SegmentLog, SequenceTheorems, TLAPS

-----------------------------------------------------------------------------
(***************************************************************************)
(* Type correctness.  A batch is committed only when it has a last         *)
(* transaction, and a writer step is about a segment or frame that exists. *)
(***************************************************************************)
BatchStep == apc = "apply" => batch # << >>
WriterStep == /\ wpc # "idle" => up /\ wcur # 0
              /\ wpc = "frame" => wtail # 0

TypeInv == TypeOK /\ BatchStep /\ WriterStep

\* The facts about positions that the type proof needs.
LEMMA Positions ==
  /\ N \in Nat /\ 0 \in LSN
  /\ \A x \in LSN : x \in Int /\ x >= 0 /\ x <= N
  /\ \A x \in Tx : x \in LSN /\ x # 0
  /\ \A x \in LSN : x # 0 => x \in Tx
  /\ \A x \in LSN : x < N => x + 1 \in Tx
  /\ \A a, b \in LSN : Later(a, b) \in LSN
BY ConstAssumption DEF Tx, LSN, Later

\* A crash keeps a prefix of the log.
LEMMA Prefix == \A a, b \in LSN : \A k \in a..b : k \in LSN
BY ConstAssumption DEF LSN

\* The sequence operations of the channel and the batch.
LEMMA AppendSeq ==
  \A q \in Seq(Tx) : \A t \in Tx : Append(q, t) \in Seq(Tx) /\ Append(q, t) # << >>
BY AppendProperties

LEMMA SeqParts ==
  \A q \in Seq(Tx) : q # << >> => Head(q) \in Tx /\ Tail(q) \in Seq(Tx)
OBVIOUS

LEMMA LastOfBatch ==
  \A q \in Seq(Tx) : q # << >> => q[Len(q)] \in Tx
OBVIOUS

\* What a step leaves alone keeps its type.
LEMMA UnchangedTypes ==
  /\ SrcType /\ UNCHANGED srcVars => SrcType'
  /\ RecvType /\ UNCHANGED recvVars => RecvType'
  /\ WrType /\ UNCHANGED wrVars => WrType'
  /\ DiskType /\ UNCHANGED diskVars => DiskType'
  /\ PrType /\ UNCHANGED prVars => PrType'
  /\ RdType /\ UNCHANGED rdVars => RdType'
  /\ ApType /\ UNCHANGED apVars => ApType'
  /\ TgtType /\ UNCHANGED tgtVars => TgtType'
  /\ EnvType /\ UNCHANGED envVars => EnvType'
  /\ BatchStep /\ UNCHANGED apVars => BatchStep'
  /\ WriterStep /\ UNCHANGED <<wrVars, up>> => WriterStep'
BY DEF SrcType, RecvType, WrType, DiskType, PrType, RdType, ApType, TgtType,
   EnvType, srcVars, recvVars, wrVars, diskVars, prVars, rdVars, apVars,
   tgtVars, envVars, BatchStep, WriterStep

\* Receive, whatever it does with t, keeps the applier's variables in type.
LEMMA ReceiveType ==
  ASSUME ApType, apc = "read", NEW t \in Tx, Receive(t)
  PROVE  /\ apc' \in {"read", "apply"} /\ batch' \in Seq(Tx) /\ rpend' \in LSN
         /\ apc' = "apply" => batch' # << >>
<1>1. CASE t <= progress /\ rpend' = 0 /\ UNCHANGED <<apc, batch>>
  BY <1>1, Positions DEF ApType
<1>2. CASE /\ t > progress /\ batch' = Append(batch, t)
           /\ rpend' = 0 /\ apc' \in {"read", "apply"}
  BY <1>2, AppendSeq, Positions DEF ApType
<1>3. CASE /\ t > progress /\ batch # << >> /\ rpend' = t
           /\ apc' = "apply" /\ UNCHANGED batch
  BY <1>3, Positions DEF ApType
<1> QED
  BY <1>1, <1>2, <1>3 DEF Receive

LEMMA TypeInit == Init => TypeInv
<1> SUFFICES ASSUME Init PROVE TypeInv
  OBVIOUS
<1> USE Positions, ConstAssumption DEF Init, VolatileInit
<1>1. SrcType /\ RecvType
  BY DEF SrcType, RecvType
<1>2. WrType /\ WriterStep
  BY DEF WrType, WriterStep
<1>3. DiskType
  BY DEF DiskType
<1>4. PrType /\ RdType
  BY DEF PrType, RdType
<1>5. ApType /\ BatchStep
  BY DEF ApType, BatchStep
<1>6. TgtType
  BY DEF TgtType
<1>7. EnvType
  <2>1. crashes \in 0..MaxCrash /\ drops \in 0..MaxDrop
    OBVIOUS
  <2>2. up = FALSE
    OBVIOUS
  <2> QED
    BY <2>1, <2>2, Zenon DEF EnvType
<1> QED
  BY <1>1, <1>2, <1>3, <1>4, <1>5, <1>6, <1>7 DEF TypeInv, TypeOK

LEMMA TypeNext == TypeInv /\ [Next]_vars => TypeInv'
<1> SUFFICES ASSUME TypeInv, [Next]_vars PROVE TypeInv'
  OBVIOUS
<1> USE UnchangedTypes, Positions DEF TypeInv, TypeOK
<1>1. CASE SourceCommit
  <2>1. SrcType'
    BY <1>1 DEF SourceCommit, SrcType
  <2> QED
    BY <1>1, <2>1 DEF SourceCommit, envVars
<1>2. CASE StartSession
  <2>1. RecvType'
    BY <1>2 DEF StartSession, RecvType, SrcType, WrType
  <2> QED
    BY <1>2, <2>1 DEF StartSession, envVars
<1>3. CASE DropSession
  <2>1. RecvType'
    BY <1>3 DEF DropSession, CountDrop, RecvType
  <2>2. EnvType'
    BY <1>3, ConstAssumption DEF DropSession, CountDrop, EnvType
  <2> QED
    BY <1>3, <2>1, <2>2 DEF DropSession, CountDrop, envVars
<1>4. CASE Deliver
  <2>1. RecvType'
    BY <1>4, AppendSeq DEF Deliver, RecvType, SrcType
  <2> QED
    BY <1>4, <2>1 DEF Deliver, envVars
<1>5. CASE Feedback
  <2>1. SrcType'
    BY <1>5 DEF Feedback, SrcType, WrType
  <2> QED
    BY <1>5, <2>1 DEF Feedback, envVars
<1>6. CASE DiscardDuplicate
  <2>1. RecvType'
    BY <1>6, SeqParts DEF DiscardDuplicate, RecvType
  <2>2. WrType'
    BY <1>6 DEF DiscardDuplicate, WrType, WriterStep
  <2>3. WriterStep'
    BY <1>6 DEF DiscardDuplicate, WrType, WriterStep, envVars
  <2> QED
    BY <1>6, <2>1, <2>2, <2>3 DEF DiscardDuplicate, envVars
<1>7. CASE BeginFrame
  <2>1. RecvType'
    BY <1>7, SeqParts DEF BeginFrame, RecvType
  <2>2. WrType'
    BY <1>7, SeqParts DEF BeginFrame, WrType, RecvType, WriterStep
  <2>3. WriterStep'
    BY <1>7, SeqParts DEF BeginFrame, WrType, RecvType, WriterStep, envVars
  <2>4. DiskType'
    BY <1>7, SeqParts DEF BeginFrame, DiskType, RecvType
  <2> QED
    BY <1>7, <2>1, <2>2, <2>3, <2>4 DEF BeginFrame, envVars
<1>8. CASE FinishFrame
  <2>1. WrType'
    BY <1>8 DEF FinishFrame, WrType, WriterStep
  <2>2. WriterStep'
    BY <1>8 DEF FinishFrame, WrType, WriterStep, envVars
  <2>3. DiskType'
    BY <1>8 DEF FinishFrame, DiskType, WrType, WriterStep
  <2> QED
    BY <1>8, <2>1, <2>2, <2>3 DEF FinishFrame, envVars
<1>9. CASE RotateSync
  <2>1. WrType'
    BY <1>9 DEF RotateSync, WrType, WriterStep
  <2>2. WriterStep'
    BY <1>9 DEF RotateSync, WrType, WriterStep, envVars
  <2>3. DiskType'
    BY <1>9 DEF RotateSync, DiskType, WrType, WriterStep
  <2> QED
    BY <1>9, <2>1, <2>2, <2>3 DEF RotateSync, envVars
<1>10. CASE RotateRename
  <2>1. WrType'
    BY <1>10 DEF RotateRename, WrType, WriterStep
  <2>2. WriterStep'
    BY <1>10 DEF RotateRename, WrType, WriterStep, envVars
  <2>3. DiskType'
    BY <1>10 DEF RotateRename, DiskType, WrType, WriterStep
  <2> QED
    BY <1>10, <2>1, <2>2, <2>3 DEF RotateRename, envVars
<1>11. CASE RotateDirSync
  <2>1. WrType'
    BY <1>11 DEF RotateDirSync, WrType, WriterStep
  <2>2. WriterStep'
    BY <1>11 DEF RotateDirSync, WrType, WriterStep, envVars
  <2>3. DiskType'
    BY <1>11 DEF RotateDirSync, DiskType
  <2>4. PrType'
    BY <1>11 DEF RotateDirSync, PrType, WrType, WriterStep
  <2> QED
    BY <1>11, <2>1, <2>2, <2>3, <2>4 DEF RotateDirSync, envVars
<1>12. CASE PersisterSync
  <2>1. WrType'
    BY <1>12 DEF PersisterSync, WrType, WriterStep
  <2>2. WriterStep'
    BY <1>12 DEF PersisterSync, WrType, WriterStep, envVars
  <2>3. DiskType'
    BY <1>12 DEF PersisterSync, DiskType, WrType, WriterStep
  <2> QED
    BY <1>12, <2>1, <2>2, <2>3 DEF PersisterSync, envVars
<1>13. CASE ApplierConnect
  <2>1. PrType'
    BY <1>13 DEF ApplierConnect, PrType, TgtType
  <2>2. RdType'
    BY <1>13 DEF ApplierConnect, RdType, WrType, DiskType
  <2>3. ApType'
    BY <1>13 DEF ApplierConnect, ApType, TgtType
  <2>4. BatchStep'
    BY <1>13 DEF ApplierConnect, ApType, TgtType, BatchStep
  <2> QED
    BY <1>13, <2>1, <2>2, <2>3, <2>4 DEF ApplierConnect, envVars
<1>14. CASE Refresh
  <2>1. RdType'
    BY <1>14 DEF Refresh, RdType, WrType, DiskType
  <2>2. ApType'
    BY <1>14 DEF Refresh, ApType
  <2>3. BatchStep'
    BY <1>14 DEF Refresh, ApType, BatchStep
  <2> QED
    BY <1>14, <2>1, <2>2, <2>3 DEF Refresh, envVars
<1>15. CASE ReaderOpen
  <2>1. RdType'
    BY <1>15 DEF ReaderOpen, RdType
  <2> QED
    BY <1>15, <2>1 DEF ReaderOpen, envVars
<1>16. CASE ReaderRelist
  <2>1. RdType'
    BY <1>16 DEF ReaderRelist, RdType, DiskType
  <2> QED
    BY <1>16, <2>1 DEF ReaderRelist, envVars
<1>17. CASE ReaderFrame
  <2>1. RdType'
    BY <1>17, ReceiveType DEF ReaderFrame, Reading, NextFrame, RdType,
       DiskType
  <2>2. ApType'
    BY <1>17, ReceiveType DEF ReaderFrame, Reading, NextFrame, ApType,
       DiskType
  <2>3. BatchStep'
    BY <1>17, ReceiveType DEF ReaderFrame, Reading, NextFrame, ApType,
       DiskType, BatchStep
  <2> QED
    BY <1>17, <2>1, <2>2, <2>3 DEF ReaderFrame, Reading, NextFrame, envVars
<1>18. CASE ReaderGate
  <2>1. RdType'
    BY <1>18 DEF ReaderGate, Reading, NextFrame, EndOfInput, RdType, DiskType
  <2>2. ApType'
    BY <1>18 DEF ReaderGate, Reading, NextFrame, EndOfInput, ApType
  <2>3. BatchStep'
    BY <1>18 DEF ReaderGate, Reading, NextFrame, EndOfInput, ApType, BatchStep
  <2> QED
    BY <1>18, <2>1, <2>2, <2>3 DEF ReaderGate, Reading, NextFrame, EndOfInput,
       envVars
<1>19. CASE ReaderPending
  <2>1. RdType'
    BY <1>19, ReceiveType DEF ReaderPending, Reading, EndOfInput, RdType
  <2>2. ApType'
    BY <1>19, ReceiveType DEF ReaderPending, Reading, EndOfInput, ApType,
       RdType
  <2>3. BatchStep'
    BY <1>19, ReceiveType DEF ReaderPending, Reading, EndOfInput, ApType,
       RdType, BatchStep
  <2> QED
    BY <1>19, <2>1, <2>2, <2>3 DEF ReaderPending, Reading, EndOfInput, envVars
<1>20. CASE ReaderNextSegment
  <2>1. RdType'
    BY <1>20 DEF ReaderNextSegment, RdType
  <2> QED
    BY <1>20, <2>1 DEF ReaderNextSegment, envVars
<1>21. CASE ReaderEOF
  <2>1. ApType'
    BY <1>21 DEF ReaderEOF, EndOfInput, ApType
  <2>2. BatchStep'
    BY <1>21 DEF ReaderEOF, EndOfInput, ApType, BatchStep
  <2> QED
    BY <1>21, <2>1, <2>2 DEF ReaderEOF, EndOfInput, envVars
<1>22. CASE ApplyCommit
  <2>1. PrType'
    BY <1>22, LastOfBatch DEF ApplyCommit, TargetCommit, PrType, ApType,
       BatchStep
  <2>2. ApType'
    BY <1>22, LastOfBatch DEF ApplyCommit, TargetCommit, ApType, BatchStep
  <2>3. BatchStep'
    BY <1>22, LastOfBatch DEF ApplyCommit, TargetCommit, ApType, BatchStep,
       BatchStep
  <2>4. TgtType'
    BY <1>22, LastOfBatch DEF ApplyCommit, TargetCommit, TgtType, ApType,
       BatchStep
  <2> QED
    BY <1>22, <2>1, <2>2, <2>3, <2>4 DEF ApplyCommit, TargetCommit, envVars
<1>23. CASE ApplyLostAck
  <2>1. RdType'
    BY <1>23 DEF ApplyLostAck, TargetCommit, ApplierReset, CountDrop, RdType
  <2>2. ApType'
    BY <1>23 DEF ApplyLostAck, TargetCommit, ApplierReset, CountDrop, ApType
  <2>3. BatchStep'
    BY <1>23 DEF ApplyLostAck, TargetCommit, ApplierReset, CountDrop, ApType,
       BatchStep
  <2>4. TgtType'
    BY <1>23, LastOfBatch DEF ApplyLostAck, TargetCommit, ApplierReset,
       CountDrop, TgtType, ApType, BatchStep
  <2>5. EnvType'
    BY <1>23, ConstAssumption DEF ApplyLostAck, TargetCommit, ApplierReset,
       CountDrop, EnvType
  <2> QED
    BY <1>23, <2>1, <2>2, <2>3, <2>4, <2>5 DEF ApplyLostAck, TargetCommit,
       ApplierReset, CountDrop, envVars
<1>24. CASE ApplierDrop
  <2>1. RdType'
    BY <1>24 DEF ApplierDrop, ApplierReset, CountDrop, RdType
  <2>2. ApType'
    BY <1>24 DEF ApplierDrop, ApplierReset, CountDrop, ApType
  <2>3. BatchStep'
    BY <1>24 DEF ApplierDrop, ApplierReset, CountDrop, ApType, BatchStep
  <2>4. EnvType'
    BY <1>24, ConstAssumption DEF ApplierDrop, ApplierReset, CountDrop,
       EnvType
  <2> QED
    BY <1>24, <2>1, <2>2, <2>3, <2>4 DEF ApplierDrop, ApplierReset, CountDrop,
       envVars
<1>25. CASE PruneRemove
  <2>1. DiskType'
    BY <1>25 DEF PruneRemove, Removable, Eligible, DiskType, PrType
  <2>2. PrType'
    BY <1>25 DEF PruneRemove, Removable, Eligible, PrType
  <2> QED
    BY <1>25, <2>1, <2>2 DEF PruneRemove, Removable, Eligible, envVars
<1>26. CASE PruneDirSync
  <2>1. DiskType'
    BY <1>26 DEF PruneDirSync, DiskType
  <2>2. PrType'
    BY <1>26 DEF PruneDirSync, PrType
  <2> QED
    BY <1>26, <2>1, <2>2 DEF PruneDirSync, envVars
<1>27. CASE Exit
  <2>1. RecvType'
    BY <1>27 DEF Exit, Down, VolatileReset, ApplierReset, RecvType
  <2>2. WrType'
    BY <1>27 DEF Exit, Down, VolatileReset, ApplierReset, WrType, WriterStep
  <2>3. WriterStep'
    BY <1>27 DEF Exit, Down, VolatileReset, ApplierReset, WrType, WriterStep,
       envVars
  <2>4. DiskType'
    BY <1>27 DEF Exit, Down, VolatileReset, ApplierReset, DiskType, WrType,
       WriterStep
  <2>5. PrType'
    BY <1>27 DEF Exit, Down, VolatileReset, ApplierReset, PrType
  <2>6. RdType'
    BY <1>27 DEF Exit, Down, VolatileReset, ApplierReset, RdType
  <2>7. ApType'
    BY <1>27 DEF Exit, Down, VolatileReset, ApplierReset, ApType
  <2>8. BatchStep'
    BY <1>27 DEF Exit, Down, VolatileReset, ApplierReset, ApType, BatchStep
  <2>9. EnvType'
    <3>1. up' = FALSE
      BY <1>27 DEF Exit, Down
    <3>2. crashes' \in 0..MaxCrash /\ drops' \in 0..MaxDrop
      BY <1>27, ConstAssumption DEF Exit, Down, EnvType
    <3> QED
      BY <3>1, <3>2, Zenon DEF EnvType
  <2> QED
    BY <1>27, <2>1, <2>2, <2>3, <2>4, <2>5, <2>6, <2>7, <2>8, <2>9 DEF Exit,
       Down, VolatileReset, ApplierReset, envVars
<1>28. CASE Crash
  <2>1. RecvType'
    BY <1>28 DEF Crash, Down, VolatileReset, ApplierReset, RecvType
  <2>2. WrType'
    BY <1>28, Prefix DEF Crash, Down, VolatileReset, ApplierReset, WrType,
       DiskType, WriterStep
  <2>3. WriterStep'
    BY <1>28, Prefix DEF Crash, Down, VolatileReset, ApplierReset, WrType,
       DiskType, WriterStep, envVars
  <2>4. DiskType'
    BY <1>28 DEF Crash, Down, VolatileReset, ApplierReset, DiskType
  <2>5. PrType'
    BY <1>28 DEF Crash, Down, VolatileReset, ApplierReset, PrType
  <2>6. RdType'
    BY <1>28 DEF Crash, Down, VolatileReset, ApplierReset, RdType
  <2>7. ApType'
    BY <1>28 DEF Crash, Down, VolatileReset, ApplierReset, ApType
  <2>8. BatchStep'
    BY <1>28 DEF Crash, Down, VolatileReset, ApplierReset, ApType, BatchStep
  <2>9. EnvType'
    <3>1. up' = FALSE
      BY <1>28 DEF Crash, Down
    <3>2. crashes' \in 0..MaxCrash /\ drops' \in 0..MaxDrop
      BY <1>28, ConstAssumption DEF Crash, Down, EnvType
    <3> QED
      BY <3>1, <3>2, Zenon DEF EnvType
  <2> QED
    BY <1>28, <2>1, <2>2, <2>3, <2>4, <2>5, <2>6, <2>7, <2>8, <2>9 DEF Crash,
       Down, VolatileReset, ApplierReset, envVars
<1>29. CASE Restart
  <2>1. WrType'
    BY <1>29 DEF Restart, WrType, DiskType, WriterStep
  <2>2. WriterStep'
    BY <1>29 DEF Restart, WrType, DiskType, WriterStep, envVars
  <2>3. DiskType'
    BY <1>29 DEF Restart, DiskType
  <2>4. PrType'
    BY <1>29 DEF Restart, PrType, DiskType
  <2>5. EnvType'
    BY <1>29 DEF Restart, EnvType
  <2> QED
    BY <1>29, <2>1, <2>2, <2>3, <2>4, <2>5 DEF Restart, envVars
<1>30. CASE UNCHANGED vars
  BY <1>30 DEF vars, envVars
<1> QED
  BY <1>1, <1>2, <1>3, <1>4, <1>5, <1>6, <1>7, <1>8, <1>9, <1>10, <1>11,
     <1>12, <1>13, <1>14, <1>15, <1>16, <1>17, <1>18, <1>19, <1>20, <1>21,
     <1>22, <1>23, <1>24, <1>25, <1>26, <1>27, <1>28, <1>29, <1>30 DEF Next,
     Receiver, Persister, Applier, Pruner, Fault

\* The specification keeps every variable in its type.
THEOREM TypeCorrect == Spec => []TypeOK
<1>1. Init => TypeInv
  BY TypeInit
<1>2. TypeInv /\ [Next]_vars => TypeInv'
  BY TypeNext
<1>3. TypeInv => TypeOK
  BY DEF TypeInv
<1> QED
  BY <1>1, <1>2, <1>3, PTL DEF Spec

-----------------------------------------------------------------------------
(***************************************************************************)
(* The log invariant: what ties the slot, the directory, the writer, the   *)
(* channel, the catalog and the target together.  None of its parts is     *)
(* inductive alone.                                                        *)
(***************************************************************************)
\* Positions are ordered: the slot and the target never pass what is durable,
\* the pruner never passes the target.
OrderInv ==
  /\ confirmed <= synced /\ synced <= wlast
  /\ latest <= target /\ target <= synced
  /\ up => /\ confirmed <= watermark /\ target <= watermark
           /\ watermark <= wdur /\ wdur = synced

\* A file holds the consecutive frames that start with the one naming it,
FilesInv ==
  \A s \in Tx : \A f \in frames[s] :
    /\ s <= f /\ f <= wlast
    /\ \A t \in Tx : s <= t /\ t <= f => t \in frames[s]

\* and ends before any later file starts.
DisjointInv ==
  \A s, d \in Tx :
    s < d /\ (d \in names \/ d \in frames[d]) => \A f \in frames[s] : f < d

\* A finalized file is not empty and entirely durable.
FinalInv == \A s \in final : s \in frames[s] /\ \A f \in frames[s] : f <= synced

\* A partial file is the newest name, removed ones that may return included,
\* and continues the log without a gap up to the last frame.  Until its first
\* frame is durable the file before it is kept.
PartialInv ==
  \A p \in names \ final :
    /\ \A s \in names \cup unlinked : s <= p
    /\ p <= synced + 1
    /\ \A t \in Tx : p <= t /\ t <= wlast => t \in frames[p]
    /\ p = 1 \/ (p \in frames[p] /\ p <= synced)
         \/ \E s \in names \cap final : p - 1 \in frames[s]

\* Every transaction of the log that the target lacks is in a file with a name,
\* and so is the last one.
KeptInv ==
  /\ \A t \in Tx : t <= wlast => t <= target \/ \E s \in names : t \in frames[s]
  /\ wlast # 0 => \E s \in names : wlast \in frames[s]

\* A removed file was finalized.  A rename that may be undone is that of the
\* file with the last frame.
RenameInv ==
  /\ unlinked \subseteq final \ names
  /\ renamed # 0 => /\ renamed \in names \cap final /\ names \subseteq final
                    /\ \A s \in names \cup unlinked : s <= renamed
                    /\ wlast \in frames[renamed]

\* The writer's open file is the partial one; without it all is durable.
WriterInv ==
  /\ up /\ wtail # 0 => wtail \in names \ final
  /\ up /\ wtail = 0 => names \subseteq final /\ synced = wlast
  /\ wpc = "frame" => wcur = wlast + 1
  /\ wpc \in {"rotate", "rename"} => wcur = wtail /\ wlast \in frames[wcur]
  /\ wpc = "rename" => synced = wlast
  /\ wpc = "dirsync" => /\ wtail = 0 /\ wcur \in names \cap final
                        /\ wlast \in frames[wcur]

\* The last transaction the writer has taken from the channel.
Taken == IF wpc = "frame" THEN wcur ELSE wlast

\* The channel and the session leave no transaction out.
ChanInv ==
  /\ ~up => session = "down" /\ chan = << >>
  /\ \A i \in 1..Len(chan) : \A t \in Tx :
       Taken < t /\ t < chan[i] => \E j \in 1..(i - 1) : chan[j] = t
  /\ session = "up" => \A t \in Tx :
       Taken < t /\ t <= sentTo => \E j \in 1..Len(chan) : chan[j] = t

\* The catalog lists finalized files that are on disk or being removed.
CatalogInv ==
  /\ catalog \subseteq (names \cup prem) \cap final
  /\ ppc = "idle" => prem = {}

\* A batch lies between the target's progress and the durability gate.
GateInv ==
  /\ apc # "down" => up /\ progress = target /\ rdur <= watermark
  /\ apc = "down" => batch = << >>
  /\ \A i \in 1..Len(batch) : progress < batch[i] /\ batch[i] <= rdur

LogParts ==
  /\ OrderInv
  /\ FilesInv /\ DisjointInv /\ FinalInv /\ PartialInv /\ KeptInv /\ RenameInv
  /\ WriterInv /\ ChanInv /\ CatalogInv /\ GateInv

LogInv == TypeInv /\ LogParts

\* What a step leaves alone keeps the invariants about it.
LEMMA UnchangedParts ==
  /\ OrderInv /\ UNCHANGED <<confirmed, synced, wlast, latest, target, up,
                             watermark, wdur>> => OrderInv'
  /\ FilesInv /\ UNCHANGED <<frames, wlast>> => FilesInv'
  /\ DisjointInv /\ UNCHANGED <<names, frames>> => DisjointInv'
  /\ FinalInv /\ UNCHANGED <<final, frames, synced>> => FinalInv'
  /\ PartialInv /\ UNCHANGED <<names, final, unlinked, synced, wlast, frames>>
       => PartialInv'
  /\ KeptInv /\ UNCHANGED <<wlast, target, names, frames>> => KeptInv'
  /\ RenameInv /\ UNCHANGED <<unlinked, final, renamed, names, frames, wlast>>
       => RenameInv'
  /\ WriterInv /\ UNCHANGED <<up, wtail, names, final, synced, wlast, wpc, wcur,
                              frames>> => WriterInv'
  /\ ChanInv /\ UNCHANGED <<up, session, chan, wpc, wcur, wlast, sentTo>>
       => ChanInv'
  /\ CatalogInv /\ UNCHANGED <<catalog, names, prem, final, ppc>> => CatalogInv'
  /\ GateInv /\ UNCHANGED <<apc, up, progress, target, rdur, watermark, batch>>
       => GateInv'
<1>1. OrderInv /\ UNCHANGED <<confirmed, synced, wlast, latest, target, up,
                             watermark, wdur>> => OrderInv'
  BY DEF OrderInv
<1>2. /\ FilesInv /\ UNCHANGED <<frames, wlast>> => FilesInv'
      /\ DisjointInv /\ UNCHANGED <<names, frames>> => DisjointInv'
      /\ FinalInv /\ UNCHANGED <<final, frames, synced>> => FinalInv'
  BY DEF FilesInv, DisjointInv, FinalInv
<1>3. PartialInv /\ UNCHANGED <<names, final, unlinked, synced, wlast, frames>>
       => PartialInv'
  BY DEF PartialInv
<1>4. KeptInv /\ UNCHANGED <<wlast, target, names, frames>> => KeptInv'
  BY DEF KeptInv
<1>5. RenameInv /\ UNCHANGED <<unlinked, final, renamed, names, frames, wlast>>
       => RenameInv'
  BY DEF RenameInv
<1>6. WriterInv /\ UNCHANGED <<up, wtail, names, final, synced, wlast, wpc, wcur,
                               frames>> => WriterInv'
  BY DEF WriterInv
<1>7. ChanInv /\ UNCHANGED <<up, session, chan, wpc, wcur, wlast, sentTo>>
       => ChanInv'
  BY DEF ChanInv, Taken
<1>8. CatalogInv /\ UNCHANGED <<catalog, names, prem, final, ppc>> => CatalogInv'
  BY DEF CatalogInv
<1>9. GateInv /\ UNCHANGED <<apc, up, progress, target, rdur, watermark, batch>>
       => GateInv'
  BY DEF GateInv
<1> QED
  BY <1>1, <1>2, <1>3, <1>4, <1>5, <1>6, <1>7, <1>8, <1>9

LEMMA LogInit == Init => LogInv
<1> SUFFICES ASSUME Init PROVE LogInv
  OBVIOUS
<1> USE DEF Init, VolatileInit
<1>1. TypeInv
  BY TypeInit
<1>2. OrderInv /\ FilesInv /\ DisjointInv /\ FinalInv
  BY DEF OrderInv, FilesInv, DisjointInv, FinalInv
<1>3. PartialInv /\ KeptInv /\ RenameInv
  BY ConstAssumption DEF PartialInv, KeptInv, RenameInv, Tx
<1>4. WriterInv /\ ChanInv
  BY DEF WriterInv, ChanInv
<1>5. CatalogInv /\ GateInv
  BY DEF CatalogInv, GateInv
<1> QED
  BY <1>1, <1>2, <1>3, <1>4, <1>5 DEF LogInv, LogParts

\* The channel's next transaction, if it is new, is the one after the log.
LEMMA HeadIsNext ==
  ASSUME LogInv, wpc = "idle", chan # << >>, Head(chan) > wlast
  PROVE  Head(chan) = wlast + 1 /\ Head(chan) \in Tx
<1>1. /\ chan \in Seq(Tx) /\ wlast \in LSN
  BY DEF LogInv, TypeInv, TypeOK, RecvType, WrType
<1>2. /\ Head(chan) \in Tx /\ Head(chan) = chan[1] /\ 1 \in 1..Len(chan)
  BY <1>1
<1>3. \A t \in Tx : wlast < t /\ t < chan[1] => \E j \in 1..(1 - 1) : chan[j] = t
  BY <1>2 DEF LogInv, LogParts, ChanInv, Taken
<1>4. wlast + 1 \in Tx
  BY <1>1, <1>2, ConstAssumption DEF Tx, LSN
<1>5. ~(wlast + 1 < chan[1])
  BY <1>1, <1>3, <1>4 DEF LSN
<1> QED
  BY <1>1, <1>2, <1>5, ConstAssumption DEF Tx, LSN

(***************************************************************************)
(* One lemma per group of actions: the parts an action can disturb.        *)
(***************************************************************************)
\* Receiver.
LEMMA ReceiverKeeps ==
  ASSUME LogInv, StartSession \/ DropSession \/ Deliver \/ Feedback
  PROVE  LogParts'
<1> USE DEF LogInv, LogParts
<1>1. CASE StartSession
  <2>1. Later(confirmed, watermark) <= wlast
    BY <1>1 DEF StartSession, OrderInv, Later, TypeInv, TypeOK, SrcType, WrType,
       DiskType, LSN
  <2>2. Taken >= wlast /\ Taken' = Taken
    BY <1>1 DEF StartSession, Taken, WriterInv, TypeInv, TypeOK, WrType, LSN,
       wrVars
  <2>3. ChanInv'
    <3>1. ~up' => session' = "down" /\ chan' = << >>
      BY <1>1 DEF StartSession, envVars
    <3>2. \A i \in 1..Len(chan') : \A t \in Tx :
            Taken' < t /\ t < chan'[i] => \E j \in 1..(i - 1) : chan'[j] = t
      BY <1>1, <2>2 DEF StartSession, ChanInv
    <3>3. \A t \in Tx : ~(Taken' < t /\ t <= sentTo')
      BY <1>1, <2>1, <2>2 DEF StartSession, TypeInv, TypeOK, WrType, SrcType,
         Tx, LSN, Taken, Later
    <3> QED
      BY <3>1, <3>2, <3>3 DEF ChanInv
  <2> QED
    BY <1>1, <2>3, UnchangedParts DEF StartSession, srcVars, wrVars, diskVars, prVars, rdVars,
       apVars, tgtVars, envVars
<1>2. CASE DropSession
  <2>1. ChanInv'
    BY <1>2 DEF DropSession, CountDrop, ChanInv, Taken, wrVars
  <2> QED
    BY <1>2, <2>1, UnchangedParts DEF DropSession, CountDrop, srcVars, wrVars, diskVars, prVars,
       rdVars, apVars, tgtVars
<1>3. CASE Deliver
  <2>1. /\ chan \in Seq(Tx) /\ sentTo \in LSN /\ sentTo + 1 \in Tx
        /\ committed \in LSN /\ chan' = Append(chan, sentTo + 1)
        /\ Taken' = Taken /\ Taken \in LSN
    BY <1>3, Positions DEF Deliver, TypeInv, TypeOK, RecvType, SrcType, WrType,
       Taken, wrVars
  <2>2. /\ Len(chan') = Len(chan) + 1 /\ chan'[Len(chan) + 1] = sentTo + 1
        /\ \A i \in 1..Len(chan) : chan'[i] = chan[i]
    BY <2>1, AppendProperties
  <2>3. ASSUME NEW i \in 1..Len(chan'), NEW t \in Tx, Taken' < t, t < chan'[i]
        PROVE  \E j \in 1..(i - 1) : chan'[j] = t
    <3>1. CASE i \in 1..Len(chan)
      BY <2>1, <2>2, <2>3, <3>1 DEF ChanInv
    <3>2. CASE i = Len(chan) + 1
      <4>1. t <= sentTo
        BY <2>1, <2>2, <2>3, <3>2 DEF Tx, LSN
      <4>2. PICK j \in 1..Len(chan) : chan[j] = t
        BY <1>3, <2>1, <2>3, <4>1 DEF Deliver, ChanInv
      <4> QED
        BY <2>1, <2>2, <3>2, <4>2
    <3> QED
      BY <2>1, <2>2, <3>1, <3>2
  <2>4. ASSUME NEW t \in Tx, Taken' < t, t <= sentTo'
        PROVE  \E j \in 1..Len(chan') : chan'[j] = t
    <3>1. CASE t <= sentTo
      <4>1. PICK j \in 1..Len(chan) : chan[j] = t
        BY <1>3, <2>1, <2>4, <3>1 DEF Deliver, ChanInv
      <4> QED
        BY <2>1, <2>2, <4>1
    <3>2. CASE t = sentTo + 1
      BY <2>1, <2>2, <3>2
    <3> QED
      BY <1>3, <2>1, <2>4, <3>1, <3>2 DEF Deliver, Tx, LSN
  <2>5. ChanInv'
    BY <1>3, <2>3, <2>4 DEF ChanInv, Deliver, envVars
  <2> QED
    BY <1>3, <2>5, UnchangedParts DEF Deliver, srcVars, wrVars, diskVars, prVars, rdVars,
       apVars, tgtVars, envVars
<1>4. CASE Feedback
  <2>1. OrderInv'
    BY <1>4 DEF Feedback, OrderInv, Later, wrVars, diskVars, prVars, tgtVars,
       envVars, TypeInv, TypeOK, SrcType, WrType, DiskType, LSN
  <2> QED
    BY <1>4, <2>1, UnchangedParts DEF Feedback, recvVars, wrVars, diskVars, prVars, rdVars,
       apVars, tgtVars, envVars
<1> QED
  BY <1>1, <1>2, <1>3, <1>4, UnchangedParts

\* Taking a transaction from the channel.
LEMMA TailKeeps ==
  ASSUME LogInv, up, chan # << >>, chan' = Tail(chan), UNCHANGED <<up, session, sentTo>>,
         Taken' \in LSN, Taken' >= Taken, Taken' >= Head(chan)
  PROVE  ChanInv'
<1>1. /\ chan \in Seq(Tx) /\ sentTo \in LSN /\ Taken \in LSN
  BY DEF LogInv, TypeInv, TypeOK, RecvType, WrType, Taken
<1>2. /\ Len(chan') = Len(chan) - 1 /\ Head(chan) = chan[1]
      /\ \A i \in 1..Len(chan') : chan'[i] = chan[i + 1]
  BY <1>1
<1>3. ASSUME NEW m \in 1..Len(chan), NEW t \in Tx, Taken' < t,
             \E j \in 1..m : chan[j] = t
      PROVE  \E j \in 1..(m - 1) : chan'[j] = t
  <2>1. PICK j \in 1..m : chan[j] = t
    BY <1>3
  <2>2. j # 1
    BY <1>1, <1>2, <1>3, <2>1 DEF Tx, LSN
  <2>3. j - 1 \in 1..(m - 1) /\ chan'[j - 1] = t
    BY <1>1, <1>2, <2>1, <2>2
  <2> QED
    BY <2>3
<1>4. ASSUME NEW i \in 1..Len(chan'), NEW t \in Tx, Taken' < t, t < chan'[i]
      PROVE  \E j \in 1..(i - 1) : chan'[j] = t
  <2>1. i + 1 \in 1..Len(chan) /\ i \in 1..Len(chan) /\ t < chan[i + 1] /\ Taken < t
    BY <1>1, <1>2, <1>4 DEF Tx, LSN
  <2>2. \E j \in 1..i : chan[j] = t
    BY <2>1, <1>1 DEF LogInv, LogParts, ChanInv
  <2> QED
    BY <1>3, <1>4, <2>1, <2>2
<1>5. ASSUME session' = "up", NEW t \in Tx, Taken' < t, t <= sentTo'
      PROVE  \E j \in 1..Len(chan') : chan'[j] = t
  <2>1. Taken < t /\ t <= sentTo /\ Len(chan) \in 1..Len(chan)
    BY <1>1, <1>5 DEF Tx, LSN
  <2>2. \E j \in 1..Len(chan) : chan[j] = t
    BY <2>1, <1>5 DEF LogInv, LogParts, ChanInv
  <2> QED
    BY <1>2, <1>3, <1>5, <2>1, <2>2
<1> QED
  BY <1>4, <1>5 DEF ChanInv

\* A duplicate is dropped.
LEMMA DiscardKeeps == ASSUME LogInv, DiscardDuplicate PROVE LogParts'
<1> USE DEF LogInv, LogParts
<1>1. OrderInv'
  BY DEF DiscardDuplicate, OrderInv, Later, srcVars, diskVars, prVars, tgtVars,
     envVars, TypeInv, TypeOK, WrType, DiskType, LSN
<1>2. ChanInv'
  <2>1. Taken = wlast /\ Taken' = wlast
    BY DEF DiscardDuplicate, Taken
  <2> QED
    BY <2>1, TailKeeps DEF DiscardDuplicate, envVars, TypeInv, TypeOK, WrType, LSN
<1>3. GateInv'
  BY DEF DiscardDuplicate, OrderInv, GateInv, Later, rdVars, apVars, tgtVars,
     envVars, TypeInv, TypeOK, WrType, RdType, DiskType, LSN
<1> QED
  BY <1>1, <1>2, <1>3, UnchangedParts DEF DiscardDuplicate, srcVars, diskVars, prVars, tgtVars,
     envVars

\* Positions are numbers.
LEMMA Bounds ==
  /\ N \in Nat /\ 0 \in LSN
  /\ \A x \in LSN : x \in Int /\ x >= 0 /\ x <= N
  /\ \A x \in Tx : x \in LSN /\ x \in Int /\ x >= 1 /\ x <= N
  /\ \A x \in LSN : x # 0 => x \in Tx
BY ConstAssumption DEF Tx, LSN

\* The types of the positions and the directory, in the form the steps use.
LEMMA LogTypes ==
  ASSUME LogInv
  PROVE  /\ confirmed \in LSN /\ wlast \in LSN /\ wdur \in LSN /\ synced \in LSN
         /\ watermark \in LSN /\ latest \in LSN /\ target \in LSN /\ rdur \in LSN
         /\ progress \in LSN /\ wtail \in LSN /\ wcur \in LSN /\ renamed \in LSN
         /\ names \subseteq Tx /\ final \subseteq Tx /\ unlinked \subseteq Tx
         /\ catalog \subseteq Tx /\ prem \subseteq Tx
         /\ frames \in [Tx -> SUBSET Tx]
BY DEF LogInv, TypeInv, TypeOK, SrcType, WrType, DiskType, PrType, RdType,
   ApType, TgtType

LEMMA BatchType == ASSUME LogInv PROVE batch \in Seq(Tx)
BY DEF LogInv, TypeInv, TypeOK, ApType

\* Parts that survive an advance of what they compare with.
LEMMA MonotoneParts ==
  ASSUME LogInv
  PROVE  /\ Taken' = Taken /\ UNCHANGED <<up, session, chan, sentTo>> => ChanInv'
         /\ /\ synced' \in LSN /\ synced' >= synced
            /\ UNCHANGED <<names, final, unlinked, wlast, frames>>
            => PartialInv'
         /\ /\ target' \in LSN /\ target' >= target
            /\ UNCHANGED <<wlast, names, frames>>
            => KeptInv'
<1>1. ASSUME Taken' = Taken, UNCHANGED <<up, session, chan, sentTo>>
      PROVE  ChanInv'
  BY <1>1 DEF ChanInv, LogInv, LogParts
<1>2. ASSUME synced' \in LSN, synced' >= synced,
             UNCHANGED <<names, final, unlinked, wlast, frames>>
      PROVE  PartialInv'
  <2>1. \A p \in Tx : /\ p <= synced + 1 => p <= synced' + 1
                      /\ p <= synced => p <= synced'
    <3>1. synced \in Int /\ synced' \in Int /\ synced' >= synced
      BY <1>2, LogTypes, Bounds
    <3>2. \A p \in Tx : p \in Int
      BY Bounds
    <3> QED
      BY <3>1, <3>2
  <2>2. ASSUME NEW p \in names \ final
        PROVE  /\ \A s \in names \cup unlinked : s <= p
               /\ p <= synced' + 1
               /\ \A t \in Tx : p <= t /\ t <= wlast => t \in frames[p]
               /\ p = 1 \/ (p \in frames[p] /\ p <= synced')
                    \/ \E s \in names \cap final : p - 1 \in frames[s]
    <3>1. p \in Tx
      BY LogTypes
    <3> QED
      BY <2>1, <3>1 DEF LogInv, LogParts, PartialInv
  <2> QED
    BY <1>2, <2>2 DEF PartialInv
<1>3. ASSUME target' \in LSN, target' >= target, UNCHANGED <<wlast, names, frames>>
      PROVE  KeptInv'
  <2>1. \A t \in Tx : t <= target => t <= target'
    BY <1>3, LogTypes DEF Tx, LSN
  <2> QED
    BY <1>3, <2>1 DEF KeptInv, LogInv, LogParts
<1> QED
  BY <1>1, <1>2, <1>3

\* Rotation and the group fsync.
LEMMA RotateSyncKeeps == ASSUME LogInv, RotateSync PROVE LogParts'
<1> USE LogTypes, Bounds DEF LogInv, LogParts
<1>1. OrderInv'
  BY DEF RotateSync, OrderInv, srcVars, prVars, tgtVars, envVars
<1>2. FinalInv'
  BY DEF RotateSync, FinalInv, FilesInv
<1>3. PartialInv'
  BY MonotoneParts DEF RotateSync, OrderInv
<1>4. WriterInv'
  BY DEF RotateSync, WriterInv, envVars
<1>5. ChanInv'
  <2>1. Taken' = Taken
    BY DEF RotateSync, Taken
  <2> QED
    BY <2>1, MonotoneParts, UnchangedParts DEF RotateSync, recvVars, envVars
<1> QED
  BY <1>1, <1>2, <1>3, <1>4, <1>5, UnchangedParts DEF RotateSync, srcVars, recvVars, prVars,
     rdVars, apVars, tgtVars, envVars

LEMMA RotateRenameKeeps == ASSUME LogInv, RotateRename PROVE LogParts'
<1> USE LogTypes, Bounds DEF LogInv, LogParts
<1>1. /\ up /\ wcur = wtail /\ wtail \in names \ final /\ wlast \in frames[wcur]
      /\ synced = wlast /\ \A s \in names \cup unlinked : s <= wcur
  BY DEF RotateRename, WriterInv, WriterStep, TypeInv, PartialInv
<1>2. wcur \in Tx /\ names' \subseteq final' /\ \A f \in frames[wcur] : f <= synced
  <2>1. \A s \in names : s \in final \/ s = wcur
    BY <1>1 DEF PartialInv
  <2> QED
    BY <1>1, <2>1 DEF RotateRename, FilesInv
<1>3. FinalInv'
  BY <1>1, <1>2 DEF RotateRename, FinalInv, FilesInv
<1>4. PartialInv'
  BY <1>2 DEF PartialInv
<1>5. RenameInv'
  BY <1>1, <1>2 DEF RotateRename, RenameInv
<1>6. WriterInv'
  BY <1>1, <1>2 DEF RotateRename, WriterInv, envVars
<1>7. ChanInv'
  <2>1. Taken' = Taken
    BY DEF RotateRename, Taken
  <2> QED
    BY <2>1, MonotoneParts, UnchangedParts DEF RotateRename, recvVars, envVars
<1>8. CatalogInv'
  BY DEF RotateRename, CatalogInv, prVars
<1> QED
  BY <1>3, <1>4, <1>5, <1>6, <1>7, <1>8, UnchangedParts DEF RotateRename, srcVars, recvVars,
     prVars, rdVars, apVars, tgtVars, envVars

LEMMA RotateDirSyncKeeps == ASSUME LogInv, RotateDirSync PROVE LogParts'
<1> USE LogTypes, Bounds DEF LogInv, LogParts
<1>1. PartialInv'
  BY DEF RotateDirSync, PartialInv
<1>2. RenameInv'
  BY DEF RotateDirSync, RenameInv
<1>3. WriterInv'
  BY DEF RotateDirSync, WriterInv, envVars
<1>4. ChanInv'
  <2>1. Taken' = Taken
    BY DEF RotateDirSync, Taken
  <2> QED
    BY <2>1, MonotoneParts, UnchangedParts DEF RotateDirSync, recvVars, envVars
<1>5. CatalogInv'
  BY DEF RotateDirSync, CatalogInv, WriterInv
<1> QED
  BY <1>1, <1>2, <1>3, <1>4, <1>5, UnchangedParts DEF RotateDirSync, srcVars, recvVars, rdVars,
     apVars, tgtVars, envVars

LEMMA PersisterSyncKeeps == ASSUME LogInv, PersisterSync PROVE LogParts'
<1> USE LogTypes, Bounds DEF LogInv, LogParts
<1>1. /\ up /\ synced' = wlast /\ wdur' = wlast /\ watermark' \in LSN
      /\ watermark' >= watermark /\ watermark' <= wdur' /\ watermark' >= wdur'
  BY DEF PersisterSync, OrderInv, WriterInv, Later
<1>2. OrderInv'
  BY <1>1 DEF PersisterSync, OrderInv, srcVars, prVars, tgtVars, envVars
<1>3. FinalInv'
  BY <1>1 DEF PersisterSync, FinalInv, FilesInv
<1>4. PartialInv'
  BY <1>1, MonotoneParts DEF PersisterSync, OrderInv
<1>5. WriterInv'
  BY <1>1 DEF PersisterSync, WriterInv, envVars
<1>6. GateInv'
  BY <1>1 DEF PersisterSync, GateInv, rdVars, apVars, tgtVars, envVars
<1> QED
  BY <1>2, <1>3, <1>4, <1>5, <1>6, UnchangedParts DEF PersisterSync, srcVars, recvVars, prVars,
     rdVars, apVars, tgtVars, envVars

\* Applier and reader.
LEMMA ConnectKeeps == ASSUME LogInv, ApplierConnect PROVE LogParts'
<1> USE LogTypes, Bounds DEF LogInv, LogParts
<1>1. OrderInv'
  BY DEF ApplierConnect, OrderInv, Later, srcVars, wrVars, diskVars, tgtVars,
     envVars
<1>2. GateInv'
  BY DEF ApplierConnect, GateInv, wrVars, tgtVars, envVars
<1>3. CatalogInv'
  BY DEF ApplierConnect, CatalogInv, diskVars
<1> QED
  BY <1>1, <1>2, <1>3, UnchangedParts DEF ApplierConnect, srcVars, recvVars, wrVars, diskVars,
     tgtVars, envVars

\* A step of the applier that leaves everything but the reader and the batch.
ReaderFrameCond ==
  UNCHANGED <<srcVars, recvVars, wrVars, diskVars, prVars, tgtVars, envVars>>

LEMMA GateSuffices == ASSUME LogInv, ReaderFrameCond, GateInv' PROVE LogParts'
BY UnchangedParts DEF LogInv, LogParts, ReaderFrameCond, srcVars, recvVars,
   wrVars, diskVars, prVars, tgtVars, envVars

LEMMA AppendFacts ==
  \A q \in Seq(Tx) : \A t \in Tx :
    /\ Append(q, t)[Len(q) + 1] = t
    /\ \A i \in 1..Len(q) : Append(q, t)[i] = q[i]
    /\ \A i \in 1..Len(Append(q, t)) : i \in 1..Len(q) \/ i = Len(q) + 1
BY AppendProperties

LEMMA ReceiveKeeps ==
  ASSUME LogInv, apc = "read", NEW t \in Tx, t <= rdur, Receive(t),
         UNCHANGED <<rdur, progress, up, target, watermark>>
  PROVE  GateInv'
<1> USE LogTypes, Bounds DEF LogInv, LogParts
<1>1. apc' # "down"
  BY DEF Receive
<1>2. apc' # "down" => up' /\ progress' = target' /\ rdur' <= watermark'
  BY DEF GateInv
<1>3. \A i \in 1..Len(batch') : progress' < batch'[i] /\ batch'[i] <= rdur'
  <2>1. CASE UNCHANGED batch
    BY <2>1 DEF GateInv
  <2>2. CASE t > progress /\ batch' = Append(batch, t)
    <3>1. /\ batch'[Len(batch) + 1] = t
          /\ \A i \in 1..Len(batch) : batch'[i] = batch[i]
          /\ \A i \in 1..Len(batch') : i \in 1..Len(batch) \/ i = Len(batch) + 1
      BY <2>2, BatchType, AppendFacts
    <3>2. ASSUME NEW i \in 1..Len(batch')
          PROVE  progress < batch'[i] /\ batch'[i] <= rdur
      BY <2>2, <3>1 DEF GateInv
    <3> QED
      BY <3>2
  <2> QED
    BY <2>1, <2>2 DEF Receive
<1> QED
  BY <1>1, <1>2, <1>3 DEF GateInv

LEMMA ReaderKeeps ==
  ASSUME LogInv,
         \/ Refresh \/ ReaderOpen \/ ReaderRelist \/ ReaderFrame \/ ReaderGate
         \/ ReaderPending \/ ReaderNextSegment \/ ReaderEOF
  PROVE  LogParts'
<1> USE LogTypes, Bounds DEF LogInv, LogParts
<1>1. CASE Refresh
  <2>1. ReaderFrameCond
    BY <1>1 DEF Refresh, ReaderFrameCond
  <2>2. GateInv'
    <3>1. \A i \in 1..Len(batch) : batch[i] \in LSN
      BY BatchType
    <3>2. up /\ progress = target /\ rdur <= watermark
      BY <1>1 DEF Refresh, GateInv
    <3>3. /\ apc' = "read" /\ rdur' = watermark
          /\ UNCHANGED <<batch, progress, target, watermark, up>>
      BY <1>1 DEF Refresh, wrVars, tgtVars, envVars
    <3>4. ASSUME NEW i \in 1..Len(batch)
          PROVE  progress < batch[i] /\ batch[i] <= watermark
      <4>1. progress < batch[i] /\ batch[i] <= rdur
        BY DEF GateInv
      <4> QED
        BY <3>1, <3>2, <4>1
    <3> QED
      BY <3>2, <3>3, <3>4 DEF GateInv
  <2> QED
    BY <2>1, <2>2, GateSuffices
<1>2. CASE ReaderOpen \/ ReaderRelist \/ ReaderNextSegment
  <2>1. ReaderFrameCond /\ UNCHANGED <<apVars, rdur>>
    BY <1>2 DEF ReaderOpen, ReaderRelist, ReaderNextSegment, ReaderFrameCond
  <2>2. GateInv'
    BY <2>1, UnchangedParts DEF ReaderFrameCond, apVars, wrVars, tgtVars, envVars
  <2> QED
    BY <2>1, <2>2, GateSuffices
<1>3. CASE ReaderFrame
  <2>1. ReaderFrameCond /\ UNCHANGED <<rdur, progress, up, target, watermark>>
    BY <1>3 DEF ReaderFrame, ReaderFrameCond, wrVars, tgtVars, envVars
  <2>2. PICK t \in Tx : t <= rdur /\ Receive(t)
    BY <1>3 DEF ReaderFrame
  <2>3. GateInv'
    BY <1>3, <2>1, <2>2, ReceiveKeeps DEF ReaderFrame, Reading
  <2> QED
    BY <2>1, <2>3, GateSuffices
<1>4. CASE ReaderGate \/ ReaderEOF
  <2>1. ReaderFrameCond /\ EndOfInput /\ apc = "read" /\ UNCHANGED <<rdur, wrVars, tgtVars, envVars>>
    BY <1>4 DEF ReaderGate, ReaderEOF, ReaderFrameCond, Reading, rdVars
  <2>2. GateInv'
    BY <2>1 DEF GateInv, EndOfInput, wrVars, tgtVars, envVars
  <2> QED
    BY <2>1, <2>2, GateSuffices
<1>5. CASE ReaderPending
  <2>1. ReaderFrameCond /\ apc = "read" /\ UNCHANGED <<rdur, wrVars, tgtVars, envVars>>
    BY <1>5 DEF ReaderPending, ReaderFrameCond, Reading
  <2>2. CASE rpend <= rdur
    <3>1. rpend \in Tx /\ Receive(rpend) /\ UNCHANGED progress
      BY <1>5, <2>2 DEF ReaderPending, TypeInv, TypeOK, RdType
    <3>2. GateInv'
      BY <2>1, <2>2, <3>1, ReceiveKeeps DEF wrVars, tgtVars, envVars
    <3> QED
      BY <2>1, <3>2, GateSuffices
  <2>3. CASE ~(rpend <= rdur)
    <3>1. GateInv'
      BY <1>5, <2>1, <2>3 DEF ReaderPending, GateInv, EndOfInput, wrVars, tgtVars,
         envVars
    <3> QED
      BY <2>1, <3>1, GateSuffices
  <2> QED
    BY <2>2, <2>3
<1> QED
  BY <1>1, <1>2, <1>3, <1>4, <1>5

\* The batch that commits on the target lies between progress and the gate.
LEMMA CommitBounds ==
  ASSUME LogInv, up, apc = "apply", TargetCommit
  PROVE  target' \in LSN /\ target < target' /\ target' <= synced /\ target' <= watermark
<1> USE LogTypes, Bounds DEF LogInv, LogParts
<1>1. batch # << >> /\ Len(batch) \in 1..Len(batch)
  BY DEF TypeInv, BatchStep
<1>2. /\ progress < batch[Len(batch)] /\ batch[Len(batch)] <= rdur
      /\ batch[Len(batch)] \in Tx
  BY <1>1, BatchType, LastOfBatch DEF GateInv
<1>3. progress = target /\ rdur <= watermark /\ watermark <= synced
  BY DEF GateInv, OrderInv
<1>4. target' = batch[Len(batch)]
  BY DEF TargetCommit
<1> QED
  BY <1>2, <1>3, <1>4

LEMMA CommitKeeps ==
  ASSUME LogInv, ApplyCommit \/ ApplyLostAck \/ ApplierDrop PROVE LogParts'
<1> USE LogTypes, Bounds DEF LogInv, LogParts
<1>1. CASE ApplyCommit
  <2>1. target' \in LSN /\ target < target' /\ target' <= synced /\ target' <= watermark
    BY <1>1, CommitBounds DEF ApplyCommit
  <2>2. OrderInv'
    BY <1>1, <2>1 DEF ApplyCommit, OrderInv, Later, srcVars, wrVars, diskVars,
       envVars
  <2>3. KeptInv'
    BY <1>1, <2>1, MonotoneParts DEF ApplyCommit, wrVars, diskVars
  <2>4. GateInv'
    BY <1>1 DEF ApplyCommit, GateInv, rdVars, wrVars, envVars
  <2>5. CatalogInv'
    BY <1>1 DEF ApplyCommit, CatalogInv, diskVars
  <2> QED
    BY <1>1, <2>2, <2>3, <2>4, <2>5, UnchangedParts DEF ApplyCommit, srcVars, recvVars, wrVars,
       diskVars, envVars
<1>2. CASE ApplyLostAck
  <2>1. target' \in LSN /\ target < target' /\ target' <= synced /\ target' <= watermark
    BY <1>2, CommitBounds DEF ApplyLostAck
  <2>2. OrderInv'
    BY <1>2, <2>1 DEF ApplyLostAck, CountDrop, OrderInv, srcVars, wrVars, diskVars, prVars
  <2>3. KeptInv'
    BY <1>2, <2>1, MonotoneParts DEF ApplyLostAck, wrVars, diskVars
  <2>4. GateInv'
    BY <1>2 DEF ApplyLostAck, ApplierReset, GateInv
  <2> QED
    BY <1>2, <2>2, <2>3, <2>4, UnchangedParts DEF ApplyLostAck, CountDrop, srcVars, recvVars,
       wrVars, diskVars, prVars
<1>3. CASE ApplierDrop
  <2>1. GateInv'
    BY <1>3 DEF ApplierDrop, ApplierReset, GateInv
  <2> QED
    BY <1>3, <2>1, UnchangedParts DEF ApplierDrop, CountDrop, srcVars, recvVars, wrVars, diskVars,
       prVars, tgtVars
<1> QED
  BY <1>1, <1>2, <1>3, UnchangedParts

\* No file holds, and no finalized or removed one is named by, a transaction
\* after the last.
LEMMA PastTheEnd ==
  ASSUME LogInv, NEW h \in Tx, h > wlast
  PROVE  frames[h] = {} /\ h \notin final /\ h \notin unlinked
<1> USE LogTypes, Bounds DEF LogInv, LogParts
<1>1. frames[h] = {}
  BY DEF FilesInv
<1> QED
  BY <1>1 DEF FinalInv, RenameInv

\* AppendFrame.
LEMMA BeginKeeps == ASSUME LogInv, BeginFrame PROVE LogParts'
<1> USE LogTypes, Bounds DEF LogInv, LogParts
<1> DEFINE h == Head(chan)
<1>1. h = wlast + 1 /\ h \in Tx /\ up
  BY HeadIsNext DEF BeginFrame
<1>2. ChanInv'
  <2>1. Taken = wlast /\ Taken' = h
    BY DEF BeginFrame, Taken
  <2> QED
    <3>1. Taken' \in LSN /\ Taken' >= Taken /\ Taken' >= Head(chan)
      BY <1>1, <2>1
    <3> QED
      BY <3>1, TailKeeps DEF BeginFrame, envVars
<1>3. CASE wtail # 0
  <2>1. UNCHANGED <<wtail, names, frames, renamed, unlinked>>
    BY <1>3 DEF BeginFrame
  <2>2. WriterInv'
    BY <1>1, <1>3, <2>1 DEF BeginFrame, WriterInv, envVars
  <2> QED
    BY <1>2, <2>1, <2>2, UnchangedParts DEF BeginFrame, srcVars, prVars, rdVars, apVars, tgtVars,
       envVars
<1>4. CASE wtail = 0
  <2>1. /\ names' = names \cup {h} /\ wtail' = h /\ renamed' = 0 /\ unlinked' = {}
        /\ UNCHANGED <<final, synced, wlast, target>>
    BY <1>4 DEF BeginFrame, tgtVars
  <2>2. /\ names \subseteq final /\ synced = wlast
        /\ frames[h] = {} /\ h \notin final
    <3>1. names \subseteq final /\ synced = wlast
      BY <1>1, <1>4 DEF WriterInv
    <3>2. h > wlast
      BY <1>1
    <3> QED
      BY <1>1, <3>1, <3>2, PastTheEnd
  <2>3. frames' = frames
    <3>1. frames' = [frames EXCEPT ![h] = {}]
      BY <1>4 DEF BeginFrame
    <3> HIDE DEF h
    <3> QED
      BY <1>1, <2>2, <3>1
  <2>4. DisjointInv'
    <3>1. \A s \in Tx : \A f \in frames[s] : f < h
      BY <1>1 DEF FilesInv
    <3> QED
      BY <2>1, <2>3, <3>1 DEF DisjointInv
  <2>5. PartialInv'
    <3>1. \A p \in names' \ final' : p = h
      BY <2>1, <2>2
    <3>2. \A s \in names' \cup unlinked' : s <= h
      <4>1. \A s \in final : s <= wlast
        BY DEF FinalInv, FilesInv
      <4> QED
        BY <1>1, <2>1, <2>2, <4>1
    <3>3. h = 1 \/ \E s \in names' \cap final' : h - 1 \in frames'[s]
      <4>1. wlast = 0 => h = 1
        BY <1>1
      <4>2. h - 1 = wlast
        BY <1>1
      <4> HIDE DEF h
      <4>3. wlast # 0 => \E s \in names : wlast \in frames[s]
        BY DEF KeptInv
      <4>4. names \subseteq names' \cap final'
        BY <2>1, <2>2
      <4> QED
        BY <2>3, <4>1, <4>2, <4>3, <4>4
    <3>4. h <= synced' + 1 /\ \A t \in Tx : ~(h <= t /\ t <= wlast')
      BY <1>1, <2>1, <2>2
    <3> QED
      BY <3>1, <3>2, <3>3, <3>4 DEF PartialInv
  <2>6. KeptInv'
    BY <2>1, <2>3 DEF KeptInv
  <2>7. RenameInv'
    BY <2>1 DEF RenameInv
  <2>8. WriterInv'
    BY <1>1, <2>1, <2>2 DEF BeginFrame, WriterInv, envVars
  <2>9. CatalogInv'
    BY <2>1 DEF BeginFrame, CatalogInv, prVars
  <2> QED
    BY <1>2, <2>1, <2>3, <2>4, <2>5, <2>6, <2>7, <2>8, <2>9, UnchangedParts DEF BeginFrame,
       srcVars, prVars, rdVars, apVars, tgtVars, envVars
<1> QED
  BY <1>3, <1>4, UnchangedParts

LEMMA FinishKeeps == ASSUME LogInv, FinishFrame PROVE LogParts'
<1> USE LogTypes, Bounds DEF LogInv, LogParts
<1>1. /\ up /\ wcur = wlast + 1 /\ wcur \in Tx /\ wtail \in names \ final
      /\ wtail \in Tx
  BY DEF FinishFrame, WriterInv, WriterStep, TypeInv
<1>2. /\ wlast' = wlast + 1
      /\ frames' \in [Tx -> SUBSET Tx]
      /\ frames'[wtail] = frames[wtail] \cup {wcur}
      /\ \A s \in Tx : s # wtail => frames'[s] = frames[s]
      /\ UNCHANGED <<names, final, unlinked, renamed, synced, wdur, watermark,
                     wtail, up, target, confirmed, latest, catalog, prem, ppc>>
  BY <1>1 DEF FinishFrame, srcVars, prVars, tgtVars, envVars
<1>3. /\ \A t \in Tx : wtail <= t /\ t <= wlast => t \in frames[wtail]
      /\ \A s \in names \cup unlinked : s <= wtail
      /\ wtail <= synced + 1 /\ synced <= wlast
  BY <1>1 DEF PartialInv, OrderInv
<1>4. OrderInv'
  BY <1>2 DEF OrderInv
<1>5. FilesInv'
  <2>1. ASSUME NEW s \in Tx, NEW f \in frames'[s]
        PROVE  /\ s <= f /\ f <= wlast'
               /\ \A t \in Tx : s <= t /\ t <= f => t \in frames'[s]
    <3>1. CASE s # wtail \/ f \in frames[s]
      <4>1. f \in frames[s] /\ f \in Tx /\ frames[s] \subseteq frames'[s]
        BY <1>1, <1>2, <2>1, <3>1
      <4> QED
        BY <1>2, <4>1 DEF FilesInv
    <3>2. CASE s = wtail /\ f = wcur
      <4>0. /\ wtail \in Int /\ wcur \in Int /\ wlast \in Int /\ synced \in Int
            /\ \A t \in Tx : t \in Int
        OBVIOUS
      <4>1. wtail <= wcur /\ wcur <= wlast'
        BY <1>1, <1>2, <1>3, <4>0
      <4>2. \A t \in Tx : t <= wcur => t <= wlast \/ t = wcur
        BY <1>1, <4>0
      <4> QED
        BY <1>2, <1>3, <3>2, <4>1, <4>2
    <3> QED
      BY <1>1, <1>2, <3>1, <3>2
  <2> QED
    BY <2>1 DEF FilesInv
<1>6. DisjointInv'
  <2>1. ASSUME NEW s \in Tx, NEW d \in Tx, s < d, d \in names' \/ d \in frames'[d],
               NEW f \in frames'[s]
        PROVE  f < d
    <3>1. CASE s = wtail
      <4>1. d \in frames[d] /\ d # wtail
        BY <1>1, <1>2, <1>3, <2>1, <3>1
      <4>2. d <= wlast
        BY <4>1 DEF FilesInv
      <4>3. d \in frames[wtail]
        BY <1>3, <2>1, <3>1, <4>2
      <4> QED
        BY <2>1, <3>1, <4>1, <4>3 DEF DisjointInv
    <3>2. CASE s # wtail
      <4>1. f \in frames[s] /\ f \in Tx
        BY <1>1, <1>2, <2>1, <3>2
      <4>2. d \in names \/ d \in frames[d]
        BY <1>1, <1>2, <2>1
      <4> QED
        BY <2>1, <4>1, <4>2 DEF DisjointInv
    <3> QED
      BY <3>1, <3>2
  <2> QED
    BY <2>1 DEF DisjointInv
<1>7. FinalInv'
  BY <1>1, <1>2 DEF FinalInv
<1>8. \A p \in names \ final : p = wtail
  BY <1>1, <1>3 DEF PartialInv
<1>9. PartialInv'
  <2>1. \A t \in Tx : wtail <= t /\ t <= wlast' => t \in frames'[wtail]
    BY <1>1, <1>2, <1>3
  <2>2. wtail = 1 \/ (wtail \in frames'[wtail] /\ wtail <= synced')
         \/ \E s \in names' \cap final' : wtail - 1 \in frames'[s]
    <3>1. wtail = 1 \/ (wtail \in frames[wtail] /\ wtail <= synced)
            \/ \E s \in names \cap final : wtail - 1 \in frames[s]
      BY <1>1 DEF PartialInv
    <3>2. \A s \in names : frames[s] \subseteq frames'[s]
      BY <1>1, <1>2
    <3> QED
      BY <1>1, <1>2, <3>1, <3>2
  <2>3. ASSUME NEW p \in names' \ final'
        PROVE  p = wtail
    BY <1>2, <1>8
  <2>4. /\ \A s \in names' \cup unlinked' : s <= wtail
        /\ wtail <= synced' + 1
    BY <1>2, <1>3
  <2> QED
    BY <2>1, <2>2, <2>3, <2>4 DEF PartialInv
<1>10. KeptInv'
  <2>1. \A s \in names : frames[s] \subseteq frames'[s]
    BY <1>1, <1>2
  <2>2. wlast' \in frames'[wtail] /\ wtail \in names'
    BY <1>1, <1>2
  <2>3. \A t \in Tx : t <= wlast' => t <= wlast \/ t = wlast'
    BY <1>2
  <2> QED
    BY <1>2, <2>1, <2>2, <2>3 DEF KeptInv
<1>11. RenameInv'
  BY <1>1, <1>2 DEF RenameInv
<1>12. WriterInv'
  <2>1. wpc' \in {"rotate", "idle"} /\ (wpc' = "rotate" => wcur' = wtail)
    BY DEF FinishFrame
  <2> QED
    BY <1>1, <1>2, <2>1 DEF WriterInv
<1>13. ChanInv'
  <2>1. Taken' = Taken
    BY DEF FinishFrame, Taken
  <2> QED
    BY <2>1, MonotoneParts, UnchangedParts DEF FinishFrame, recvVars, envVars
<1>14. CatalogInv' /\ GateInv'
  BY <1>2, UnchangedParts DEF FinishFrame, apVars, rdVars
<1> QED
  BY <1>4, <1>5, <1>6, <1>7, <1>9, <1>10, <1>11, <1>12, <1>13, <1>14, UnchangedParts

\* Pruner.  What is removed is applied, finalized and older than a cataloged
\* file that stays.
LEMMA RemovableFacts ==
  ASSUME LogInv, catalog \subseteq names, NEW s \in Removable
  PROVE  /\ s \in names \cap final
         /\ \A f \in frames[s] : f < target /\ f < wlast
         /\ \E e \in names \cap final : s < e
<1> USE LogTypes, Bounds DEF LogInv, LogParts
<1>1. s \in catalog /\ s \in Tx /\ Applied(s, latest)
  BY DEF Removable, Eligible
<1>2. s \in names \cap final
  BY <1>1 DEF CatalogInv
<1>3. latest <= target /\ latest <= wlast
  BY DEF OrderInv
<1>4. \A f \in frames[s] : f \in Int /\ f < latest
  BY <1>1 DEF Applied
<1>5. \A f \in frames[s] : f < target /\ f < wlast
  BY <1>3, <1>4
<1>6. \E e \in names \cap final : s < e
  BY DEF Removable, Eligible, CatalogInv
<1> QED
  BY <1>2, <1>5, <1>6

LEMMA PruneRemoveKeeps == ASSUME LogInv, PruneRemove PROVE LogParts'
<1> USE LogTypes, Bounds DEF LogInv, LogParts
<1>1. PICK rem \in SUBSET Removable :
        prem' = rem /\ names' = names \ rem /\ unlinked' = unlinked \cup rem
  BY DEF PruneRemove
<1>2. \A s \in rem : /\ s \in names \cap final
                     /\ \A f \in frames[s] : f < target /\ f < wlast
                     /\ \E e \in names \cap final : s < e
  BY RemovableFacts DEF PruneRemove
<1>3. UNCHANGED <<final, frames, synced, renamed, wlast, target, wtail, wpc, wcur,
                  up, catalog>>
  BY DEF PruneRemove, wrVars, tgtVars, envVars
<1>4. \A s \in rem : wlast \notin frames[s]
  BY <1>2
<1>5. DisjointInv'
  BY <1>1, <1>3 DEF DisjointInv
<1>6. PartialInv'
  <2>1. ASSUME NEW p \in names \ final, NEW s \in rem
        PROVE  p - 1 \notin frames[s]
    <3>1. PICK e \in names \cap final : s < e
      BY <1>2
    <3>2. e < p /\ e \in Int /\ p \in Int
      <4>1. e <= p /\ e # p
        BY DEF PartialInv
      <4> QED
        BY <4>1
    <3>3. \A f \in frames[s] : f < e
      BY <1>2, <3>1 DEF DisjointInv
    <3>4. ~(p - 1 < e)
      BY <3>2
    <3> QED
      BY <3>3, <3>4
  <2>2. names' \ final' \subseteq names \ final
    BY <1>1, <1>3
  <2>3. names' \cup unlinked' \subseteq names \cup unlinked
    BY <1>1, <1>2
  <2>4. ASSUME NEW p \in names \ final
        PROVE  p = 1 \/ (p \in frames[p] /\ p <= synced)
                 \/ \E s \in names' \cap final : p - 1 \in frames[s]
    BY <1>1, <2>1 DEF PartialInv
  <2>5. ASSUME NEW p \in names \ final
        PROVE  /\ \A s \in names \cup unlinked : s <= p
               /\ p <= synced + 1
               /\ \A t \in Tx : p <= t /\ t <= wlast => t \in frames[p]
    BY DEF PartialInv
  <2>6. ASSUME NEW p \in names' \ final'
        PROVE  /\ \A s \in names' \cup unlinked' : s <= p
               /\ p <= synced' + 1
               /\ \A t \in Tx : p <= t /\ t <= wlast' => t \in frames'[p]
               /\ p = 1 \/ (p \in frames'[p] /\ p <= synced')
                    \/ \E s \in names' \cap final' : p - 1 \in frames'[s]
    <3>1. p \in names \ final
      BY <2>2, <2>6
    <3> QED
      BY <1>3, <2>3, <2>4, <2>5, <3>1
  <2> QED
    BY <2>6 DEF PartialInv
<1>7. KeptInv'
  <2>1. ASSUME NEW t \in Tx, ~(t <= target), NEW s \in rem
        PROVE  t \notin frames[s]
    BY <1>2, <2>1
  <2> QED
    BY <1>1, <1>3, <1>4, <2>1 DEF KeptInv
<1>8. RenameInv'
  BY <1>1, <1>2, <1>3, <1>4 DEF RenameInv
<1>9. WriterInv'
  <2>1. wtail \in names \ final => wtail \in names' \ final'
    BY <1>1, <1>2, <1>3
  <2>2. wpc = "dirsync" => wcur \in names' \cap final'
    BY <1>1, <1>3, <1>4 DEF WriterInv
  <2> QED
    BY <1>1, <1>3, <2>1, <2>2 DEF WriterInv
<1>10. CatalogInv'
  <2>1. ppc' = "dirsync"
    BY DEF PruneRemove
  <2> QED
    BY <1>1, <1>3, <2>1 DEF PruneRemove, CatalogInv
<1> QED
  BY <1>5, <1>6, <1>7, <1>8, <1>9, <1>10, UnchangedParts DEF PruneRemove, srcVars, recvVars,
     wrVars, rdVars, apVars, tgtVars, envVars

LEMMA PruneDirSyncKeeps == ASSUME LogInv, PruneDirSync PROVE LogParts'
<1> USE LogTypes, Bounds DEF LogInv, LogParts
<1>1. PartialInv'
  <2>1. names' \cup unlinked' \subseteq names \cup unlinked
    BY DEF PruneDirSync
  <2> QED
    BY <2>1, UnchangedParts DEF PruneDirSync, PartialInv, wrVars
<1>2. RenameInv'
  BY DEF PruneDirSync, RenameInv
<1>3. CatalogInv'
  BY DEF PruneDirSync, CatalogInv
<1> QED
  BY <1>1, <1>2, <1>3, UnchangedParts DEF PruneDirSync, srcVars, recvVars, wrVars, rdVars,
     apVars, tgtVars, envVars

\* Exit, crash and restart.  A process that is down holds nothing.
LEMMA DownKeeps ==
  ASSUME LogInv, Down
  PROVE  /\ WriterInv' /\ ChanInv' /\ CatalogInv' /\ GateInv'
         /\ latest' = 0 /\ up' = FALSE /\ up
<1> USE DEF Down, VolatileReset, ApplierReset
<1>1. up /\ up' = FALSE /\ latest' = 0
  OBVIOUS
<1>2. WriterInv'
  BY DEF WriterInv
<1>3. ChanInv'
  BY DEF ChanInv
<1>4. CatalogInv' /\ GateInv'
  BY DEF CatalogInv, GateInv
<1> QED
  BY <1>1, <1>2, <1>3, <1>4

LEMMA ExitKeeps == ASSUME LogInv, Exit PROVE LogParts'
<1> USE LogTypes, Bounds DEF LogInv, LogParts
<1>1. /\ WriterInv' /\ ChanInv' /\ CatalogInv' /\ GateInv'
      /\ latest' = 0 /\ up' = FALSE /\ up
  BY DownKeeps DEF Exit
<1>2. synced' \in LSN /\ synced' >= synced /\ synced' <= wlast
  BY DEF Exit, OrderInv
<1>3. UNCHANGED <<confirmed, wlast, names, final, frames, renamed, unlinked, target>>
  BY DEF Exit, srcVars, tgtVars
<1>4. OrderInv'
  BY <1>1, <1>2, <1>3 DEF OrderInv
<1>5. FinalInv'
  <2>1. ASSUME NEW s \in final, NEW f \in frames[s] PROVE f <= synced'
    BY <1>2 DEF FinalInv
  <2> QED
    BY <1>3, <2>1 DEF FinalInv
<1>6. PartialInv'
  BY <1>2, <1>3, MonotoneParts
<1> QED
  BY <1>1, <1>3, <1>4, <1>5, <1>6, UnchangedParts

\* What a crash leaves: every file up to some transaction between the last
\* durable one and the last one.
LEMMA CrashFacts ==
  ASSUME LogInv, Crash
  PROVE  /\ \A s \in Tx : frames'[s] = {f \in frames[s] : f <= wlast'}
         /\ wlast' \in LSN /\ synced <= wlast' /\ wlast' <= wlast
         /\ names \subseteq names' /\ names' \cup unlinked' \subseteq names \cup unlinked
         /\ names' \subseteq names \cup final
         /\ unlinked' \subseteq unlinked \ names'
         /\ UNCHANGED <<synced, confirmed, target>>
<1> USE LogTypes, Bounds DEF LogInv, LogParts
<1>1. PICK k \in synced..wlast :
         /\ frames' = [s \in Tx |-> IF s \in final THEN frames[s]
                                    ELSE {f \in frames[s] : f <= k}]
         /\ wlast' = k
  BY DEF Crash
<1>2. k \in LSN /\ synced <= k /\ k <= wlast
  BY Prefix
<1>3. \A s \in final : frames[s] = {f \in frames[s] : f <= k}
  <2>1. ASSUME NEW s \in final, NEW f \in frames[s] PROVE f <= k
    <3>1. f \in Int /\ f <= synced /\ synced \in Int /\ k \in Int
      BY <1>2 DEF FinalInv
    <3> QED
      BY <1>2, <3>1
  <2> QED
    BY <2>1
<1>4. \A s \in Tx : frames'[s] = {f \in frames[s] : f <= k}
  BY <1>1, <1>3
<1>5. PICK back \in SUBSET unlinked :
         names' = names \cup back /\ unlinked' = unlinked \ back
  BY DEF Crash
<1>6. /\ names \subseteq names' /\ names' \cup unlinked' \subseteq names \cup unlinked
      /\ names' \subseteq names \cup final
      /\ unlinked' \subseteq unlinked \ names'
  BY <1>5 DEF RenameInv
<1> QED
  BY <1>1, <1>2, <1>4, <1>6 DEF Crash, srcVars, tgtVars

LEMMA CrashKeeps == ASSUME LogInv, Crash PROVE LogParts'
<1> USE LogTypes, Bounds DEF LogInv, LogParts
<1>1. /\ WriterInv' /\ ChanInv' /\ CatalogInv' /\ GateInv'
      /\ latest' = 0 /\ up' = FALSE
  BY DownKeeps DEF Crash
<1> DEFINE k == wlast'
<1>2. /\ \A s \in Tx : frames'[s] = {f \in frames[s] : f <= k}
      /\ k \in LSN /\ synced <= k /\ k <= wlast
      /\ names \subseteq names' /\ names' \cup unlinked' \subseteq names \cup unlinked
      /\ names' \subseteq names \cup final
      /\ unlinked' \subseteq unlinked \ names'
      /\ UNCHANGED <<synced, confirmed, target>>
  BY CrashFacts
<1>3. \/ UNCHANGED <<final, renamed>>
      \/ final' = final \ {renamed} /\ renamed' = 0
  BY DEF Crash
<1> HIDE DEF k
<1>4. \A s \in Tx : \A f \in frames[s] : f \in Tx /\ f \in Int
  OBVIOUS
<1>5. OrderInv'
  BY <1>1, <1>2 DEF OrderInv, k
<1>6. FilesInv'
  <2>1. ASSUME NEW s \in Tx, NEW f \in frames'[s]
        PROVE  /\ s <= f /\ f <= k
               /\ \A t \in Tx : s <= t /\ t <= f => t \in frames'[s]
    <3>1. f \in frames[s] /\ f <= k /\ f \in Tx
      BY <1>2, <1>4, <2>1
    <3>2. ASSUME NEW t \in Tx, s <= t, t <= f PROVE t \in frames'[s]
      <4>1. t \in frames[s]
        BY <3>1, <3>2 DEF FilesInv
      <4>2. t <= k
        BY <1>2, <3>1, <3>2
      <4> QED
        BY <1>2, <4>1, <4>2
    <3> QED
      BY <3>1, <3>2 DEF FilesInv
  <2> QED
    BY <2>1 DEF FilesInv, k
<1>7. DisjointInv'
  <2>1. ASSUME NEW d \in Tx, d \in names' \/ d \in frames'[d]
        PROVE  d \in names \/ d \in frames[d]
    BY <1>2, <2>1 DEF FinalInv
  <2>2. \A s \in Tx : frames'[s] \subseteq frames[s]
    BY <1>2
  <2> QED
    BY <2>1, <2>2 DEF DisjointInv
<1>8. ASSUME NEW s \in final
      PROVE  frames'[s] = frames[s] /\ s \in frames[s] /\ s <= synced
             /\ \A f \in frames[s] : f <= synced
  <2>1. s \in frames[s] /\ \A f \in frames[s] : f <= synced
    BY DEF FinalInv
  <2>2. \A f \in frames[s] : f <= k
    BY <1>2, <1>4, <2>1
  <2> QED
    BY <1>2, <2>1, <2>2
<1>9. FinalInv'
  BY <1>2, <1>3, <1>8 DEF FinalInv
<1>10. PartialInv'
  <2>1. ASSUME NEW p \in names' \ final'
        PROVE  /\ \A s \in names' \cup unlinked' : s <= p
               /\ p <= synced + 1
               /\ \A t \in Tx : p <= t /\ t <= k => t \in frames'[p]
               /\ p = 1 \/ (p \in frames'[p] /\ p <= synced)
                    \/ \E s \in names' \cap final' : p - 1 \in frames'[s]
    <3>1. p \in Tx
      BY <1>2
    <3>2. CASE p \in names \ final
      <4>1. /\ \A s \in names \cup unlinked : s <= p
            /\ p <= synced + 1
            /\ \A t \in Tx : p <= t /\ t <= wlast => t \in frames[p]
            /\ p = 1 \/ (p \in frames[p] /\ p <= synced)
                 \/ \E s \in names \cap final : p - 1 \in frames[s]
        BY <3>2 DEF PartialInv
      <4>2. final' = final
        <5>1. renamed = 0 /\ 0 \notin final
          BY <3>2 DEF RenameInv
        <5> QED
          BY <1>3, <5>1
      <4>3. \A t \in Tx : p <= t /\ t <= k => t \in frames'[p]
        BY <1>2, <3>1, <4>1
      <4>4. p \in frames[p] /\ p <= synced => p \in frames'[p]
        BY <1>2, <3>1
      <4>5. \A s \in names \cap final : s \in names' \cap final' /\ frames'[s] = frames[s]
        BY <1>2, <1>8, <4>2
      <4> QED
        BY <1>2, <4>1, <4>3, <4>4, <4>5
    <3>3. CASE p \notin names \ final
      <4>1. p = renamed /\ renamed # 0 /\ p \in final
        BY <1>2, <1>3, <2>1, <3>1, <3>3
      <4>2. /\ \A s \in names \cup unlinked : s <= p
            /\ wlast \in frames[p]
        BY <4>1 DEF RenameInv
      <4>3. \A t \in Tx : p <= t /\ t <= wlast => t \in frames[p]
        BY <3>1, <4>2 DEF FilesInv
      <4>4. frames'[p] = frames[p] /\ p \in frames[p] /\ p <= synced
        BY <1>8, <4>1
      <4>5. \A t \in Tx : p <= t /\ t <= k => t \in frames'[p]
        BY <1>2, <4>3, <4>4
      <4>6. p <= synced + 1
        BY <3>1, <4>4
      <4> QED
        BY <1>2, <4>2, <4>4, <4>5, <4>6
    <3> QED
      BY <3>2, <3>3
  <2> QED
    BY <1>2, <2>1 DEF PartialInv, k
<1>11. KeptInv'
  <2>1. ASSUME NEW t \in Tx, t <= k
        PROVE  t <= target \/ \E s \in names' : t \in frames'[s]
    <3>1. t <= wlast
      BY <1>2, <2>1
    <3>2. t <= target \/ \E s \in names : t \in frames[s]
      BY <3>1 DEF KeptInv
    <3> QED
      BY <1>2, <2>1, <3>2
  <2>2. ASSUME k # 0
        PROVE  \E s \in names' : k \in frames'[s]
    <3>1. k \in Tx /\ wlast # 0
      BY <1>2, <2>2
    <3>2. PICK p \in names : wlast \in frames[p]
      BY <3>1 DEF KeptInv
    <3>3. \E s \in names : k \in frames[s]
      <4>1. CASE k = wlast
        BY <3>2, <4>1
      <4>2. CASE k # wlast /\ p <= k
        BY <1>2, <3>1, <3>2, <4>2 DEF FilesInv
      <4>3. CASE k # wlast /\ ~(p <= k)
        <5>1. p \in names \ final
          BY <1>2, <3>2, <4>3 DEF FinalInv
        <5>2. /\ p <= synced + 1
              /\ p = 1 \/ p <= synced \/ \E s \in names \cap final : p - 1 \in frames[s]
          BY <5>1 DEF PartialInv
        <5>3. p \in Int /\ k \in Int /\ k > 0 /\ synced \in Int /\ p >= 1
          BY <3>1
        <5>4. p - 1 = k /\ p # 1 /\ ~(p <= synced)
          BY <1>2, <4>3, <5>2, <5>3
        <5> QED
          BY <5>2, <5>4
      <4> QED
        BY <4>1, <4>2, <4>3
    <3>4. PICK s \in names : k \in frames[s]
      BY <3>3
    <3>5. k <= k /\ s \in Tx
      BY <3>1
    <3>6. k \in frames'[s]
      BY <1>2, <3>4, <3>5
    <3> QED
      BY <1>2, <3>6
  <2> QED
    BY <1>2, <2>1, <2>2 DEF KeptInv, k
<1>12. RenameInv'
  <2>1. unlinked' \subseteq final' \ names'
    BY <1>2, <1>3 DEF RenameInv
  <2>2. ASSUME renamed' # 0
        PROVE  /\ renamed' \in names' \cap final' /\ names' \subseteq final'
               /\ \A s \in names' \cup unlinked' : s <= renamed'
               /\ k \in frames'[renamed']
    <3>1. UNCHANGED <<final, renamed>> /\ renamed # 0
      BY <1>3, <2>2
    <3>2. /\ renamed \in names \cap final /\ names \subseteq final
          /\ \A s \in names \cup unlinked : s <= renamed
          /\ wlast \in frames[renamed]
      BY <3>1 DEF RenameInv
    <3>3. wlast <= synced /\ frames'[renamed] = frames[renamed]
      BY <1>8, <3>2
    <3>4. k = wlast
      BY <1>2, <3>3
    <3> QED
      BY <1>2, <3>1, <3>2, <3>3, <3>4
  <2> QED
    BY <2>1, <2>2 DEF RenameInv, k
<1> QED
  BY <1>1, <1>5, <1>6, <1>7, <1>9, <1>10, <1>11, <1>12

LEMMA RestartKeeps == ASSUME LogInv, Restart PROVE LogParts'
<1> USE LogTypes, Bounds DEF LogInv, LogParts
<1>1. PICK e \in LSN :
        /\ IsLogEnd(e, names, frames)
        /\ wlast' = e /\ wdur' = e /\ watermark' = e /\ synced' = e
  BY DEF Restart
<1>2. e = wlast
  <2>1. e <= wlast
    BY <1>1 DEF IsLogEnd, FilesInv
  <2>2. wlast <= e
    BY <1>1 DEF IsLogEnd, KeptInv
  <2> QED
    BY <2>1, <2>2
<1>3. UNCHANGED <<names, final, frames, renamed, unlinked, target, confirmed, latest,
                  wpc, wcur, session, chan, sentTo, apc, batch, progress, rdur, ppc,
                  prem>>
  BY DEF Restart, srcVars, recvVars, rdVars, apVars, tgtVars
<1>4. wpc = "idle" /\ session = "down" /\ chan = << >> /\ apc = "down" /\ up'
  BY DEF Restart, TypeInv, WriterStep, ChanInv, GateInv
<1>5. OrderInv'
  BY <1>1, <1>2, <1>3 DEF OrderInv
<1>6. FilesInv' /\ DisjointInv' /\ KeptInv' /\ RenameInv'
  BY <1>1, <1>2, <1>3, UnchangedParts
<1>7. FinalInv'
  BY <1>1, <1>2, <1>3 DEF FinalInv, FilesInv
<1>8. PartialInv'
  <2>1. synced' \in LSN /\ synced' >= synced
    BY <1>1, <1>2 DEF OrderInv
  <2> QED
    BY <1>1, <1>2, <1>3, <2>1, MonotoneParts
<1>9. WriterInv'
  <2>1. /\ wtail' # 0 => wtail' \in names' \ final'
        /\ wtail' = 0 => names' \subseteq final' /\ synced' = wlast'
    BY <1>1, <1>3 DEF Restart
  <2> QED
    BY <1>3, <1>4, <2>1 DEF WriterInv
<1>10. ChanInv' /\ GateInv'
  BY <1>3, <1>4 DEF ChanInv, GateInv
<1>11. CatalogInv'
  BY <1>3 DEF Restart, CatalogInv
<1> QED
  BY <1>5, <1>6, <1>7, <1>8, <1>9, <1>10, <1>11

-----------------------------------------------------------------------------
\* Every step keeps the log invariant.
LEMMA LogNext == LogInv /\ [Next]_vars => LogInv'
<1> SUFFICES ASSUME LogInv, [Next]_vars PROVE LogInv'
  OBVIOUS
<1>1. TypeInv'
  BY TypeNext DEF LogInv
<1>2. LogParts'
  <2>1. CASE SourceCommit
    BY <2>1, UnchangedParts DEF LogInv, LogParts, SourceCommit, recvVars, wrVars,
       diskVars, prVars, rdVars, apVars, tgtVars, envVars
  <2>2. CASE Receiver
    BY <2>2, ReceiverKeeps DEF Receiver
  <2>3. CASE Persister
    BY <2>3, DiscardKeeps, BeginKeeps, FinishKeeps, RotateSyncKeeps,
       RotateRenameKeeps, RotateDirSyncKeeps, PersisterSyncKeeps DEF Persister
  <2>4. CASE Applier
    BY <2>4, ConnectKeeps, ReaderKeeps, CommitKeeps DEF Applier
  <2>5. CASE Pruner
    BY <2>5, PruneRemoveKeeps, PruneDirSyncKeeps DEF Pruner
  <2>6. CASE Fault
    BY <2>6, ReceiverKeeps, CommitKeeps, ExitKeeps, CrashKeeps DEF Fault
  <2>7. CASE Restart
    BY <2>7, RestartKeeps
  <2>8. CASE UNCHANGED vars
    BY <2>8, UnchangedParts DEF LogInv, LogParts, vars, srcVars, recvVars, wrVars,
       diskVars, prVars, rdVars, apVars, tgtVars, envVars
  <2> QED
    BY <2>1, <2>2, <2>3, <2>4, <2>5, <2>6, <2>7, <2>8 DEF Next
<1> QED
  BY <1>1, <1>2 DEF LogInv

\* The log invariant holds in every reachable state.
LEMMA LogInvariant == Spec => []LogInv
BY LogInit, LogNext, PTL DEF Spec

\* What the properties say follows from the invariant.
LEMMA LogImplies ==
  LogInv => /\ AckedIsKept /\ WatermarkCoversSlot /\ AppliedIsDurable
            /\ DirectoryRecovers /\ CatalogOnDisk
<1> SUFFICES ASSUME LogInv
             PROVE  /\ AckedIsKept /\ WatermarkCoversSlot /\ AppliedIsDurable
                    /\ DirectoryRecovers /\ CatalogOnDisk
  OBVIOUS
<1> USE LogTypes, Bounds DEF LogInv, LogParts
<1>1. AckedIsKept
  <2>1. ASSUME NEW t \in 1..confirmed
        PROVE  t <= target \/ (t <= synced /\ \E s \in names : t \in frames[s])
    <3>1. confirmed \in Int /\ synced \in Int /\ wlast \in Int /\ confirmed <= N /\ N \in Int
          /\ confirmed <= synced /\ synced <= wlast
      BY DEF OrderInv
    <3>2. t \in Tx /\ t <= synced /\ t <= wlast
      BY <3>1 DEF Tx
    <3> QED
      BY <3>2 DEF KeptInv
  <2> QED
    BY <2>1 DEF AckedIsKept
<1>2. WatermarkCoversSlot /\ AppliedIsDurable
  BY DEF WatermarkCoversSlot, AppliedIsDurable, OrderInv
<1>3. DirectoryRecovers
  BY DEF DirectoryRecovers, RecoverableDirectory, PartialInv
<1>4. CatalogOnDisk
  BY DEF CatalogOnDisk, CatalogInv
<1> QED
  BY <1>1, <1>2, <1>3, <1>4

\* No transaction the receiver confirmed to the slot can be lost: the target
\* has it, or it is fsynced in a segment of the directory.
THEOREM AckedIsKeptAlways == Spec => []AckedIsKept
BY LogInvariant, LogImplies, PTL

\* After any sequence of prunes, exits and crashes the watermark that OpenWriter
\* rebuilds covers what the slot has confirmed.
THEOREM WatermarkCoversSlotAlways == Spec => []WatermarkCoversSlot
BY LogInvariant, LogImplies, PTL

\* The applier never commits what a crash could still remove from the log.
THEOREM AppliedIsDurableAlways == Spec => []AppliedIsDurable
BY LogInvariant, LogImplies, PTL

\* recoverDirectoryWithConfig accepts the directory at any moment a crash can
\* leave it.
THEOREM DirectoryRecoversAlways == Spec => []DirectoryRecovers
BY LogInvariant, LogImplies, PTL

\* prune never finds a cataloged segment missing from the directory.
THEOREM CatalogOnDiskAlways == Spec => []CatalogOnDisk
BY LogInvariant, LogImplies, PTL

-----------------------------------------------------------------------------
(***************************************************************************)
(* The reader's invariant: what it has still to deliver, what it has       *)
(* delivered already, and which files its snapshot may name.  Every        *)
(* transaction of the log beyond the batch is ahead of the reader, and     *)
(* nothing in the batch is.                                                *)
(***************************************************************************)

\* The last transaction collected.
Reach == progress + Len(batch)

\* The files that the reader has yet to open.
AheadFiles ==
  {s \in names : /\ ropen => s > rat
                 /\ ~ropen /\ rat # 0 => s >= rat
                 /\ rat = 0 => \A d \in rsnap : s > d}

\* The target has applied 1, 2, 3 and so on up to its progress.
AppliedInv == Len(done) = target /\ \A i \in 1..Len(done) : done[i] = i

\* An applier without a connection has no reader.
IdleInv == apc = "down" => /\ ~ropen /\ rat = 0 /\ rpos = 0 /\ rpend = 0
                           /\ rsnap = {} /\ rpart = {}

\* A batch continues the progress without a gap; a new one begins with a refresh.
BatchInv == /\ \A i \in 1..Len(batch) : batch[i] = progress + i
            /\ apc # "down" => progress <= rdur
            /\ apc = "refresh" => batch = << >>

\* The snapshot: a name that is gone was a whole file, the partial one is its
\* last, what is not in it is newer, and only finalized files were passed.
SnapInv ==
  /\ rat # 0 => rat \in rsnap
  /\ ropen => rat # 0
  /\ rpart \subseteq rsnap /\ rsnap \ rpart \subseteq final
  /\ \A s \in rsnap : s \in names \/ s \in frames[s]
  /\ \A p \in rpart : \A s \in rsnap : s <= p
  /\ \A d \in names \ rsnap : \A s \in rsnap : s < d
  /\ rat = 0 => rpart = {}

\* A transaction held back is the next one.
HeldInv == /\ rpos <= wlast
           /\ rpend # 0 => /\ ropen /\ rpend = rpos /\ rpend = Reach + 1
                           /\ rpend \in frames[rat]

\* Nothing beyond the batch is lost: it is in the rest of the open file, or in
\* a file that the reader has yet to open.
Ahead(t) == \/ ropen /\ t \in frames[rat] /\ t > rpos
            \/ \E s \in AheadFiles : t \in frames[s]
AheadInv ==
  apc # "down" => \A t \in Tx : Reach < t /\ t <= wlast /\ t # rpend => Ahead(t)

\* Nothing of the batch is read twice.
PastInv ==
  batch # << >> => /\ \A s \in AheadFiles : s > Reach
                   /\ ropen => \A f \in frames[rat] : f > rpos => f > Reach

\* An open partial file has its name, and what followed it is beyond the gate.
OpenInv == ropen /\ rat \in rpart => rat \in names /\ \A s \in names : s > rat => s > rdur

ReaderInv == /\ AppliedInv /\ IdleInv /\ BatchInv /\ SnapInv /\ HeldInv
             /\ AheadInv /\ PastInv /\ OpenInv

-----------------------------------------------------------------------------
\* The types of what the steps of the reader are about.
Typed ==
  /\ N \in Nat
  /\ wlast \in LSN /\ synced \in LSN /\ watermark \in LSN /\ latest \in LSN
  /\ target \in LSN /\ progress \in LSN /\ rdur \in LSN
  /\ rat \in LSN /\ rpos \in LSN /\ rpend \in LSN /\ ropen \in BOOLEAN
  /\ names \subseteq Tx /\ final \subseteq Tx /\ rsnap \subseteq Tx /\ rpart \subseteq Tx
  /\ frames \in [Tx -> SUBSET Tx]
  /\ batch \in Seq(Tx) /\ done \in Seq(Tx)
  /\ Len(batch) \in Nat /\ (batch = << >> <=> Len(batch) = 0)
  /\ Reach \in Int /\ Reach >= progress

LEMMA ReaderTypes == LogInv => Typed /\ LogParts
<1> SUFFICES ASSUME LogInv PROVE Typed
  BY DEF LogInv
<1>1. /\ rsnap \subseteq Tx /\ rpart \subseteq Tx /\ rat \in LSN /\ ropen \in BOOLEAN
      /\ rpos \in LSN /\ rpend \in LSN /\ batch \in Seq(Tx) /\ done \in Seq(Tx)
      /\ progress \in LSN
  BY DEF LogInv, TypeInv, TypeOK, RdType, ApType, TgtType
<1>2. Len(batch) \in Nat /\ (batch = << >> <=> Len(batch) = 0)
  BY <1>1
<1>3. Reach \in Int /\ Reach >= progress
  BY <1>1, <1>2, ConstAssumption DEF Reach, LSN
<1> QED
  BY <1>1, <1>2, <1>3, LogTypes, ConstAssumption DEF Typed

LEMMA ReaderInit == Init => ReaderInv
BY DEF Init, VolatileInit, ReaderInv, AppliedInv, IdleInv, BatchInv, SnapInv, HeldInv,
       AheadInv, PastInv, OpenInv, Reach

\* A step that touches nothing of the reader, its files or the target.
LEMMA ReaderUnchanged ==
  ASSUME ReaderInv, UNCHANGED <<names, final, frames, wlast, rdVars, apVars, tgtVars>>
  PROVE  ReaderInv'
BY DEF ReaderInv, AppliedInv, IdleInv, BatchInv, SnapInv, HeldInv, AheadInv, PastInv,
       OpenInv, Ahead, AheadFiles, Reach, rdVars, apVars, tgtVars

\* A step that ends the connection.
LEMMA ReaderEnds ==
  ASSUME LogInv', ApplierReset, AppliedInv'
  PROVE  ReaderInv'
<1>1. wlast' \in LSN
  BY DEF LogInv, TypeInv, TypeOK, WrType
<1> QED
  BY <1>1, Bounds DEF ReaderInv, IdleInv, BatchInv, SnapInv, HeldInv, AheadInv, PastInv, OpenInv,
       ApplierReset

\* A removed file has a later one.
LEMMA LaterName ==
  ASSUME Typed, LogParts, NEW s \in Tx, s \notin names, s \in frames[s]
  PROVE  \E d \in names : s < d
<1> USE DEF Typed, Tx, LSN
<1>1. s <= wlast
  BY DEF LogParts, FilesInv
<1>2. PICK d \in names : wlast \in frames[d]
  BY <1>1 DEF LogParts, KeptInv
<1>3. d \in Tx /\ d # s
  BY <1>2
<1>4. ~(d < s)
  BY <1>1, <1>2, <1>3 DEF LogParts, DisjointInv
<1> QED
  BY <1>2, <1>3, <1>4

\* The partial file is at or after every file of the snapshot.
LEMMA TailIsLast ==
  ASSUME Typed, LogParts, ReaderInv, NEW p \in names \ final, NEW s \in rsnap
  PROVE  s <= p /\ (s \in final => s < p)
<1> USE DEF Typed, Tx, LSN
<1>1. \A d \in names : d <= p
  BY DEF LogParts, PartialInv
<1>2. CASE s \in names
  BY <1>1, <1>2
<1>3. CASE s \notin names
  <2>1. s \in frames[s] /\ s \in Tx
    BY <1>3 DEF ReaderInv, SnapInv
  <2>2. PICK d \in names : s < d
    BY <1>3, <2>1, LaterName
  <2> QED
    BY <1>1, <2>1, <2>2
<1> QED
  BY <1>2, <1>3

-----------------------------------------------------------------------------
\* The next frame of the open file, if the target lacks it, is the one after
\* the batch, and the files ahead lie behind it.
LEMMA NextIsDue ==
  ASSUME Typed, LogParts, ReaderInv, apc = "read", ropen, rpend = 0,
         NEW t \in Tx, NextFrame(t), t > progress
  PROVE  t = Reach + 1 /\ t \in frames[rat] /\ t <= wlast
<1> USE DEF Typed, Tx, LSN
<1>1. t \in frames[rat] /\ t > rpos /\ rat \in Tx
  BY DEF NextFrame, ReaderInv, SnapInv
<1>2. t <= wlast
  BY <1>1 DEF LogParts, FilesInv
<1>3. t > Reach
  <2>1. CASE batch = << >>
    BY <2>1 DEF Reach
  <2>2. CASE batch # << >>
    BY <1>1, <2>2 DEF ReaderInv, PastInv
  <2> QED
    BY <2>1, <2>2
<1>4. Reach + 1 \in Tx /\ Reach + 1 <= wlast /\ Reach + 1 # rpend
  BY <1>2, <1>3
<1>5. Ahead(Reach + 1)
  BY <1>4 DEF ReaderInv, AheadInv
<1>6. CASE Reach + 1 \in frames[rat] /\ Reach + 1 > rpos
  BY <1>1, <1>2, <1>3, <1>6 DEF NextFrame
<1>7. CASE \E s \in AheadFiles : Reach + 1 \in frames[s]
  <2>1. PICK s \in AheadFiles : Reach + 1 \in frames[s]
    BY <1>7
  <2>2. s \in names /\ s > rat /\ s \in Tx
    BY <2>1 DEF AheadFiles
  <2>3. s <= Reach + 1
    BY <2>1, <2>2 DEF LogParts, FilesInv
  <2>4. t < s
    BY <1>1, <2>2 DEF LogParts, DisjointInv
  <2> QED
    BY <1>3, <2>2, <2>3, <2>4
<1> QED
  BY <1>1, <1>2, <1>5, <1>6, <1>7 DEF Ahead

\* Every file ahead of an open one lies behind what that holds.
LEMMA AheadIsLater ==
  ASSUME Typed, LogParts, ReaderInv, ropen, NEW t \in frames[rat], NEW s \in AheadFiles
  PROVE  s > t
<1> USE DEF Typed, Tx, LSN
<1>1. rat \in Tx /\ s \in names /\ s > rat
  BY DEF ReaderInv, SnapInv, AheadFiles
<1> QED
  BY <1>1 DEF LogParts, DisjointInv
-----------------------------------------------------------------------------
\* What the steps of the reader leave alone.
Rest == UNCHANGED <<names, final, frames, wlast, target, done>>

LEMMA RestKept == ReaderFrameCond => Rest
BY DEF ReaderFrameCond, Rest, wrVars, diskVars, tgtVars

LEMMA AppliedKept == AppliedInv /\ UNCHANGED <<target, done>> => AppliedInv'
BY DEF AppliedInv

\* A new listing.
LEMMA ListingKeeps ==
  ASSUME Typed, LogParts, Rest, rsnap' = names, rpart' = names \ final,
         rat' \in rsnap' \cup {0}, ropen' => rat' # 0, rat' = 0 => names \subseteq final
  PROVE  SnapInv'
<1> USE DEF Typed, Tx, LSN
<1>1. \A s \in final : s \in frames[s]
  BY DEF LogParts, FinalInv
<1>2. \A p \in names \ final : \A s \in names : s <= p
  BY DEF LogParts, PartialInv
<1> QED
  BY <1>1, <1>2 DEF SnapInv, Rest

\* runConnection.
LEMMA ConnectReads ==
  ASSUME Typed, LogParts, ReaderInv, ApplierConnect PROVE ReaderInv'
<1> USE DEF Typed, Tx, LSN
<1>1. Rest
  BY DEF ApplierConnect, Rest, wrVars, diskVars, tgtVars
<1>2. PICK s \in LSN : IsFirstFrom(s, 0, names) /\ rat' = s
  BY DEF ApplierConnect
<1>3. /\ rsnap' = names /\ rpart' = names \ final /\ batch' = << >> /\ progress' = target
      /\ ropen' = FALSE /\ rpos' = 0 /\ rpend' = 0 /\ rdur' = watermark
      /\ apc' = "refresh" /\ up
  BY DEF ApplierConnect
<1>4. rat' = 0 => names = {}
  BY <1>2 DEF IsFirstFrom
<1>5. rat' # 0 => rat' \in names /\ \A d \in names : rat' <= d
  BY <1>2 DEF IsFirstFrom
<1>6. AppliedInv'
  BY <1>1, AppliedKept DEF ReaderInv, Rest
<1>7. SnapInv'
  BY <1>1, <1>3, <1>4, <1>5, ListingKeeps
<1>8. AheadFiles' = names
  BY <1>1, <1>3, <1>4, <1>5 DEF AheadFiles, Rest
<1>9. Reach' = target
  BY <1>3 DEF Reach
<1>10. AheadInv'
  BY <1>1, <1>8, <1>9 DEF AheadInv, Ahead, Rest, LogParts, KeptInv
<1>11. target <= watermark
  BY <1>3 DEF LogParts, OrderInv
<1>12. HeldInv'
  BY <1>1, <1>3 DEF HeldInv, Rest
<1> QED
  BY <1>3, <1>6, <1>7, <1>10, <1>11, <1>12 DEF ReaderInv, IdleInv, BatchInv, PastInv, OpenInv

\* Refresh.
LEMMA RefreshReads ==
  ASSUME Typed, LogParts, ReaderInv, Refresh PROVE ReaderInv'
<1> USE DEF Typed, Tx, LSN
<1>1. Rest
  BY DEF Refresh, Rest, wrVars, diskVars, tgtVars
<1>2. /\ apc = "refresh" /\ apc' = "read" /\ rdur' = watermark /\ up
      /\ UNCHANGED <<ropen, rpos, rpend, batch, progress>>
  BY DEF Refresh
<1>3. batch = << >> /\ batch' = << >>
  BY <1>2 DEF ReaderInv, BatchInv
<1>4. Reach' = Reach
  BY <1>2 DEF Reach
<1>5. AppliedInv' /\ IdleInv'
  BY <1>1, <1>2, AppliedKept DEF ReaderInv, Rest, IdleInv
<1>6. BatchInv'
  <2>1. progress = target /\ target <= watermark
    BY <1>2 DEF LogParts, GateInv, OrderInv
  <2> QED
    BY <1>2, <1>3, <2>1 DEF BatchInv
<1>7. PastInv'
  BY <1>3 DEF PastInv
<1>8. CASE ropen /\ rat \notin names
  <2>1. UNCHANGED <<rsnap, rpart, rat>> /\ rat \notin rpart
    BY <1>8 DEF Refresh, ReaderInv, OpenInv
  <2>2. AheadFiles' = AheadFiles
    BY <1>1, <1>2, <2>1 DEF AheadFiles, Rest
  <2> QED
    BY <1>1, <1>2, <1>4, <1>5, <1>6, <1>7, <2>1, <2>2
       DEF ReaderInv, SnapInv, HeldInv, AheadInv, Ahead, OpenInv, Rest
<1>9. CASE ropen /\ rat \in names
  <2>1. rsnap' = names /\ rpart' = names \ final /\ rat' = rat
    BY <1>9 DEF Refresh
  <2>2. rat # 0
    BY <1>9 DEF ReaderInv, SnapInv
  <2>3. SnapInv'
    BY <1>1, <1>2, <1>9, <2>1, <2>2, ListingKeeps
  <2>4. AheadFiles' = AheadFiles
    BY <1>1, <1>2, <1>9, <2>1, <2>2 DEF AheadFiles, Rest
  <2>5. OpenInv'
    BY <1>1, <1>2, <1>9, <2>1 DEF OpenInv, Rest, LogParts, PartialInv
  <2> QED
    BY <1>1, <1>2, <1>4, <1>5, <1>6, <1>7, <2>1, <2>3, <2>4, <2>5
       DEF ReaderInv, HeldInv, AheadInv, Ahead, Rest
<1>10. CASE ~ropen
  <2>1. /\ rsnap' = names /\ rpart' = names \ final
        /\ \E s \in LSN :
             /\ rat' = s
             /\ \/ rat # 0 /\ IsFirstFrom(s, 0, names)
                \/ rat = 0 /\ rsnap = {} /\ IsFirstFrom(s, 0, names)
                \/ /\ rat = 0
                   /\ \E m \in rsnap : /\ \A d \in rsnap : d <= m
                                       /\ IsFirstFrom(s, m + 1, names)
    BY <1>10 DEF Refresh
  <2>2. /\ rat' # 0 => rat' \in names /\ \A s \in AheadFiles : s >= rat'
        /\ rat' = 0 => AheadFiles = {}
    <3>0. rat' \in LSN /\ \A s \in AheadFiles : s \in names /\ s \in Int /\ s > 0
      BY <2>1 DEF AheadFiles
    <3>1. CASE IsFirstFrom(rat', 0, names)
      BY <3>0, <3>1 DEF IsFirstFrom
    <3>2. CASE rat = 0 /\ \E m \in rsnap : /\ \A d \in rsnap : d <= m
                                           /\ IsFirstFrom(rat', m + 1, names)
      <4>1. PICK m \in rsnap : IsFirstFrom(rat', m + 1, names)
        BY <3>2
      <4>2. \A s \in AheadFiles : s > m
        BY <3>2 DEF AheadFiles
      <4>3. \A s \in AheadFiles : s >= m + 1 /\ ~(s < m + 1)
        BY <3>0, <4>1, <4>2
      <4> QED
        BY <3>0, <4>1, <4>3 DEF IsFirstFrom
    <3> QED
      BY <2>1, <3>1, <3>2
  <2>3. rat' = 0 => names \subseteq final
    <3>1. CASE IsFirstFrom(rat', 0, names)
      BY <3>1 DEF IsFirstFrom
    <3>2. CASE rat = 0 /\ \E m \in rsnap : /\ \A d \in rsnap : d <= m
                                           /\ IsFirstFrom(rat', m + 1, names)
      <4>1. PICK m \in rsnap : IsFirstFrom(rat', m + 1, names)
        BY <3>2
      <4>2. m \in final
        BY <3>2 DEF ReaderInv, SnapInv
      <4> SUFFICES ASSUME rat' = 0, NEW p \in names \ final PROVE FALSE
        OBVIOUS
      <4>3. m < p
        BY <4>2, TailIsLast
      <4> QED
        BY <4>1, <4>3 DEF IsFirstFrom
    <3> QED
      BY <2>1, <3>1, <3>2
  <2>4. SnapInv'
    BY <1>1, <1>2, <1>10, <2>1, <2>2, <2>3, ListingKeeps
  <2>5. AheadFiles \subseteq AheadFiles'
    BY <1>1, <1>2, <1>10, <2>1, <2>2 DEF AheadFiles, Rest
  <2>6. AheadInv'
    BY <1>1, <1>2, <1>4, <1>10, <2>5 DEF ReaderInv, AheadInv, Ahead, Rest
  <2>7. HeldInv' /\ OpenInv'
    BY <1>1, <1>2, <1>4, <1>10 DEF ReaderInv, HeldInv, OpenInv, Rest
  <2> QED
    BY <1>5, <1>6, <1>7, <2>4, <2>6, <2>7 DEF ReaderInv
<1> QED
  BY <1>8, <1>9, <1>10

\* Next opens a file.
LEMMA OpenReads ==
  ASSUME Typed, LogParts, ReaderInv, ReaderOpen PROVE ReaderInv'
<1> USE DEF Typed, Tx, LSN
<1>1. Rest /\ UNCHANGED <<rsnap, rpart, rat, rpend, rdur, apc, batch, progress>>
  BY DEF ReaderOpen, Rest, wrVars, diskVars, tgtVars, apVars
<1>2. /\ apc = "read" /\ rpend = 0 /\ ~ropen /\ rat # 0 /\ rat \in names
      /\ (rat \in rpart <=> rat \notin final) /\ ropen' = TRUE /\ rpos' = 0
  BY DEF ReaderOpen, Reading
<1>3. Reach' = Reach
  BY <1>1 DEF Reach
<1>4. AheadFiles' = AheadFiles \ {rat} /\ rat \in AheadFiles
  <2>1. AheadFiles = {s \in names : s >= rat}
    BY <1>2 DEF AheadFiles
  <2>2. AheadFiles' = {s \in names : s > rat}
    BY <1>1, <1>2 DEF AheadFiles, Rest
  <2>3. \A s \in names : s > rat <=> s >= rat /\ s # rat
    OBVIOUS
  <2>4. rat >= rat
    OBVIOUS
  <2>5. \A s : s \in {d \in names : d > rat} <=> s \in {d \in names : d >= rat} /\ s # rat
    BY <2>3
  <2> QED
    BY <1>2, <2>1, <2>2, <2>4, <2>5, Zenon
<1>5. AppliedInv'
  BY <1>1, AppliedKept DEF ReaderInv, Rest
<1>6. IdleInv' /\ BatchInv' /\ HeldInv'
  BY <1>1, <1>2, <1>3 DEF ReaderInv, IdleInv, BatchInv, HeldInv, Rest
<1>7. SnapInv'
  BY <1>1, <1>2 DEF ReaderInv, SnapInv, Rest
<1>8. AheadInv'
  <2> SUFFICES ASSUME NEW t \in Tx, Reach < t, t <= wlast PROVE Ahead(t)'
    BY <1>1, <1>2, <1>3 DEF AheadInv, Rest
  <2>1. t # rpend
    BY <1>2
  <2>2. Ahead(t)
    BY <1>2, <2>1 DEF ReaderInv, AheadInv
  <2>3. PICK s \in AheadFiles : t \in frames[s]
    BY <1>2, <2>2 DEF Ahead
  <2> QED
    BY <1>1, <1>2, <1>4, <2>3 DEF Ahead, Rest
<1>9. PastInv'
  <2>1. ASSUME batch # << >>, NEW f \in frames[rat] PROVE f > Reach
    <3>1. rat > Reach
      BY <1>4, <2>1 DEF ReaderInv, PastInv
    <3>2. rat <= f /\ f \in Int /\ rat \in Int
      BY <1>2, <2>1 DEF LogParts, FilesInv
    <3> QED
      BY <3>1, <3>2
  <2> QED
    BY <1>1, <1>2, <1>3, <1>4, <2>1 DEF ReaderInv, PastInv, Rest
<1>10. OpenInv'
  BY <1>1, <1>2 DEF OpenInv, Rest, LogParts, PartialInv
<1> QED
  BY <1>5, <1>6, <1>7, <1>8, <1>9, <1>10 DEF ReaderInv

\* Next finds the name gone and lists again.
LEMMA RelistReads ==
  ASSUME Typed, LogParts, ReaderInv, ReaderRelist PROVE ReaderInv'
<1> USE DEF Typed, Tx, LSN
<1>1. Rest /\ UNCHANGED <<ropen, rpos, rpend, rdur, apc, batch, progress>>
  BY DEF ReaderRelist, Rest, wrVars, diskVars, tgtVars, apVars
<1>2. /\ apc = "read" /\ rpend = 0 /\ ~ropen /\ rat # 0 /\ rat \in rsnap
      /\ rsnap' = names /\ rpart' = names \ final
  BY DEF ReaderRelist, Reading, ReaderInv, SnapInv
<1>3. rat' \in LSN /\ IsFirstFrom(rat', rat, names)
  BY DEF ReaderRelist
<1>4. \E d \in names : rat <= d
  <2>1. CASE rat \in names
    BY <2>1
  <2>2. CASE rat \notin names
    <3>1. rat \in frames[rat] /\ rat \in Tx
      BY <1>2, <2>2 DEF ReaderInv, SnapInv
    <3> QED
      BY <2>2, <3>1, LaterName
  <2> QED
    BY <2>1, <2>2
<1>5. rat' # 0 /\ rat' \in names /\ rat' >= rat /\ \A d \in names : d >= rat => rat' <= d
  BY <1>3, <1>4 DEF IsFirstFrom
<1>6. Reach' = Reach
  BY <1>1 DEF Reach
<1>7. AheadFiles' = AheadFiles
  <2>1. AheadFiles = {s \in names : s >= rat}
    BY <1>2 DEF AheadFiles
  <2>2. AheadFiles' = {s \in names : s >= rat'}
    BY <1>1, <1>2, <1>5 DEF AheadFiles, Rest
  <2>3. \A s \in names : s >= rat <=> s >= rat'
    BY <1>3, <1>5
  <2> QED
    BY <2>1, <2>2, <2>3
<1>8. AppliedInv'
  BY <1>1, AppliedKept DEF ReaderInv, Rest
<1>9. IdleInv' /\ BatchInv' /\ HeldInv'
  BY <1>1, <1>2, <1>6 DEF ReaderInv, IdleInv, BatchInv, HeldInv, Rest
<1>10. SnapInv'
  BY <1>1, <1>2, <1>5, ListingKeeps
<1>11. AheadInv' /\ PastInv' /\ OpenInv'
  BY <1>1, <1>2, <1>6, <1>7 DEF ReaderInv, AheadInv, Ahead, PastInv, OpenInv, Rest
<1> QED
  BY <1>8, <1>9, <1>10, <1>11 DEF ReaderInv

\* What reading in an open file leaves alone.
SameFile == Rest /\ UNCHANGED <<rsnap, rpart, rat, ropen, rdur, progress>>

LEMMA SameFileKeeps ==
  ASSUME ReaderInv, SameFile
  PROVE  AppliedInv' /\ SnapInv' /\ OpenInv' /\ AheadFiles' = AheadFiles
BY DEF SameFile, Rest, ReaderInv, AppliedInv, SnapInv, OpenInv, AheadFiles

\* A transaction that the target has is skipped.
LEMMA SkipReads ==
  ASSUME Typed, LogParts, ReaderInv, apc = "read", ropen, SameFile,
         NEW t \in Tx, NextFrame(t), t <= progress,
         rpos' = t, rpend' = 0, rpend = 0, UNCHANGED <<apc, batch>>
  PROVE  ReaderInv'
<1> USE DEF Typed, Tx, LSN
<1>1. AppliedInv' /\ SnapInv' /\ OpenInv' /\ AheadFiles' = AheadFiles
  BY SameFileKeeps
<1>2. Reach' = Reach
  BY DEF Reach, SameFile
<1>3. t \in frames[rat] /\ rpos < t /\ rat \in Tx
  BY DEF NextFrame, ReaderInv, SnapInv
<1>4. t <= wlast
  BY <1>3 DEF LogParts, FilesInv
<1>5. IdleInv' /\ BatchInv' /\ HeldInv'
  BY <1>2, <1>4 DEF ReaderInv, IdleInv, BatchInv, HeldInv, SameFile, Rest
<1>6. AheadInv'
  <2> SUFFICES ASSUME NEW u \in Tx, Reach < u, u <= wlast PROVE Ahead(u)'
    BY <1>2 DEF AheadInv, SameFile, Rest
  <2>1. Ahead(u) /\ u > t
    BY DEF ReaderInv, AheadInv
  <2> QED
    BY <1>1, <2>1 DEF Ahead, SameFile, Rest
<1>7. PastInv'
  <2>1. \A f \in frames[rat] : f > t => f > rpos
    BY <1>3
  <2> QED
    BY <1>1, <1>2, <2>1 DEF ReaderInv, PastInv, SameFile, Rest
<1> QED
  BY <1>1, <1>5, <1>6, <1>7 DEF ReaderInv

\* The next transaction joins the batch.
LEMMA CollectReads ==
  ASSUME Typed, LogParts, ReaderInv, apc = "read", ropen, SameFile,
         NEW t \in Tx, t = Reach + 1, t \in frames[rat], t <= wlast, t <= rdur,
         rpos <= t, rpend \in {0, t}, rpos' = t, rpend' = 0,
         batch' = Append(batch, t), apc' \in {"read", "apply"}
  PROVE  ReaderInv'
<1> USE DEF Typed, Tx, LSN
<1>1. AppliedInv' /\ SnapInv' /\ OpenInv' /\ AheadFiles' = AheadFiles
  BY SameFileKeeps
<1>2. /\ Len(batch') = Len(batch) + 1 /\ batch'[Len(batch) + 1] = t
      /\ \A i \in 1..Len(batch) : batch'[i] = batch[i]
      /\ \A i \in 1..Len(batch') : i \in 1..Len(batch) \/ i = Len(batch) + 1
  BY AppendFacts, AppendProperties
<1>3. Reach' = t
  BY <1>2 DEF Reach, SameFile
<1>4. BatchInv'
  <2>1. t = progress + (Len(batch) + 1)
    BY DEF Reach
  <2>2. ASSUME NEW i \in 1..Len(batch') PROVE batch'[i] = progress + i
    <3>1. CASE i \in 1..Len(batch)
      BY <1>2, <3>1 DEF ReaderInv, BatchInv
    <3>2. CASE i = Len(batch) + 1
      BY <1>2, <2>1, <3>2
    <3> QED
      BY <1>2, <3>1, <3>2
  <2> QED
    BY <2>2 DEF ReaderInv, BatchInv, SameFile
<1>5. IdleInv' /\ HeldInv'
  BY DEF IdleInv, HeldInv, SameFile, Rest
<1>6. AheadInv'
  <2> SUFFICES ASSUME NEW u \in Tx, t < u, u <= wlast PROVE Ahead(u)'
    BY <1>3 DEF AheadInv, SameFile, Rest
  <2>1. Ahead(u)
    BY DEF ReaderInv, AheadInv
  <2> QED
    BY <1>1, <2>1 DEF Ahead, SameFile, Rest
<1>7. PastInv'
  <2>1. \A s \in AheadFiles : s > t
    BY AheadIsLater
  <2> QED
    BY <1>1, <1>3, <2>1 DEF PastInv, SameFile, Rest
<1> QED
  BY <1>1, <1>4, <1>5, <1>6, <1>7 DEF ReaderInv

\* The next transaction is held back, by the gate or behind the batch.
LEMMA HoldReads ==
  ASSUME Typed, LogParts, ReaderInv, apc = "read", ropen, SameFile,
         NEW t \in Tx, t = Reach + 1, t \in frames[rat], t <= wlast,
         rpos <= t, rpend \in {0, t}, rpos' = t, rpend' = t, UNCHANGED batch,
         apc' \in {"refresh", "apply"}, apc' = "refresh" => batch = << >>
  PROVE  ReaderInv'
<1> USE DEF Typed, Tx, LSN
<1>1. AppliedInv' /\ SnapInv' /\ OpenInv' /\ AheadFiles' = AheadFiles
  BY SameFileKeeps
<1>2. Reach' = Reach
  BY DEF Reach, SameFile
<1>3. IdleInv' /\ BatchInv' /\ HeldInv'
  BY <1>2 DEF ReaderInv, IdleInv, BatchInv, HeldInv, SameFile, Rest
<1>4. AheadInv'
  <2> SUFFICES ASSUME NEW u \in Tx, Reach < u, u <= wlast, u # t PROVE Ahead(u)'
    BY <1>2 DEF AheadInv, SameFile, Rest
  <2>1. Ahead(u) /\ u > t
    BY DEF ReaderInv, AheadInv
  <2> QED
    BY <1>1, <2>1 DEF Ahead, SameFile, Rest
<1>5. PastInv'
  <2>1. \A f \in frames[rat] : f > t => f > rpos
    <3>1. rat \in Tx
      BY DEF ReaderInv, SnapInv
    <3> QED
      BY <3>1
  <2> QED
    BY <1>1, <1>2, <2>1 DEF ReaderInv, PastInv, SameFile, Rest
<1> QED
  BY <1>1, <1>3, <1>4, <1>5 DEF ReaderInv

\* Next returns a frame within the gate.
LEMMA FrameReads ==
  ASSUME Typed, LogParts, ReaderInv, ReaderFrame PROVE ReaderInv'
<1> USE DEF Typed, Tx, LSN
<1>1. SameFile /\ apc = "read" /\ rpend = 0 /\ ropen
  BY DEF ReaderFrame, Reading, SameFile, Rest, wrVars, diskVars, tgtVars
<1>2. PICK t \in Tx : NextFrame(t) /\ rpos' = t /\ t <= rdur /\ Receive(t)
  BY DEF ReaderFrame
<1>3. CASE t <= progress
  BY <1>1, <1>2, <1>3, SkipReads DEF Receive
<1>4. CASE t > progress
  <2>1. t = Reach + 1 /\ t \in frames[rat] /\ t <= wlast /\ rpos <= t
    <3>1. rpos < t
      BY <1>2 DEF NextFrame
    <3> QED
      BY <1>1, <1>2, <1>4, <3>1, NextIsDue
  <2>2. CASE /\ batch' = Append(batch, t) /\ rpend' = 0
             /\ apc' \in {"read", "apply"}
    BY <1>1, <1>2, <2>1, <2>2, CollectReads
  <2>3. CASE /\ rpend' = t /\ apc' = "apply" /\ UNCHANGED batch
    BY <1>1, <1>2, <2>1, <2>3, HoldReads
  <2> QED
    BY <1>2, <1>4, <2>2, <2>3 DEF Receive
<1> QED
  BY <1>3, <1>4

\* Next holds back a frame above the gate.
LEMMA GateReads ==
  ASSUME Typed, LogParts, ReaderInv, ReaderGate PROVE ReaderInv'
<1> USE DEF Typed, Tx, LSN
<1>1. SameFile /\ apc = "read" /\ rpend = 0 /\ ropen /\ UNCHANGED batch
  BY DEF ReaderGate, EndOfInput, Reading, SameFile, Rest, wrVars, diskVars, tgtVars
<1>2. apc' \in {"refresh", "apply"} /\ (apc' = "refresh" => batch = << >>)
  BY DEF ReaderGate, EndOfInput
<1>3. PICK t \in Tx : NextFrame(t) /\ rpos' = t /\ t > rdur /\ rpend' = t
  BY DEF ReaderGate
<1>4. t > progress /\ rpos <= t
  <2>1. progress <= rdur
    BY <1>1 DEF ReaderInv, BatchInv
  <2>2. rpos < t
    BY <1>3 DEF NextFrame
  <2> QED
    BY <1>3, <2>1, <2>2
<1>5. t = Reach + 1 /\ t \in frames[rat] /\ t <= wlast
  BY <1>1, <1>3, <1>4, NextIsDue
<1> QED
  BY <1>1, <1>2, <1>3, <1>4, <1>5, HoldReads

\* Next finds a transaction that it held back.
LEMMA PendingReads ==
  ASSUME Typed, LogParts, ReaderInv, ReaderPending PROVE ReaderInv'
<1> USE DEF Typed, Tx, LSN
<1>1. SameFile /\ apc = "read" /\ rpend # 0 /\ UNCHANGED rpos
  BY DEF ReaderPending, EndOfInput, Reading, SameFile, Rest, wrVars, diskVars, tgtVars
<1>2. ropen /\ rpend = rpos /\ rpend = Reach + 1 /\ rpend \in frames[rat] /\ rpos <= wlast
  BY <1>1 DEF ReaderInv, HeldInv
<1>3. rpend \in Tx /\ rpend > progress
  BY <1>1, <1>2
<1>4. CASE batch' = Append(batch, rpend) /\ rpend' = 0 /\ apc' \in {"read", "apply"}
           /\ rpend <= rdur
  BY <1>1, <1>2, <1>3, <1>4, CollectReads
<1>5. CASE /\ rpend' = rpend /\ UNCHANGED batch /\ apc' \in {"refresh", "apply"}
           /\ apc' = "refresh" => batch = << >>
  BY <1>1, <1>2, <1>3, <1>5, HoldReads
<1>6. CASE rpend <= rdur
  BY <1>3, <1>4, <1>5, <1>6 DEF ReaderPending, Receive
<1>7. CASE ~(rpend <= rdur)
  BY <1>5, <1>7 DEF ReaderPending, EndOfInput
<1> QED
  BY <1>6, <1>7

\* Next closes a finalized file that it has read.
LEMMA NextSegmentReads ==
  ASSUME Typed, LogParts, ReaderInv, ReaderNextSegment PROVE ReaderInv'
<1> USE DEF Typed, Tx, LSN
<1>1. Rest /\ UNCHANGED <<rsnap, rpart, rpend, rdur, apc, batch, progress>>
  BY DEF ReaderNextSegment, Rest, wrVars, diskVars, tgtVars, apVars
<1>2. /\ apc = "read" /\ rpend = 0 /\ ropen /\ rat \notin rpart
      /\ ropen' = FALSE /\ rpos' = 0 /\ \A f \in frames[rat] : f <= rpos
  BY DEF ReaderNextSegment, Reading
<1>3. rat' \in LSN /\ IsFirstFrom(rat', rat + 1, rsnap)
  BY DEF ReaderNextSegment
<1>4. /\ rat \in rsnap /\ rat \in Tx
      /\ \A d \in names \ rsnap : \A s \in rsnap : s < d
      /\ \A p \in rpart : \A s \in rsnap : s <= p
      /\ rpart \subseteq rsnap
  BY <1>2 DEF ReaderInv, SnapInv
<1>5. /\ rat' # 0 => rat' \in rsnap /\ rat' > rat /\ \A d \in rsnap : d > rat => rat' <= d
      /\ rat' = 0 => \A d \in rsnap : d <= rat
  BY <1>3, <1>4 DEF IsFirstFrom
<1>6. rat' = 0 => rpart = {}
  BY <1>2, <1>4, <1>5
<1>7. Reach' = Reach
  BY <1>1 DEF Reach
<1>8. AheadFiles' = AheadFiles
  <2>1. AheadFiles = {s \in names : s > rat}
    BY <1>2, <1>4 DEF AheadFiles
  <2>2. CASE rat' # 0
    <3>1. AheadFiles' = {s \in names : s >= rat'}
      BY <1>1, <1>2, <2>2 DEF AheadFiles, Rest
    <3>2. \A s \in names : s > rat <=> s >= rat'
      BY <1>3, <1>4, <1>5, <2>2
    <3> QED
      BY <2>1, <3>1, <3>2
  <2>3. CASE rat' = 0
    <3>1. AheadFiles' = {s \in names : \A d \in rsnap : s > d}
      BY <1>1, <1>2, <2>3 DEF AheadFiles, Rest
    <3>2. \A s \in names : s > rat <=> \A d \in rsnap : s > d
      BY <1>4, <1>5, <2>3
    <3> QED
      BY <2>1, <3>1, <3>2
  <2> QED
    BY <2>2, <2>3
<1>9. AppliedInv'
  BY <1>1, AppliedKept DEF ReaderInv, Rest
<1>10. IdleInv' /\ BatchInv' /\ HeldInv' /\ OpenInv'
  BY <1>1, <1>2, <1>7 DEF ReaderInv, IdleInv, BatchInv, HeldInv, OpenInv, Rest
<1>11. SnapInv'
  BY <1>1, <1>2, <1>5, <1>6 DEF ReaderInv, SnapInv, Rest
<1>12. AheadInv'
  <2> SUFFICES ASSUME NEW t \in Tx, Reach < t, t <= wlast PROVE Ahead(t)'
    BY <1>1, <1>2, <1>7 DEF AheadInv, Rest
  <2>1. Ahead(t)
    BY <1>2 DEF ReaderInv, AheadInv
  <2>2. PICK s \in AheadFiles : t \in frames[s]
    BY <1>2, <2>1 DEF Ahead
  <2> QED
    BY <1>1, <1>8, <2>2 DEF Ahead, Rest
<1>13. PastInv'
  BY <1>1, <1>2, <1>7, <1>8 DEF ReaderInv, PastInv, Rest
<1> QED
  BY <1>9, <1>10, <1>11, <1>12, <1>13 DEF ReaderInv

\* Next has nothing to return.
LEMMA EOFReads ==
  ASSUME Typed, LogParts, ReaderInv, ReaderEOF PROVE ReaderInv'
<1>1. Rest /\ UNCHANGED <<rsnap, rpart, rat, ropen, rpos, rpend, rdur, batch, progress>>
  BY DEF ReaderEOF, EndOfInput, Rest, wrVars, diskVars, tgtVars, rdVars
<1>2. apc = "read" /\ apc' # "down" /\ (apc' = "refresh" => batch = << >>)
  BY DEF ReaderEOF, EndOfInput, Reading
<1> QED
  BY <1>1, <1>2 DEF ReaderInv, AppliedInv, IdleInv, BatchInv, SnapInv, HeldInv, AheadInv,
     PastInv, OpenInv, Ahead, AheadFiles, Reach, Rest

-----------------------------------------------------------------------------
\* What is collected is within the gate, and the gate within the log.
LEMMA ReachDurable ==
  ASSUME Typed, LogParts, ReaderInv, apc # "down"
  PROVE  Reach <= rdur /\ rdur <= wlast
<1> USE DEF Typed, Tx, LSN
<1>1. rdur <= wlast
  BY DEF LogParts, GateInv, OrderInv
<1>2. CASE batch = << >>
  BY <1>1, <1>2 DEF ReaderInv, BatchInv, Reach
<1>3. CASE batch # << >>
  <2>1. Len(batch) \in 1..Len(batch)
    BY <1>3
  <2>2. batch[Len(batch)] = Reach
    BY <2>1 DEF ReaderInv, BatchInv, Reach
  <2>3. batch[Len(batch)] <= rdur
    BY <2>1 DEF LogParts, GateInv
  <2> QED
    BY <1>1, <2>2, <2>3
<1> QED
  BY <1>2, <1>3

\* The commit of a batch appends the transactions that follow the progress.
LEMMA CommitApplies ==
  ASSUME Typed, LogParts, ReaderInv, apc = "apply", batch # << >>, TargetCommit
  PROVE  AppliedInv' /\ target' = Reach
<1> USE DEF Typed, Tx, LSN
<1>1. progress = target /\ Len(done) = target
  BY DEF LogParts, GateInv, ReaderInv, AppliedInv
<1>2. target' = Reach
  BY DEF TargetCommit, ReaderInv, BatchInv, Reach
<1>3. /\ Len(done') = Len(done) + Len(batch)
      /\ \A i \in 1..Len(done') :
           done'[i] = IF i <= Len(done) THEN done[i] ELSE batch[i - Len(done)]
  BY ConcatProperties DEF TargetCommit
<1>4. ASSUME NEW i \in 1..Len(done') PROVE done'[i] = i
  <2>1. CASE i <= Len(done)
    BY <1>1, <1>3, <2>1 DEF ReaderInv, AppliedInv
  <2>2. CASE ~(i <= Len(done))
    <3>1. i - Len(done) \in 1..Len(batch)
      BY <1>1, <1>3, <2>2
    <3>2. batch[i - Len(done)] = progress + (i - Len(done))
      BY <3>1 DEF ReaderInv, BatchInv
    <3> QED
      BY <1>1, <1>3, <2>2, <3>2
  <2> QED
    BY <2>1, <2>2
<1> QED
  BY <1>1, <1>2, <1>3, <1>4 DEF AppliedInv, Reach

LEMMA CommitReads ==
  ASSUME Typed, LogParts, ReaderInv, batch # << >>, ApplyCommit PROVE ReaderInv'
<1> USE DEF Typed, Tx, LSN
<1>1. /\ UNCHANGED <<names, final, frames, wlast, rsnap, rpart, rat, ropen, rpos, rpend, rdur>>
      /\ apc = "apply" /\ TargetCommit /\ progress' = target' /\ batch' = << >>
      /\ apc' = "refresh"
  BY DEF ApplyCommit, wrVars, diskVars, rdVars
<1>2. AppliedInv' /\ target' = Reach
  BY <1>1, CommitApplies
<1>3. Reach' = Reach /\ progress' = Reach
  BY <1>1, <1>2 DEF Reach
<1>4. AheadFiles' = AheadFiles
  BY <1>1 DEF AheadFiles
<1>5. Reach <= rdur
  BY <1>1, ReachDurable
<1>6. BatchInv'
  BY <1>1, <1>3, <1>5 DEF BatchInv
<1>7. IdleInv' /\ SnapInv' /\ HeldInv' /\ OpenInv'
  BY <1>1, <1>3 DEF ReaderInv, IdleInv, SnapInv, HeldInv, OpenInv
<1>8. AheadInv' /\ PastInv'
  BY <1>1, <1>3, <1>4 DEF ReaderInv, AheadInv, Ahead, PastInv
<1> QED
  BY <1>2, <1>6, <1>7, <1>8 DEF ReaderInv

\* Restart: nothing reads yet.
LEMMA RestartReads ==
  ASSUME LogInv, ReaderInv, Restart PROVE ReaderInv'
<1>1. ~up /\ UNCHANGED <<rdVars, apVars, tgtVars>> /\ wlast' \in LSN
  BY DEF Restart
<1>2. apc = "down" /\ batch = << >>
  BY <1>1 DEF LogInv, LogParts, GateInv
<1>3. 0 <= wlast'
  BY <1>1, Bounds
<1> QED
  BY <1>1, <1>2, <1>3 DEF ReaderInv, AppliedInv, IdleInv, BatchInv, SnapInv, HeldInv, AheadInv,
     PastInv, OpenInv, rdVars, apVars, tgtVars

-----------------------------------------------------------------------------
\* AppendFrame creates a file: it is newer than all that the reader knows.
LEMMA BeginReads ==
  ASSUME LogInv, Typed, LogParts, ReaderInv, BeginFrame PROVE ReaderInv'
<1> USE DEF Typed, Tx, LSN
<1>1. UNCHANGED <<final, wlast, rdVars, apVars, tgtVars>>
  BY DEF BeginFrame
<1>2. CASE wtail # 0
  BY <1>1, <1>2, ReaderUnchanged DEF BeginFrame
<1>3. CASE wtail = 0
  <2> DEFINE n == Head(chan)
  <2>1. n = wlast + 1 /\ n \in Tx /\ up
    BY HeadIsNext DEF BeginFrame
  <2>2. frames[n] = {}
    BY <2>1, PastTheEnd
  <2>3. names' = names \cup {n} /\ frames' = [frames EXCEPT ![n] = {}]
    BY <1>3 DEF BeginFrame
  <2> HIDE DEF n
  <2>4. frames' = frames
    BY <2>1, <2>2, <2>3
  <2>5. names \subseteq final
    BY <1>3, <2>1 DEF LogParts, WriterInv
  <2>6. \A s \in rsnap : s < n
    <3>1. \A s \in rsnap : s \in Tx /\ s \in frames[s]
      BY <2>5 DEF ReaderInv, SnapInv, LogParts, FinalInv
    <3>2. \A s \in rsnap : s <= wlast
      BY <3>1 DEF LogParts, FilesInv
    <3> QED
      BY <2>1, <3>1, <3>2
  <2>7. rat < n
    BY <2>1, <2>6 DEF ReaderInv, SnapInv
  <2>8. Reach' = Reach
    BY <1>1 DEF Reach, apVars
  <2>9. AheadFiles \subseteq AheadFiles' /\ AheadFiles' \subseteq AheadFiles \cup {n}
    BY <1>1, <2>1, <2>3 DEF AheadFiles, rdVars
  <2>10. AppliedInv'
    BY <1>1, AppliedKept DEF ReaderInv, tgtVars
  <2>11. IdleInv' /\ BatchInv' /\ HeldInv'
    BY <1>1, <2>4, <2>8 DEF ReaderInv, IdleInv, BatchInv, HeldInv, rdVars, apVars
  <2>12. SnapInv'
    BY <1>1, <2>3, <2>4, <2>6 DEF ReaderInv, SnapInv, rdVars
  <2>13. AheadInv'
    BY <1>1, <2>4, <2>8, <2>9 DEF ReaderInv, AheadInv, Ahead, rdVars, apVars
  <2>14. PastInv'
    <3>1. batch # << >> => n > Reach
      <4>1. batch # << >> => apc # "down"
        BY DEF LogParts, GateInv
      <4> QED
        BY <2>1, <4>1, ReachDurable
    <3> QED
      BY <1>1, <2>4, <2>8, <2>9, <3>1 DEF ReaderInv, PastInv, rdVars, apVars
  <2>15. OpenInv'
    <3>1. ropen => n > rdur
      <4>1. ropen => apc # "down"
        BY DEF ReaderInv, IdleInv
      <4> QED
        BY <2>1, <4>1, ReachDurable
    <3> QED
      BY <1>1, <2>3, <3>1 DEF ReaderInv, OpenInv, rdVars
  <2> QED
    BY <2>10, <2>11, <2>12, <2>13, <2>14, <2>15 DEF ReaderInv
<1> QED
  BY <1>2, <1>3

\* AppendFrame completes a frame: the reader has not passed its file.
LEMMA FinishReads ==
  ASSUME LogInv, Typed, LogParts, ReaderInv, FinishFrame PROVE ReaderInv'
<1> USE DEF Typed, Tx, LSN
<1>1. UNCHANGED <<names, final, rdVars, apVars, tgtVars>>
  BY DEF FinishFrame
<1>2. /\ wcur = wlast + 1 /\ wlast' = wcur /\ wtail \in names \ final /\ wcur \in Tx
  <2>1. up /\ wtail # 0 /\ wcur # 0 /\ wcur \in LSN
    BY LogTypes DEF FinishFrame, LogInv, TypeInv, WriterStep
  <2> QED
    BY <2>1 DEF FinishFrame, LogParts, WriterInv
<1>3. /\ \A s \in Tx : frames[s] \subseteq frames'[s] /\ frames'[s] \subseteq frames[s] \cup {wcur}
      /\ wcur \in frames'[wtail]
  BY <1>2 DEF FinishFrame
<1>4. Reach' = Reach /\ AheadFiles' = AheadFiles
  BY <1>1 DEF Reach, AheadFiles, rdVars, apVars
<1>5. AppliedInv'
  BY <1>1, AppliedKept DEF ReaderInv, tgtVars
<1>6. IdleInv' /\ BatchInv' /\ OpenInv'
  BY <1>1 DEF ReaderInv, IdleInv, BatchInv, OpenInv, rdVars, apVars
<1>7. rat # 0 => rat \in Tx
  OBVIOUS
<1>8. HeldInv'
  <2>1. ropen => rat \in Tx
    BY <1>7 DEF ReaderInv, SnapInv
  <2>2. rpos' <= wlast'
    BY <1>1, <1>2 DEF ReaderInv, HeldInv, rdVars
  <2> QED
    BY <1>1, <1>3, <1>4, <2>1, <2>2 DEF ReaderInv, HeldInv, rdVars
<1>9. SnapInv'
  BY <1>1, <1>3 DEF ReaderInv, SnapInv, rdVars
<1>10. (ropen /\ rat = wtail) \/ wtail \in AheadFiles
  <2>1. \A s \in rsnap : s <= wtail /\ (s \in final => s < wtail)
    BY <1>2, TailIsLast
  <2>2. CASE rat # 0
    BY <1>2, <2>1, <2>2 DEF ReaderInv, SnapInv, AheadFiles
  <2>3. CASE rat = 0
    <3>1. ~ropen /\ rsnap \subseteq final
      BY <2>3 DEF ReaderInv, SnapInv
    <3> QED
      BY <1>2, <2>1, <2>3, <3>1 DEF AheadFiles
  <2> QED
    BY <2>2, <2>3
<1>11. AheadInv'
  <2> SUFFICES ASSUME apc # "down", NEW t \in Tx, Reach < t, t <= wcur, t # rpend
               PROVE  Ahead(t)'
    BY <1>1, <1>2, <1>4 DEF AheadInv, rdVars, apVars
  <2>1. CASE t = wcur
    <3>1. wcur > rpos
      BY <1>2 DEF ReaderInv, HeldInv
    <3> QED
      BY <1>1, <1>3, <1>4, <1>10, <2>1, <3>1 DEF Ahead, rdVars
  <2>2. CASE t # wcur
    <3>1. Ahead(t)
      BY <1>2, <2>2 DEF ReaderInv, AheadInv
    <3>2. /\ \A s \in AheadFiles : frames[s] \subseteq frames'[s]
          /\ ropen => frames[rat] \subseteq frames'[rat]
      BY <1>3, <1>7 DEF AheadFiles, ReaderInv, SnapInv
    <3> QED
      BY <1>1, <1>4, <3>1, <3>2 DEF Ahead, rdVars
  <2> QED
    BY <2>1, <2>2
<1>12. PastInv'
  <2>1. batch # << >> => wcur > Reach
    <3>1. batch # << >> => apc # "down"
      BY DEF LogParts, GateInv
    <3> QED
      BY <1>2, <3>1, ReachDurable
  <2>2. ropen => frames'[rat] \subseteq frames[rat] \cup {wcur}
    BY <1>3, <1>7 DEF ReaderInv, SnapInv
  <2> QED
    BY <1>1, <1>4, <2>1, <2>2 DEF ReaderInv, PastInv, rdVars, apVars
<1> QED
  BY <1>5, <1>6, <1>8, <1>9, <1>11, <1>12 DEF ReaderInv

\* rotateLocked gives the file its final name.
LEMMA RenameReads ==
  ASSUME ReaderInv, RotateRename PROVE ReaderInv'
BY DEF RotateRename, ReaderInv, AppliedInv, IdleInv, BatchInv, SnapInv, HeldInv, AheadInv,
   PastInv, OpenInv, Ahead, AheadFiles, Reach, rdVars, apVars, tgtVars

\* The pruner removes only what the target has, and never the file that the
\* reader takes for the growing one.
LEMMA PruneReads ==
  ASSUME LogInv, Typed, LogParts, ReaderInv, PruneRemove PROVE ReaderInv'
<1> USE DEF Typed, Tx, LSN
<1>1. UNCHANGED <<final, frames, wlast, rdVars, apVars, tgtVars>> /\ catalog \subseteq names
  BY DEF PruneRemove, wrVars
<1>2. PICK rem \in SUBSET Removable : names' = names \ rem
  BY DEF PruneRemove
<1>3. \A s \in rem : s \in names \cap final /\ s \in frames[s] /\ \A f \in frames[s] : f < target
  BY <1>1, <1>2, RemovableFacts DEF LogParts, FinalInv
<1>4. Reach' = Reach
  BY <1>1 DEF Reach, apVars
<1>5. AheadFiles' = AheadFiles \ rem
  BY <1>1, <1>2 DEF AheadFiles, rdVars
<1>6. AppliedInv'
  BY <1>1, AppliedKept DEF ReaderInv, tgtVars
<1>7. IdleInv' /\ BatchInv' /\ HeldInv'
  BY <1>1, <1>4 DEF ReaderInv, IdleInv, BatchInv, HeldInv, rdVars, apVars
<1>8. SnapInv'
  BY <1>1, <1>2, <1>3 DEF ReaderInv, SnapInv, rdVars
<1>9. AheadInv'
  <2> SUFFICES ASSUME apc # "down", NEW t \in Tx, Reach < t, t <= wlast, t # rpend
               PROVE  Ahead(t)'
    BY <1>1, <1>4 DEF AheadInv, rdVars, apVars
  <2>1. Ahead(t)
    BY DEF ReaderInv, AheadInv
  <2>2. t > target
    BY DEF LogParts, GateInv
  <2>3. \A s \in rem : t \notin frames[s]
    <3>1. ASSUME NEW s \in rem, t \in frames[s] PROVE FALSE
      <4>1. t < target
        BY <1>3, <3>1
      <4> QED
        BY <2>2, <4>1
    <3> QED
      BY <3>1
  <2> QED
    BY <1>1, <1>5, <2>1, <2>3 DEF Ahead, rdVars
<1>10. PastInv'
  BY <1>1, <1>4, <1>5 DEF ReaderInv, PastInv, rdVars, apVars
<1>11. OpenInv'
  <2>1. ASSUME ropen, rat \in rpart, rat \in rem PROVE FALSE
    <3>1. PICK e \in Eligible : rat < e
      BY <1>2, <2>1 DEF Removable
    <3>2. e \in names \cap final /\ e \in Tx /\ \A f \in frames[e] : f < latest
      BY <1>1, <3>1 DEF Eligible, Applied, LogParts, CatalogInv
    <3>3. e < latest
      BY <3>2 DEF LogParts, FinalInv
    <3>4. e > rdur
      BY <2>1, <3>1, <3>2 DEF ReaderInv, OpenInv
    <3>5. apc # "down"
      BY <2>1 DEF ReaderInv, IdleInv
    <3>6. latest <= rdur
      BY <3>5 DEF LogParts, OrderInv, GateInv, ReaderInv, BatchInv
    <3> QED
      BY <3>2, <3>3, <3>4, <3>6
  <2> QED
    BY <1>1, <1>2, <2>1 DEF ReaderInv, OpenInv, rdVars
<1> QED
  BY <1>6, <1>7, <1>8, <1>9, <1>10, <1>11 DEF ReaderInv

-----------------------------------------------------------------------------
\* Every step keeps what the reader relies on.
LEMMA ReaderNext == LogInv /\ ReaderInv /\ [Next]_vars => ReaderInv'
<1> SUFFICES ASSUME LogInv, ReaderInv, [Next]_vars PROVE ReaderInv'
  OBVIOUS
<1>1. Typed /\ LogParts /\ LogInv'
  BY ReaderTypes, LogNext
<1>2. CASE Applier
  <2>1. apc = "apply" => batch # << >>
    BY DEF LogInv, TypeInv, BatchStep
  <2>2. CASE ApplyCommit
    BY <1>1, <2>1, <2>2, CommitReads DEF ApplyCommit
  <2> QED
    BY <1>1, <1>2, <2>2, ConnectReads, RefreshReads, OpenReads, RelistReads, FrameReads,
       GateReads, PendingReads, NextSegmentReads, EOFReads DEF Applier
<1>3. CASE BeginFrame \/ FinishFrame \/ RotateRename
  BY <1>1, <1>3, BeginReads, FinishReads, RenameReads
<1>4. CASE DiscardDuplicate \/ RotateSync \/ RotateDirSync \/ PersisterSync
  BY <1>4, ReaderUnchanged DEF DiscardDuplicate, RotateSync, RotateDirSync, PersisterSync,
     diskVars
<1>5. CASE SourceCommit \/ StartSession \/ Deliver \/ Feedback \/ DropSession
  BY <1>5, ReaderUnchanged DEF SourceCommit, StartSession, Deliver, Feedback, DropSession,
     wrVars, diskVars
<1>6. CASE PruneRemove
  BY <1>1, <1>6, PruneReads
<1>7. CASE PruneDirSync
  BY <1>7, ReaderUnchanged DEF PruneDirSync, wrVars
<1>8. CASE ApplyLostAck
  <2>1. AppliedInv'
    BY <1>1, <1>8, CommitApplies DEF ApplyLostAck, LogInv, TypeInv, BatchStep
  <2> QED
    BY <1>1, <1>8, <2>1, ReaderEnds DEF ApplyLostAck
<1>9. CASE ApplierDrop \/ Exit \/ Crash
  <2>1. AppliedInv'
    BY <1>9, AppliedKept DEF ReaderInv, ApplierDrop, Exit, Crash, tgtVars
  <2> QED
    BY <1>1, <1>9, <2>1, ReaderEnds DEF ApplierDrop, Exit, Crash, Down, VolatileReset
<1>10. CASE Restart
  BY <1>10, RestartReads
<1>11. CASE UNCHANGED vars
  BY <1>11, ReaderUnchanged DEF vars, wrVars, diskVars
<1> QED
  BY <1>2, <1>3, <1>4, <1>5, <1>6, <1>7, <1>8, <1>9, <1>10, <1>11
     DEF Next, Receiver, Persister, Pruner, Fault

LEMMA ReaderInvariant == Spec => [](LogInv /\ ReaderInv)
<1>1. Init => LogInv /\ ReaderInv
  BY LogInit, ReaderInit
<1>2. LogInv /\ ReaderInv /\ [Next]_vars => (LogInv /\ ReaderInv)'
  BY LogNext, ReaderNext
<1> QED
  BY <1>1, <1>2, PTL DEF Spec

\* What the properties say of the reader follows.
LEMMA ReaderImplies == LogInv /\ ReaderInv => ExactlyOnce /\ ReaderNotStranded
<1> SUFFICES ASSUME LogInv, ReaderInv PROVE ExactlyOnce /\ ReaderNotStranded
  OBVIOUS
<1>1. done \in Seq(Tx) /\ target \in LSN
  BY DEF LogInv, TypeInv, TypeOK, TgtType
<1>2. Len(done) = target /\ \A i \in 1..target : done[i] = i
  BY DEF ReaderInv, AppliedInv
<1>3. done = [i \in 1..target |-> i]
  <2>1. done = [i \in 1..Len(done) |-> done[i]]
    BY <1>1
  <2> QED
    BY <1>2, <2>1
<1> QED
  BY <1>3 DEF ExactlyOnce, ReaderNotStranded, ReaderInv, OpenInv

\* Whatever crashes, lost acknowledgements, refreshed listings, rotations and
\* prunes happen, applyFromReader commits every transaction of the log exactly
\* once and in order.
THEOREM ExactlyOnceAlways == Spec => []ExactlyOnce
BY ReaderInvariant, ReaderImplies, PTL

\* The reader never keeps an unlinked file open as the growing tail, where Next
\* would report io.EOF forever.
THEOREM ReaderNotStrandedAlways == Spec => []ReaderNotStranded
BY ReaderInvariant, ReaderImplies, PTL
=============================================================================
