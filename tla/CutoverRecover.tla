--------------------------- MODULE CutoverRecover ---------------------------
(***************************************************************************)
(* `pgmigrate cutover` is a process of its own that runs beside the active *)
(* `pgmigrate run`.  Before anything else it calls cdc.Recover on the      *)
(* segment directory the run's writer is appending to, and Recover repairs *)
(* a partial tail: it truncates the file at the first frame it finds       *)
(* incomplete.  This module composes that call with the receiver and the   *)
(* persister of SegmentLog; the target side plays no part.                 *)
(*                                                                         *)
(* A frame whose first part was cut off is not lengthened: the writer goes *)
(* on at its old offset, and the file has a hole where the frame began.    *)
(***************************************************************************)
EXTENDS SegmentLog

VARIABLES
  cutAt,  \* cutover: the incomplete frame its scan stopped at, or 0
  holes   \* complete frames whose beginning was truncated while they grew

cutVars == <<cutAt, holes>>

CutInit == Init /\ cutAt = 0 /\ holes = {}

\* scanSegmentWithProgress reads the tail to the frame being written, notes
\* the file's size and finds the frame short.
CutoverScan ==
  /\ wpc = "frame" /\ cutAt = 0
  /\ cutAt' = wcur
  /\ UNCHANGED <<vars, holes>>

\* requireUnchangedRecoverySize: the writer has not gone on, so the frame is
\* cut off.  Only a streamed frame of which no more than the placeholder header
\* was written survives: its header is written again at the end.
CutoverTruncate ==
  /\ cutAt # 0 /\ wpc = "frame" /\ wcur = cutAt
  /\ cutAt' = 0 /\ holes' \in {holes, holes \cup {wcur}}
  /\ UNCHANGED vars

\* The writer has gone on: Recover reports that the segment changed.
CutoverRefuse ==
  /\ cutAt # 0 /\ ~(wpc = "frame" /\ wcur = cutAt)
  /\ cutAt' = 0
  /\ UNCHANGED <<vars, holes>>

CutNext ==
  \/ CutoverScan \/ CutoverTruncate \/ CutoverRefuse
  \/ /\ SourceCommit \/ Receiver \/ Persister \/ Restart
     /\ UNCHANGED cutVars

CutSpec == CutInit /\ [][CutNext]_<<vars, cutVars>>

\* segment.go: "DurableEndLSN returns the highest complete transaction EndLSN
\* successfully fsynced. It is safe to report as PostgreSQL feedback."  What
\* was reported to the slot must then be a complete frame.
FeedbackIsComplete == \A t \in 1..confirmed : t \notin holes
=============================================================================
