---------------------------- MODULE MCSegmentLog ----------------------------
(* Model-checking instance of SegmentLog. *)
EXTENDS SegmentLog
=============================================================================
