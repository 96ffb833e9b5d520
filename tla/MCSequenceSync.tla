--------------------------- MODULE MCSequenceSync ---------------------------
(* An instance of SequenceSync for TLC: a sequence that ascends by twos and    *)
(* one that descends by ones.                                                  *)
EXTENDS SequenceSync

MCIncrement == <<2, -1>>
=============================================================================
