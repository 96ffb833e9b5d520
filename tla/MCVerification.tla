--------------------------- MODULE MCVerification ---------------------------
(***************************************************************************)
(* A table with two sampled rows in two windows, a row of an ignored       *)
(* application and a row the applier recorded, a table without a key and   *)
(* an empty one.                                                           *)
(***************************************************************************)
EXTENDS Verification

MCWindows  == <<<<{2}, {3, 4}>>, <<>>, <<>>>>
MCRecorded == <<{1}, {}, {}>>
MCMayBe    == <<{"none", "stale", "garbled"}, {"none"}, {"none", "missing"}, {"missing"}>>
=============================================================================
