--------------------------- MODULE MCReplayClaim ---------------------------
(***************************************************************************)
(* Instances of ReplayClaim for TLC.                                       *)
(*                                                                         *)
(* Lanes: transactions 1 and 3 are one component through row 1 although    *)
(* their key sets differ, 2 is another, 4 is a barrier.                    *)
(*                                                                         *)
(* Barriers: one claim can hold 1, then the run of serial steps 2 and 3 (2 *)
(* changes the definition of a relation that 1 used, the keys of 3 are     *)
(* unsafe), then 4 and 5 in two lanes, 5 being empty; 6 is spilled and so  *)
(* replayed outside of claims.                                             *)
(***************************************************************************)
EXTENDS ReplayClaim

MCKey == {1, 2, 3}

LanesWrites == <<{1}, {2}, {1, 3}, {2}>>
LanesPrevDef == <<0, 0, 0, 0>>

BarriersWrites == <<{1}, {1}, {2}, {1, 2}, {}, {3}>>
BarriersPrevDef == <<0, 1, 0, 0, 0, 0>>

\* A deterministic spread of key sets over lanes.
MCLaneHash(keys, lanes) == (Cardinality(keys) + 1) % lanes
=============================================================================
