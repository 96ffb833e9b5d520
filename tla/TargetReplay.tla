---------------------------- MODULE TargetReplay ----------------------------
(***************************************************************************)
(* What replay promises the target, however it schedules the work: every   *)
(* source transaction takes effect once, never before an earlier one it    *)
(* conflicts with, and recorded progress covers only what took effect.     *)
(***************************************************************************)
EXTENDS Integers, Sequences

CONSTANTS
  N,             \* number of source transactions
  Conflict(_, _) \* the target could observe the order of two transactions

VARIABLES
  done,     \* transactions applied, in the order they took effect
  progress  \* all transactions up to this one are recorded as applied

Init == done = << >> /\ progress = 0

\* t may be the i-th transaction to take effect in history h.
MayFollow(h, i, t) ==
  /\ t \in 1..N
  /\ \A j \in 1..(i - 1) : h[j] # t
  /\ \A u \in 1..(t - 1) : Conflict(u, t) => \E j \in 1..(i - 1) : h[j] = u

\* Some transactions take effect, or progress moves, or both.
Step ==
  /\ Len(done') >= Len(done)
  /\ \A i \in 1..Len(done) : done'[i] = done[i]
  /\ \A i \in (Len(done) + 1)..Len(done') : MayFollow(done', i, done'[i])
  /\ progress' >= progress
  /\ \A t \in 1..progress' : \E i \in 1..Len(done') : done'[i] = t

Spec == Init /\ [][Step]_<<done, progress>>
=============================================================================
