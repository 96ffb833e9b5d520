----------------------------- MODULE ReplayPlan -----------------------------
(***************************************************************************)
(* How the applier turns a batch of source transactions into a replay plan *)
(* of steps and lanes (buildReplayPlanForGenerationVersion).               *)
(*                                                                         *)
(* A transaction is abstracted to the dependency keys of its changes,      *)
(* whether the target catalog makes each change safe to replay out of      *)
(* line, and where a relation definition changed.  A step is named by its  *)
(* first transaction, a work row by its step and lane (-1 for serial).     *)
(***************************************************************************)
EXTENDS Integers, FiniteSets

CONSTANTS
  N,             \* number of source transactions
  Key,           \* dependency keys (positive; hashes of target primary keys)
  Writes,        \* Writes[t]: keys of t's changes (replayChangeKey)
  Spilled,       \* transactions too large to be kept in memory
  KeyUnsafe,     \* transactions with a change replayChangeKey calls unsafe
  PrevDef,       \* PrevDef[t]: the previous transaction carrying one of t's
                 \* relations, if its definition was another one, or 0
  LaneHash(_, _) \* lane of a component's key set among a number of lanes

Tx  == 1..N
LSN == 0..N

ASSUME PlanAssumption ==
  /\ N \in Nat
  /\ Key \subseteq Nat \ {0}
  /\ Writes \in [Tx -> SUBSET Key]
  /\ Spilled \subseteq Tx /\ KeyUnsafe \subseteq Tx
  /\ PrevDef \in [Tx -> LSN] /\ \A t \in Tx : PrevDef[t] < t

\* A batch is the range of transactions after `start` up to `end`.
BatchTx(c) == (c.start + 1)..c.end

\* t must be replayed alone and in order: parallelSafe is false.  A changed
\* definition counts only if the earlier one is in the same batch.
Serial(c, t) == t \in Spilled \cup KeyUnsafe \/ PrevDef[t] > c.start

\* An empty transaction gets a dependency key of its own.
PlanKeys(t) == IF Writes[t] = {} THEN {-t} ELSE Writes[t]

Shares(t, u) == PlanKeys(t) \cap PlanKeys(u) # {}

\* No serial transaction lies between t and u (both included).
Between(x, t, u) == (t <= x /\ x <= u) \/ (u <= x /\ x <= t)

SameEpoch(c, t, u) == \A x \in BatchTx(c) : Between(x, t, u) => ~Serial(c, x)

Epoch(c, t) == {u \in BatchTx(c) : SameEpoch(c, t, u)}

\* A definition named Bug... is a defect that some property must notice; nothing
\* refers to it.  Here: each transaction is a component of its own.
BugComponent(t, E) == {t}

\* Transactions of epoch E that repeated unions over shared keys join with t:
\* the smallest set around t that no shared key leaves.
Closed(C, E) == \A x \in C : \A y \in E \ C : ~Shares(x, y)

Component(t, E) ==
  LET around == {C \in SUBSET E : t \in C /\ Closed(C, E)}
  IN  {u \in E : \A C \in around : u \in C}

ComponentKeys(t, E) == UNION {PlanKeys(u) : u \in Component(t, E)}

\* The step and lane that replay t.
StepOf(c, t) ==
  IF Serial(c, t) THEN t
  ELSE LET epoch == Epoch(c, t)
       IN  CHOOSE s \in epoch : \A u \in epoch : s <= u

LaneOf(c, t) ==
  IF Serial(c, t) THEN -1 ELSE LaneHash(ComponentKeys(t, Epoch(c, t)), c.lanes)

WorkOf(c, t) == <<StepOf(c, t), LaneOf(c, t)>>

\* The work manifest of the plan, and what each row covers.
Works(c) == {WorkOf(c, t) : t \in BatchTx(c)}

Covers(c, ws) == {t \in BatchTx(c) : WorkOf(c, t) \in ws}

\* plan.HasParallel: some step has two lanes.
HasParallel(c) ==
  LET all == Works(c)
  IN  \E v, w \in all : v[1] = w[1] /\ v[2] # w[2]

\* The target could observe the order of t and a later u: one of them cannot be
\* reordered at all, they write a common row, or a relation definition changes
\* between them.
Conflict(t, u) ==
  \/ {t, u} \cap (Spilled \cup KeyUnsafe) # {}
  \/ Shares(t, u)
  \/ \E d \in Tx : t <= PrevDef[d] /\ d <= u
=============================================================================
