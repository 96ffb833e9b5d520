------------------------- MODULE ReplayClaim_proofs -------------------------
(***************************************************************************)
(* Replay is exactly-once on the target and keeps the order of conflicting *)
(* transactions, for every stream of transactions, every spread of keys    *)
(* over lanes and any number of lost connections.                          *)
(***************************************************************************)
EXTENDS ReplayClaim, FiniteSetTheorems, TLAPS

-----------------------------------------------------------------------------
(***************************************************************************)
(* The plan.                                                               *)
(***************************************************************************)
IsBatch(c) == c.start \in Nat /\ c.end \in LSN

LEMMA BatchIs ==
  ASSUME NEW c, IsBatch(c) PROVE BatchTx(c) \subseteq Tx /\ BatchTx(c) \subseteq Nat
BY PlanAssumption DEF BatchTx, IsBatch, Tx, LSN

\* A set of naturals has a least element.
LEMMA LeastOf ==
  ASSUME NEW S, S \subseteq Nat, S # {} PROVE \E x \in S : \A y \in S : x <= y
<1>1. PICK x \in S : \A y \in S : ~(<<y, x>> \in OpToRel(<, Nat))
  BY NatLessThanWellFounded, WFMin, Zenon
<1>2. \A y \in S : <<y, x>> \in OpToRel(<, Nat) <=> y < x
  BY DEF OpToRel
<1>3. \A y \in S : ~(y < x)
  BY <1>1, <1>2, Zenon
<1> QED
  BY <1>3

\* A parallel step is named by the first transaction of its epoch.
LEMMA StepIs ==
  ASSUME NEW c, IsBatch(c), NEW t \in BatchTx(c), ~Serial(c, t)
  PROVE  StepOf(c, t) \in Epoch(c, t) /\ \A u \in Epoch(c, t) : StepOf(c, t) <= u
<1> DEFINE First(s) == s \in Epoch(c, t) /\ \A u \in Epoch(c, t) : s <= u
<1>1. \A x \in BatchTx(c) : Between(x, t, t) => x = t
  BY BatchIs DEF Between
<1>2. t \in Epoch(c, t) /\ Epoch(c, t) \subseteq Nat
  BY <1>1, BatchIs DEF Epoch, SameEpoch
<1>3. \E s : First(s)
  BY <1>2, LeastOf
<1>4. StepOf(c, t) = CHOOSE s : First(s)
  BY DEF StepOf
<1> HIDE DEF First
<1>5. First(StepOf(c, t))
  BY <1>3, <1>4
<1> QED
  BY <1>5 DEF First

LEMMA StepBefore ==
  ASSUME NEW c, IsBatch(c), NEW t \in BatchTx(c)
  PROVE  StepOf(c, t) \in Nat /\ StepOf(c, t) <= t
<1>1. CASE Serial(c, t)
  BY <1>1, BatchIs DEF StepOf
<1>2. CASE ~Serial(c, t)
  <2>1. \A x \in BatchTx(c) : Between(x, t, t) => x = t
    BY BatchIs DEF Between
  <2>2. t \in Epoch(c, t) /\ Epoch(c, t) \subseteq Nat
    BY <1>2, <2>1, BatchIs DEF Epoch, SameEpoch
  <2> QED
    BY <1>2, <2>2, StepIs
<1> QED
  BY <1>1, <1>2

\* Steps are in source order, and a step in common is an epoch in common.
LEMMA StepOrder ==
  ASSUME NEW c, IsBatch(c), NEW t \in BatchTx(c), NEW u \in BatchTx(c), t < u
  PROVE  \/ StepOf(c, t) < StepOf(c, u)
         \/ SameEpoch(c, t, u)
<1>1. t \in Nat /\ u \in Nat /\ BatchTx(c) \subseteq Nat
  BY BatchIs
<1>2. StepOf(c, t) \in Nat /\ StepOf(c, t) <= t /\ StepOf(c, u) \in Nat
  BY StepBefore
<1>3. CASE Serial(c, u)
  BY <1>1, <1>2, <1>3 DEF StepOf
<1>4. CASE ~Serial(c, u)
  <2> SUFFICES ASSUME ~SameEpoch(c, t, u) PROVE StepOf(c, t) < StepOf(c, u)
    OBVIOUS
  <2>1. PICK x \in BatchTx(c) : Between(x, t, u) /\ Serial(c, x)
    BY DEF SameEpoch
  <2>2. t <= x /\ x <= u
    BY <1>1, <2>1 DEF Between
  <2>3. PICK s : s = StepOf(c, u)
    OBVIOUS
  <2>4. s \in BatchTx(c) /\ s \in Nat /\ \A y \in BatchTx(c) : Between(y, u, s) => ~Serial(c, y)
    BY <1>1, <1>4, <2>3, StepIs DEF Epoch, SameEpoch
  <2>5. ~Between(x, u, s)
    BY <2>1, <2>4
  <2>6. x < s
    BY <1>1, <2>1, <2>2, <2>4, <2>5 DEF Between
  <2> QED
    BY <1>1, <1>2, <2>1, <2>2, <2>3, <2>4, <2>6
<1> QED
  BY <1>3, <1>4

LEMMA EpochSame ==
  ASSUME NEW c, IsBatch(c), NEW t \in BatchTx(c), NEW u \in BatchTx(c), SameEpoch(c, t, u)
  PROVE  Epoch(c, t) = Epoch(c, u)
<1>1. t \in Nat /\ u \in Nat /\ BatchTx(c) \subseteq Nat
  BY BatchIs
<1>2. \A v, x \in BatchTx(c) : /\ Between(x, u, v) => Between(x, t, u) \/ Between(x, t, v)
                               /\ Between(x, t, v) => Between(x, t, u) \/ Between(x, u, v)
  BY <1>1 DEF Between
<1>3. \A v \in BatchTx(c) : SameEpoch(c, t, v) <=> SameEpoch(c, u, v)
  BY <1>2 DEF SameEpoch
<1> QED
  BY <1>3 DEF Epoch

LEMMA ComponentSame ==
  ASSUME NEW E, NEW t \in E, NEW u \in E, Shares(t, u)
  PROVE  Component(t, E) = Component(u, E)
<1>1. Shares(u, t)
  BY DEF Shares
<1>2. \A C \in SUBSET E : Closed(C, E) => (t \in C <=> u \in C)
  BY <1>1 DEF Closed
<1> QED
  BY <1>2 DEF Component

\* Of two transactions in conflict the later one is in a later step, or both are
\* the work of one lane.
LEMMA ConflictOrder ==
  ASSUME NEW c, IsBatch(c), NEW t \in BatchTx(c), NEW u \in BatchTx(c), t < u, Conflict(t, u)
  PROVE  StepOf(c, t) < StepOf(c, u) \/ WorkOf(c, t) = WorkOf(c, u)
<1> SUFFICES ASSUME SameEpoch(c, t, u) PROVE WorkOf(c, t) = WorkOf(c, u)
  BY StepOrder
<1>1. t \in Nat /\ u \in Nat /\ BatchTx(c) \subseteq Nat /\ BatchTx(c) \subseteq Tx
  BY BatchIs
<1>2. ~Serial(c, t) /\ ~Serial(c, u)
  BY <1>1 DEF SameEpoch, Between
<1>3. Shares(t, u)
  <2>1. ~(t \in Spilled \cup KeyUnsafe) /\ ~(u \in Spilled \cup KeyUnsafe)
    BY <1>2 DEF Serial
  <2>2. ASSUME NEW d \in Tx, t <= PrevDef[d], d <= u PROVE FALSE
    <3>1. PrevDef[d] \in Nat /\ PrevDef[d] < d /\ d \in Nat
      BY PlanAssumption DEF LSN, Tx
    <3>2. c.start \in Nat /\ c.end \in Nat /\ c.start < t /\ u <= c.end
      BY PlanAssumption, <1>1 DEF IsBatch, BatchTx, LSN
    <3>3. d \in BatchTx(c) /\ Between(d, t, u) /\ PrevDef[d] > c.start
      BY <1>1, <2>2, <3>1, <3>2 DEF BatchTx, Between
    <3> QED
      BY <3>3 DEF SameEpoch, Serial
  <2> QED
    BY <2>1, <2>2 DEF Conflict
<1>4. PICK E : E = Epoch(c, t)
  OBVIOUS
<1>5. E = Epoch(c, u)
  BY <1>4, EpochSame
<1>6. t \in E /\ u \in E
  BY <1>1, <1>2, <1>4 DEF Epoch, SameEpoch, Between
<1>7. Component(t, E) = Component(u, E)
  BY <1>3, <1>6, ComponentSame
<1>8. LaneOf(c, t) = LaneOf(c, u)
  BY <1>2, <1>4, <1>5, <1>7 DEF LaneOf, ComponentKeys
<1>9. StepOf(c, t) = StepOf(c, u)
  BY <1>2, <1>4, <1>5 DEF StepOf
<1> QED
  BY <1>8, <1>9 DEF WorkOf

\* A work row and its step.
LEMMA WorkStep ==
  ASSUME NEW c, IsBatch(c), NEW w \in Works(c) PROVE w[1] \in Nat
<1>1. PICK t \in BatchTx(c) : w = WorkOf(c, t)
  BY DEF Works
<1> QED
  BY <1>1, StepBefore DEF WorkOf

LEMMA UnitIs ==
  ASSUME NEW c, NEW w \in Works(c) PROVE Unit(c, w) \subseteq Works(c)
BY DEF Unit

\* Work of an earlier step than some work of a unit belongs to the unit, or was
\* committed before the unit was begun.
LEMMA UnitOrder ==
  ASSUME NEW c, IsBatch(c), NEW w \in Works(c), NEW ws, ws = Unit(c, w), NEW d, PriorIn(c, ws, d),
         NEW v \in Works(c), NEW u \in ws, v[1] < u[1]
  PROVE  v \in d \/ v \in ws
<1>1. u \in Works(c)
  BY UnitIs
<1>2. v[1] \in Nat /\ u[1] \in Nat /\ w[1] \in Nat /\ \A x \in Works(c) : x[1] \in Nat
  BY <1>1, WorkStep
<1> SUFFICES ASSUME v \notin d PROVE v \in ws
  OBVIOUS
<1>3. PICK y \in ws : ~(v[1] < y[1])
  BY DEF PriorIn
<1>4. y \in Works(c) /\ y[1] \in Nat /\ y[1] <= v[1]
  BY <1>2, <1>3, UnitIs
<1>5. w[2] = -1
  <2> SUFFICES ASSUME w[2] # -1 PROVE FALSE
    OBVIOUS
  <2>1. ws = {w}
    BY DEF Unit
  <2> QED
    BY <1>2, <1>3, <1>4, <2>1
<1>6. /\ \A x \in Works(c) : Between(x[1], y[1], w[1]) => x[2] = -1
      /\ \A x \in Works(c) : Between(x[1], u[1], w[1]) => x[2] = -1
  BY <1>3, <1>5 DEF Unit
<1>7. Between(v[1], y[1], w[1]) \/ Between(v[1], u[1], w[1])
  BY <1>2, <1>4 DEF Between
<1>8. v[2] = -1
  BY <1>6, <1>7
<1>9. ASSUME NEW x \in Works(c), Between(x[1], v[1], w[1])
      PROVE  Between(x[1], y[1], w[1]) \/ Between(x[1], u[1], w[1])
  <2>1. x[1] \in Nat
    BY <1>2
  <2> QED
    BY <1>2, <1>4, <1>9, <2>1 DEF Between
<1>10. \A x \in Works(c) : Between(x[1], v[1], w[1]) => x[2] = -1
  BY <1>6, <1>9
<1> QED
  BY <1>5, <1>8, <1>10 DEF Unit

-----------------------------------------------------------------------------
(***************************************************************************)
(* The order within one target transaction.                                *)
(***************************************************************************)
LEMMA InOrderIs ==
  ASSUME NEW S \in SUBSET Tx, NEW o, o = InOrder(S)
  PROVE  /\ o \in Seq(Tx)
         /\ \A i \in 1..Len(o) : o[i] \in S
         /\ \A t \in S : \E i \in 1..Len(o) : o[i] = t
         /\ \A i, j \in 1..Len(o) : i < j => o[i] < o[j]
<1> DEFINE Upto(t) == {u \in S : u <= t}
           n == Cardinality(S)
           R == [t \in S |-> Cardinality(Upto(t))]
<1>1. S \subseteq Nat /\ IsFiniteSet(S) /\ n \in Nat
  <2>1. IsFiniteSet(Tx) /\ S \subseteq Nat
    BY PlanAssumption, FS_Interval DEF Tx
  <2> QED
    BY <2>1, FS_Subset, FS_CardinalityType
<1>2. \A t \in S : Cardinality(Upto(t)) \in 1..n
  <2> SUFFICES ASSUME NEW t \in S PROVE Cardinality(Upto(t)) \in 1..n
    OBVIOUS
  <2>1. Upto(t) \in SUBSET S /\ t \in Upto(t)
    BY <1>1
  <2> HIDE DEF Upto
  <2>2. IsFiniteSet(Upto(t)) /\ Cardinality(Upto(t)) <= n /\ Cardinality(Upto(t)) \in Nat
    BY <1>1, <2>1, FS_Subset, FS_CardinalityType
  <2>3. Cardinality(Upto(t)) # 0
    BY <2>1, <2>2, FS_EmptySet
  <2> QED
    BY <1>1, <2>2, <2>3
<1>3. ASSUME NEW t \in S, NEW u \in S, t < u PROVE Cardinality(Upto(t)) < Cardinality(Upto(u))
  <2>1. Upto(t) \in SUBSET Upto(u) /\ Upto(t) # Upto(u) /\ Upto(u) \in SUBSET S
    <3>1. t \in Nat /\ u \in Nat /\ \A x \in S : x \in Nat
      BY <1>1
    <3>2. \A x \in S : x <= t => x <= u
      BY <1>3, <3>1
    <3>3. u \in Upto(u) /\ u \notin Upto(t)
      BY <1>3, <3>1
    <3> QED
      BY <3>2, <3>3
  <2>2. Cardinality(Upto(t)) \in Nat /\ Cardinality(Upto(u)) \in Nat
    BY <1>2, <1>1
  <2> HIDE DEF Upto
  <2>3. IsFiniteSet(Upto(u))
    BY <1>1, <2>1, FS_Subset
  <2> QED
    BY <2>1, <2>2, <2>3, FS_Subset
<1>4. \A t, u \in S : Cardinality(Upto(t)) = Cardinality(Upto(u)) => t = u
  <2> SUFFICES ASSUME NEW t \in S, NEW u \in S, Cardinality(Upto(t)) = Cardinality(Upto(u)), t # u
               PROVE  FALSE
    OBVIOUS
  <2>1. t < u \/ u < t
    BY <1>1
  <2>2. Cardinality(Upto(t)) \in Nat /\ Cardinality(Upto(u)) \in Nat
    BY <1>1, <1>2
  <2> HIDE DEF Upto
  <2> QED
    BY <1>3, <2>1, <2>2
<1>5. R \in Surjection(S, 1..n)
  <2>1. R \in [S -> 1..n]
    BY <1>2
  <2>2. \A t, u \in S : R[t] = R[u] => t = u
    BY <1>4
  <2> HIDE DEF R, n
  <2>3. R \in Injection(S, 1..n)
    BY <2>1, <2>2 DEF Injection, IsInjective
  <2>4. IsFiniteSet(1..n) /\ Cardinality(1..n) = n
    BY <1>1, FS_Interval
  <2> QED
    BY <2>3, <2>4, FS_Injection DEF n
<1>6. \A i \in 1..n : \E t \in S : Cardinality(Upto(t)) = i
  BY <1>5 DEF Surjection
<1> DEFINE At(i, t) == t \in S /\ Cardinality(Upto(t)) = i
<1>7. o = [i \in 1..n |-> CHOOSE t : At(i, t)]
  BY DEF InOrder
<1> HIDE DEF At, n, Upto
<1>8. \A i \in 1..n : At(i, o[i])
  <2>1. \A i \in 1..n : \E t : At(i, t)
    BY <1>6 DEF At
  <2> QED
    BY <1>7, <2>1
<1>9. \A i \in 1..n : o[i] \in S /\ Cardinality(Upto(o[i])) = i
  BY <1>8 DEF At
<1>10. o \in Seq(Tx) /\ Len(o) = n
  <2>1. o \in [1..n -> Tx]
    BY <1>7, <1>9
  <2> QED
    BY <1>1, <2>1
<1>11. \A t \in S : \E i \in 1..n : o[i] = t
  BY <1>2, <1>4, <1>9
<1>12. ASSUME NEW i \in 1..n, NEW j \in 1..n, i < j PROVE o[i] < o[j]
  <2>1. o[i] \in S /\ o[j] \in S /\ o[i] \in Nat /\ o[j] \in Nat
    BY <1>1, <1>9
  <2>2. o[i] # o[j]
    BY <1>9, <1>12
  <2>3. ~(o[j] < o[i])
    <3> SUFFICES ASSUME o[j] < o[i] PROVE FALSE
      OBVIOUS
    <3>1. Cardinality(Upto(o[j])) < Cardinality(Upto(o[i]))
      BY <1>3, <2>1
    <3> QED
      BY <1>1, <1>9, <1>12, <3>1
  <2> QED
    BY <2>1, <2>2, <2>3
<1> QED
  BY <1>9, <1>10, <1>11, <1>12

-----------------------------------------------------------------------------
(***************************************************************************)
(* The inductive invariant.                                                *)
(***************************************************************************)

\* A batch, or none.
BatchOK(c) == c = NoClaim \/ (c.start \in LSN /\ c.end \in LSN /\ c.start < c.end)

\* An active claim starts at progress, and its fence is in effect while progress
\* still has the generation that the claim replaces: this shuts out a serial
\* commit.
ClaimInv ==
  /\ progress \in LSN /\ cprog \in LSN /\ BatchOK(cclaim) /\ BatchOK(claim)
  /\ receipts \subseteq Works(claim)
  /\ Active => claim.start = progress /\ gen = Fence(claim) /\ pgen = claim.sgen /\ gen # pgen

\* A work transaction is too late, whoever sent it, or all work of the steps
\* before it has its receipt.
WorkOK(x) ==
  /\ \E w \in Works(x.c) : x.ws = Unit(x.c, w)
  /\ progress > x.c.start \/ (claim = x.c /\ PriorIn(x.c, x.ws, receipts))

ServerOK(x) ==
  /\ DOMAIN x = {"kind", "c", "ws", "st", "who"}
  /\ x.kind \in {"serial", "ensure", "work", "final"}
  /\ BatchOK(x.c)
  /\ x.kind = "work" => WorkOK(x)

ServerInv == \A x \in srv : ServerOK(x)

\* What the target must have applied.
Taken(t) == t <= progress \/ (Active /\ t \in Covers(claim, receipts))

OnceInv ==
  /\ done \in Seq(Tx)
  /\ \A i, j \in 1..Len(done) : done[i] = done[j] => i = j
  /\ \A t \in Tx : Taken(t) <=> \E i \in 1..Len(done) : done[i] = t

ReplayInv == ClaimInv /\ ServerInv /\ OnceInv

LEMMA BatchOKIs ==
  ASSUME NEW c, BatchOK(c) PROVE IsBatch(c) /\ c.start \in LSN /\ c.start <= c.end
BY PlanAssumption DEF BatchOK, IsBatch, NoClaim, LSN

LEMMA NoWork == Works(NoClaim) = {}
<1>1. BatchTx(NoClaim) = {}
  BY DEF BatchTx, NoClaim
<1> QED
  BY <1>1 DEF Works

-----------------------------------------------------------------------------
(***************************************************************************)
(* One step of the target's history.                                       *)
(***************************************************************************)

\* The target's tables stay as they are.
LEMMA NothingApplied ==
  ASSUME OnceInv, progress \in LSN, progress' \in LSN, progress <= progress', UNCHANGED done,
         \A t \in Tx : Taken(t)' <=> Taken(t)
  PROVE  OnceInv' /\ Target!Step
<1>1. OnceInv'
  BY DEF OnceInv
<1>2. ASSUME NEW t \in 1..progress' PROVE \E i \in 1..Len(done') : done'[i] = t
  <2>1. t \in Tx /\ t <= progress'
    BY PlanAssumption DEF Tx, LSN
  <2> QED
    BY <1>1, <2>1 DEF OnceInv, Taken
<1>3. Len(done) \in Nat
  BY DEF OnceInv
<1>4. (Len(done) + 1)..Len(done') = {}
  BY <1>3
<1>5. progress' >= progress
  BY PlanAssumption DEF LSN
<1> QED
  BY <1>1, <1>2, <1>3, <1>4, <1>5 DEF Target!Step

\* A set of transactions takes effect in source order, each with what it
\* conflicts with before it.
LEMMA SetApplied ==
  ASSUME OnceInv, progress \in LSN, progress' \in LSN, progress <= progress',
         NEW S \in SUBSET Tx, \A t \in S : ~Taken(t), done' = done \o InOrder(S),
         \A t \in Tx : Taken(t)' <=> Taken(t) \/ t \in S,
         \A u \in S : \A t \in 1..(u - 1) : Conflict(t, u) => Taken(t) \/ t \in S
  PROVE  OnceInv' /\ Target!Step
<1>1. PICK o : o = InOrder(S)
  OBVIOUS
<1>2. /\ o \in Seq(Tx) /\ \A i \in 1..Len(o) : o[i] \in S
      /\ \A t \in S : \E i \in 1..Len(o) : o[i] = t
      /\ \A i, j \in 1..Len(o) : i < j => o[i] < o[j]
  BY <1>1, InOrderIs
<1>3. PICK n : n = Len(done)
  OBVIOUS
<1>4. /\ done \in Seq(Tx) /\ n \in Nat /\ Len(o) \in Nat /\ done' = done \o o
  BY <1>1, <1>2, <1>3 DEF OnceInv
<1>5. /\ done' \in Seq(Tx) /\ Len(done') = n + Len(o)
      /\ \A i \in 1..n : done'[i] = done[i]
      /\ \A i \in (n + 1)..Len(done') : i - n \in 1..Len(o) /\ done'[i] = o[i - n]
      /\ \A i \in 1..Len(o) : i + n \in (n + 1)..Len(done') /\ done'[i + n] = o[i]
  BY <1>2, <1>3, <1>4
<1>6. /\ \A i \in 1..n : Taken(done[i]) /\ done[i] \in Tx
      /\ \A i, j \in 1..n : done[i] = done[j] => i = j
      /\ \A t \in Tx : Taken(t) => \E i \in 1..n : done[i] = t
  BY <1>3 DEF OnceInv
<1>7. \A i \in (n + 1)..Len(done') : done'[i] \in S /\ done'[i] \in Nat
  <2>1. S \subseteq Nat
    BY DEF Tx
  <2> QED
    BY <1>2, <1>5, <2>1
<1>8. \A i \in 1..n, j \in (n + 1)..Len(done') : done'[i] # done'[j]
  BY <1>5, <1>6, <1>7
<1>9. \A i, j \in (n + 1)..Len(done') : i < j => done'[i] < done'[j]
  <2> SUFFICES ASSUME NEW i \in (n + 1)..Len(done'), NEW j \in (n + 1)..Len(done'), i < j
               PROVE  done'[i] < done'[j]
    OBVIOUS
  <2>1. PICK a, b : a = i - n /\ b = j - n
    OBVIOUS
  <2>2. a \in 1..Len(o) /\ b \in 1..Len(o) /\ done'[i] = o[a] /\ done'[j] = o[b]
    BY <1>5, <2>1
  <2>3. a < b
    BY <1>4, <1>5, <2>1
  <2> QED
    BY <1>2, <2>2, <2>3
<1>10. \A i, j \in 1..Len(done') : done'[i] = done'[j] => i = j
  <2> SUFFICES ASSUME NEW i \in 1..Len(done'), NEW j \in 1..Len(done'), i < j, done'[i] = done'[j]
               PROVE  FALSE
    BY <1>4, <1>5
  <2>1. CASE j <= n
    BY <1>4, <1>5, <1>6, <2>1
  <2>2. CASE j > n /\ i <= n
    BY <1>4, <1>5, <1>8, <2>2
  <2>3. CASE i > n
    <3>1. i \in (n + 1)..Len(done') /\ j \in (n + 1)..Len(done')
      BY <1>4, <1>5, <2>3
    <3> QED
      BY <1>7, <1>9, <3>1
  <2> QED
    BY <1>4, <1>5, <2>1, <2>2, <2>3
<1>11. ASSUME NEW t \in Tx PROVE Taken(t)' <=> \E i \in 1..Len(done') : done'[i] = t
  <2>1. ASSUME Taken(t) PROVE \E i \in 1..Len(done') : done'[i] = t
    <3>1. PICK i \in 1..n : done[i] = t
      BY <1>6, <2>1
    <3>2. i \in 1..Len(done') /\ done'[i] = t
      BY <1>4, <1>5, <3>1
    <3> QED
      BY <3>2
  <2>2. ASSUME t \in S PROVE \E i \in 1..Len(done') : done'[i] = t
    <3>1. PICK i \in 1..Len(o) : o[i] = t
      BY <1>2, <2>2
    <3>2. i + n \in 1..Len(done') /\ done'[i + n] = t
      BY <1>4, <1>5, <3>1
    <3> QED
      BY <3>2
  <2>3. ASSUME NEW i \in 1..Len(done'), done'[i] = t PROVE Taken(t) \/ t \in S
    <3>1. CASE i <= n
      BY <1>4, <1>5, <1>6, <2>3, <3>1
    <3>2. CASE i > n
      BY <1>4, <1>5, <1>7, <2>3, <3>2
    <3> QED
      BY <1>4, <1>5, <3>1, <3>2
  <2> QED
    BY <2>1, <2>2, <2>3
<1>12. OnceInv'
  BY <1>5, <1>10, <1>11 DEF OnceInv
<1>13. ASSUME NEW i \in (n + 1)..Len(done') PROVE Target!MayFollow(done', i, done'[i])
  <2>1. PICK u : u = done'[i]
    OBVIOUS
  <2>2. u \in S /\ u \in Nat /\ u \in 1..N
    BY <1>7, <2>1 DEF Tx
  <2>3. \A j \in 1..(i - 1) : done'[j] # u
    <3>1. \A j \in 1..(i - 1) : j \in 1..Len(done') /\ j # i /\ i \in 1..Len(done')
      BY <1>4, <1>5
    <3> QED
      BY <1>10, <2>1, <3>1
  <2>4. ASSUME NEW t \in 1..(u - 1), Conflict(t, u) PROVE \E j \in 1..(i - 1) : done'[j] = t
    <3>1. t \in Tx /\ t < u /\ t \in Nat
      BY <2>2, PlanAssumption DEF Tx
    <3>2. CASE Taken(t)
      <4>1. PICK j \in 1..n : done[j] = t
        BY <1>6, <3>1, <3>2
      <4>2. j \in 1..(i - 1) /\ done'[j] = t
        BY <1>4, <1>5, <4>1
      <4> QED
        BY <4>2
    <3>3. CASE t \in S
      <4>1. PICK j \in 1..Len(o) : o[j] = t
        BY <1>2, <3>3
      <4>2. PICK k : k = j + n
        OBVIOUS
      <4>3. k \in (n + 1)..Len(done') /\ done'[k] = t /\ k \in Nat /\ i \in Nat
        BY <1>4, <1>5, <4>1, <4>2
      <4>4. u # t /\ ~(u < t)
        BY <2>2, <3>1
      <4>5. i # k /\ (i < k => done'[i] < done'[k])
        BY <1>9, <2>1, <4>3, <4>4
      <4>6. k \in 1..(i - 1)
        BY <1>4, <2>1, <4>3, <4>4, <4>5
      <4> QED
        BY <4>3, <4>6
    <3> QED
      BY <2>2, <2>4, <3>2, <3>3
  <2>5. Target!MayFollow(done', i, u)
    BY <2>2, <2>3, <2>4 DEF Target!MayFollow
  <2> QED
    BY <2>1, <2>5
<1>14. ASSUME NEW t \in 1..progress' PROVE \E i \in 1..Len(done') : done'[i] = t
  <2>1. t \in Tx /\ t <= progress'
    BY PlanAssumption DEF Tx, LSN
  <2> QED
    BY <1>12, <2>1 DEF OnceInv, Taken
<1>15. /\ progress' >= progress /\ Len(done') >= Len(done)
       /\ \A i \in 1..Len(done) : done'[i] = done[i]
  BY <1>3, <1>4, <1>5, PlanAssumption DEF LSN
<1>16. \A i \in (Len(done) + 1)..Len(done') : Target!MayFollow(done', i, done'[i])
  BY <1>3, <1>13
<1> QED
  BY <1>12, <1>14, <1>15, <1>16 DEF Target!Step

-----------------------------------------------------------------------------
(***************************************************************************)
(* Target transactions in flight.                                          *)
(***************************************************************************)

\* Progress moves forward, and past a claim that goes.
Forward ==
  /\ progress \in Nat /\ progress' \in Nat /\ progress <= progress'
  /\ \/ claim' = claim /\ receipts \subseteq receipts'
     \/ progress' > claim.start \/ claim = NoClaim

LEMMA WorkStays ==
  ASSUME Forward, NEW x, BatchOK(x.c), WorkOK(x) PROVE WorkOK(x)'
<1>1. x.c.start \in Nat
  BY BatchOKIs DEF IsBatch
<1>2. CASE progress > x.c.start
  BY <1>1, <1>2 DEF Forward, WorkOK
<1>3. CASE claim = x.c /\ PriorIn(x.c, x.ws, receipts)
  <2>1. claim # NoClaim
    BY <1>3, NoWork DEF WorkOK
  <2>2. CASE claim' = claim /\ receipts \subseteq receipts'
    BY <1>3, <2>2 DEF WorkOK, PriorIn
  <2>3. CASE progress' > claim.start
    BY <1>3, <2>3 DEF WorkOK
  <2> QED
    BY <2>1, <2>2, <2>3 DEF Forward
<1> QED
  BY <1>2, <1>3 DEF WorkOK

\* An answer changes the state of a transaction and nothing else.
LEMMA Restated ==
  ASSUME NEW x, ServerOK(x)', NEW st, NEW y, y = [x EXCEPT !.st = st] PROVE ServerOK(y)'
<1>1. DOMAIN x = {"kind", "c", "ws", "st", "who"}
  BY DEF ServerOK
<1>2. DOMAIN y = DOMAIN x /\ y.c = x.c /\ y.kind = x.kind /\ y.ws = x.ws
  BY <1>1
<1> QED
  BY <1>2 DEF ServerOK, WorkOK

LEMMA ServerKeeps ==
  ASSUME ServerInv, Forward,
         \A y \in srv' : y \in srv \/ (\E x \in srv : \E st : y = [x EXCEPT !.st = st]) \/ ServerOK(y)'
  PROVE  ServerInv'
<1>1. ASSUME NEW x \in srv PROVE ServerOK(x)'
  BY WorkStays DEF ServerInv, ServerOK
<1>2. ASSUME NEW y \in srv' PROVE ServerOK(y)'
  <2>1. CASE y \in srv
    BY <1>1, <2>1
  <2>2. ASSUME NEW x \in srv, NEW st, y = [x EXCEPT !.st = st] PROVE ServerOK(y)'
    <3>1. ServerOK(x)'
      BY <1>1
    <3> QED
      BY <2>2, <3>1, Restated
  <2> QED
    BY <1>2, <2>1, <2>2
<1> QED
  BY <1>2 DEF ServerInv

LEMMA AnswerKeeps ==
  ASSUME ServerInv, Forward, NEW x \in srv, NEW st, Answer(x, st) PROVE ServerInv'
<1>1. \A y \in srv' : y \in srv \/ \E z \in srv : \E s : y = [z EXCEPT !.st = s]
  BY DEF Answer
<1> QED
  BY <1>1, ServerKeeps

\* Nothing happens on the target.
LEMMA QuietKeeps ==
  ASSUME ReplayInv, UNCHANGED tgtVars, cprog' \in LSN, BatchOK(cclaim'),
         \A y \in srv' : y \in srv \/ (\E x \in srv : \E st : y = [x EXCEPT !.st = st]) \/ ServerOK(y)'
  PROVE  ReplayInv' /\ UNCHANGED <<done, progress>>
<1>1. UNCHANGED <<gen, progress, pgen, claim, receipts, done>>
  BY DEF tgtVars
<1>2. Forward
  BY <1>1, PlanAssumption DEF ReplayInv, ClaimInv, Forward, LSN
<1>3. ServerInv'
  BY <1>2, ServerKeeps DEF ReplayInv
<1>4. ClaimInv'
  BY <1>1 DEF ReplayInv, ClaimInv, Active
<1>5. OnceInv'
  BY <1>1 DEF ReplayInv, OnceInv, Taken, Active
<1> QED
  BY <1>1, <1>3, <1>4, <1>5 DEF ReplayInv

LEMMA ForgetKeeps ==
  ASSUME ReplayInv, UNCHANGED tgtVars, Forget PROVE ReplayInv' /\ UNCHANGED <<done, progress>>
<1>1. cprog' \in LSN /\ BatchOK(cclaim') /\ \A y \in srv' : y \in srv
  BY PlanAssumption DEF Forget, LSN, BatchOK
<1> QED
  BY <1>1, QuietKeeps

\* The applier starts a transaction that is no work.
LEMMA OpenKeeps ==
  ASSUME ReplayInv, UNCHANGED <<tgtVars, cprog, cclaim>>, NEW kind \in {"serial", "ensure", "final"}, NEW st,
         Open(kind, cclaim, {}, st)
  PROVE  ReplayInv' /\ UNCHANGED <<done, progress>>
<1>1. PICK y : y = [kind |-> kind, c |-> cclaim, ws |-> {}, st |-> st, who |-> cid]
  OBVIOUS
<1>2. DOMAIN y = {"kind", "c", "ws", "st", "who"} /\ y.c = cclaim /\ y.kind = kind
  BY <1>1
<1>3. ServerOK(y)'
  BY <1>2 DEF ServerOK, ReplayInv, ClaimInv
<1>4. \A z \in srv' : z \in srv \/ z = y
  BY <1>1 DEF Open
<1>5. cprog' \in LSN /\ BatchOK(cclaim') /\ UNCHANGED tgtVars
  BY DEF ReplayInv, ClaimInv
<1> QED
  BY <1>3, <1>4, <1>5, QuietKeeps

-----------------------------------------------------------------------------
(***************************************************************************)
(* The applier.                                                            *)
(***************************************************************************)
Quiet == ReplayInv' /\ UNCHANGED <<done, progress>>

LEMMA ConnectKeeps ==
  ASSUME ReplayInv, Connect PROVE Quiet
<1>1. CASE ConnectValidate /\ Forget
  BY <1>1, ForgetKeeps DEF ConnectValidate, Quiet
<1>2. CASE ~(ConnectValidate /\ Forget)
  <2>1. UNCHANGED <<tgtVars, srv, cclaim>> /\ cprog' \in {cprog, progress}
    BY <1>2 DEF Connect, ConnectIdentity, ConnectProgressGeneration, ConnectValidate, ConnectResolve,
                ConnectProgress
  <2>2. cprog' \in LSN /\ BatchOK(cclaim') /\ UNCHANGED tgtVars /\ UNCHANGED srv
    BY <2>1 DEF ReplayInv, ClaimInv
  <2> QED
    BY <2>2, QuietKeeps DEF Quiet
<1> QED
  BY <1>1, <1>2

LEMMA ResumeKeeps ==
  ASSUME ReplayInv, Resume PROVE Quiet
<1>1. CASE Forget
  BY <1>1, ForgetKeeps DEF Resume, Quiet
<1>2. CASE ~Forget
  <2>1. UNCHANGED <<tgtVars, srv, cprog>> /\ cclaim' = claim
    BY <1>2 DEF Resume
  <2>2. cprog' \in LSN /\ BatchOK(cclaim') /\ UNCHANGED tgtVars /\ UNCHANGED srv
    BY <2>1 DEF ReplayInv, ClaimInv
  <2> QED
    BY <2>2, QuietKeeps DEF Quiet
<1> QED
  BY <1>1, <1>2

LEMMA CollectKeeps ==
  ASSUME ReplayInv, Collect PROVE Quiet
<1>1. PICK e \in Tx : /\ FreshBatch([start |-> cprog, end |-> e, lanes |-> clanes, sgen |-> cgen])
                      /\ cclaim' = [start |-> cprog, end |-> e, lanes |-> clanes, sgen |-> cgen]
  BY DEF Collect
<1>2. PICK c : c = [start |-> cprog, end |-> e, lanes |-> clanes, sgen |-> cgen]
  OBVIOUS
<1>3. c.start = cprog /\ c.end = e /\ c.end > c.start /\ cclaim' = c
  BY <1>1, <1>2 DEF FreshBatch
<1>4. cprog \in LSN /\ e \in LSN /\ cprog \in Nat /\ e \in Nat
  BY PlanAssumption DEF ReplayInv, ClaimInv, LSN, Tx
<1>5. BatchOK(cclaim')
  BY <1>3, <1>4 DEF BatchOK
<1>6. cprog' \in LSN /\ UNCHANGED tgtVars /\ UNCHANGED srv
  BY <1>4 DEF Collect
<1> QED
  BY <1>5, <1>6, QuietKeeps DEF Quiet

LEMMA SendKeeps ==
  ASSUME ReplayInv, SerialBegin \/ EnsureSend \/ FinalizeSend PROVE Quiet
BY OpenKeeps DEF SerialBegin, EnsureSend, FinalizeSend, Quiet

\* Work is begun only when all earlier steps have their receipts.
LEMMA BeginWorkKeeps ==
  ASSUME ReplayInv, NEW w \in Works(cclaim), BeginWork(Unit(cclaim, w)) PROVE Quiet
<1>1. PICK unit : unit = Unit(cclaim, w)
  OBVIOUS
<1>2. UNCHANGED tgtVars
  BY DEF BeginWork
<1>3. CASE Forget
  BY <1>2, <1>3, ForgetKeeps DEF Quiet
<1>4. CASE UNCHANGED <<srv, cprog, cclaim>>
  <2>1. cprog' \in LSN /\ BatchOK(cclaim') /\ UNCHANGED srv
    BY <1>4 DEF ReplayInv, ClaimInv
  <2> QED
    BY <1>2, <2>1, QuietKeeps DEF Quiet
<1>5. CASE /\ Holds(cclaim) /\ PriorIn(cclaim, unit, receipts)
           /\ Open("work", cclaim, unit, "open") /\ UNCHANGED cliVars
  <2>1. PICK y : y = [kind |-> "work", c |-> cclaim, ws |-> unit, st |-> "open", who |-> cid]
    OBVIOUS
  <2>2. DOMAIN y = {"kind", "c", "ws", "st", "who"} /\ y.c = cclaim /\ y.ws = unit /\ y.kind = "work"
    BY <2>1
  <2>3. UNCHANGED <<progress, claim, receipts>> /\ cprog' \in LSN /\ BatchOK(cclaim') /\ BatchOK(cclaim)
    BY <1>2, <1>5 DEF tgtVars, cliVars, ReplayInv, ClaimInv
  <2>4. WorkOK(y)
    BY <1>1, <1>5, <2>2 DEF WorkOK, Holds
  <2>5. ServerOK(y)'
    BY <2>2, <2>3, <2>4 DEF ServerOK, WorkOK
  <2>6. \A z \in srv' : z \in srv \/ z = y
    BY <1>5, <2>1 DEF Open
  <2> QED
    BY <1>2, <2>3, <2>5, <2>6, QuietKeeps DEF Quiet
<1> QED
  BY <1>1, <1>3, <1>4, <1>5 DEF BeginWork

LEMMA AnsweredKeeps ==
  ASSUME ReplayInv, NEW x \in srv, SendCommit(x) \/ Acknowledge(x) \/ Fail(x) \/ OrphanAbort(x)
  PROVE  Quiet
<1>1. UNCHANGED tgtVars
  BY DEF SendCommit, Acknowledge, Fail, OrphanAbort
<1>2. cprog \in LSN /\ BatchOK(cclaim) /\ x.c.end \in LSN
  <2>1. BatchOK(x.c)
    BY DEF ReplayInv, ServerInv, ServerOK
  <2> QED
    BY <2>1, BatchOKIs DEF IsBatch, ReplayInv, ClaimInv
<1>3. CASE SendCommit(x)
  <2>1. \A y \in srv' : y \in srv \/ \E z \in srv : \E st : y = [z EXCEPT !.st = st]
    BY <1>3 DEF SendCommit
  <2>2. cprog' \in LSN /\ BatchOK(cclaim')
    BY <1>2, <1>3 DEF SendCommit, cliVars
  <2> QED
    BY <1>1, <2>1, <2>2, QuietKeeps DEF Quiet
<1>4. CASE Acknowledge(x) \/ OrphanAbort(x)
  <2>1. \A y \in srv' : y \in srv
    BY <1>4 DEF Acknowledge, OrphanAbort
  <2>2. cprog' \in LSN /\ BatchOK(cclaim')
    <3>1. BatchOK(NoClaim)
      BY DEF BatchOK
    <3>2. CASE OrphanAbort(x)
      BY <1>2, <3>2 DEF OrphanAbort, cliVars
    <3>3. CASE Acknowledge(x)
      <4>1. \/ UNCHANGED <<cprog, cclaim>>
            \/ cprog' = x.c.end /\ cclaim' = NoClaim
        <5>1. x.kind \in {"serial", "ensure", "work", "final"}
          BY DEF ReplayInv, ServerInv, ServerOK
        <5>2. CASE x.kind = "ensure" \/ x.kind = "work"
          BY <3>3, <5>2 DEF Acknowledge
        <5>3. CASE x.kind = "serial" \/ x.kind = "final"
          BY <3>3, <5>3 DEF Acknowledge
        <5> QED
          BY <5>1, <5>2, <5>3
      <4> QED
        BY <1>2, <3>1, <4>1
    <3> QED
      BY <1>4, <3>2, <3>3
  <2> QED
    BY <1>1, <2>1, <2>2, QuietKeeps DEF Quiet
<1>5. CASE Fail(x)
  BY <1>1, <1>5, ForgetKeeps DEF Fail, Quiet
<1> QED
  BY <1>3, <1>4, <1>5

LEMMA LoseKeeps ==
  ASSUME ReplayInv, Lose \/ Poll \/ UNCHANGED vars PROVE Quiet
<1>1. CASE Lose
  BY <1>1, ForgetKeeps DEF Lose, Quiet
<1>2. CASE Poll \/ UNCHANGED vars
  <2>1. UNCHANGED tgtVars /\ UNCHANGED srv /\ UNCHANGED <<cprog, cclaim>>
    BY <1>2 DEF Poll, vars, cliVars
  <2>2. cprog' \in LSN /\ BatchOK(cclaim')
    BY <2>1 DEF ReplayInv, ClaimInv
  <2> QED
    BY <2>1, <2>2, QuietKeeps DEF Quiet
<1> QED
  BY <1>1, <1>2

-----------------------------------------------------------------------------
(***************************************************************************)
(* COMMIT on the server, whoever sent it and whenever.                     *)
(***************************************************************************)
Kept == ReplayInv' /\ Target!Step

LEMMA AbortKeeps ==
  ASSUME ReplayInv, NEW x \in srv, NEW st, UNCHANGED <<tgtVars, cliVars>>, Answer(x, st) PROVE Quiet
<1>1. \A y \in srv' : y \in srv \/ \E z \in srv : \E s : y = [z EXCEPT !.st = s]
  BY DEF Answer
<1>2. cprog' \in LSN /\ BatchOK(cclaim') /\ UNCHANGED tgtVars
  BY DEF ReplayInv, ClaimInv, cliVars
<1> QED
  BY <1>1, <1>2, QuietKeeps DEF Quiet

\* What is known of a batch that a transaction in flight carries.
LEMMA CarriedBatch ==
  ASSUME ReplayInv, NEW x \in srv, NEW c, c = x.c
  PROVE  /\ BatchOK(c) /\ IsBatch(c) /\ c.start \in Nat /\ c.end \in Nat /\ c.end \in LSN
         /\ c.start <= c.end /\ BatchTx(c) \subseteq Tx
         /\ progress \in Nat /\ progress \in LSN /\ N \in Nat
<1>1. BatchOK(c)
  BY DEF ReplayInv, ServerInv, ServerOK
<1>2. IsBatch(c) /\ c.start <= c.end
  BY <1>1, BatchOKIs
<1> QED
  BY <1>1, <1>2, BatchIs, PlanAssumption DEF IsBatch, LSN, ReplayInv, ClaimInv

LEMMA SerialKeeps ==
  ASSUME ReplayInv, NEW x \in srv, CommitSerial(x), UNCHANGED cliVars PROVE Quiet \/ Kept
<1>1. PICK c : c = x.c
  OBVIOUS
<1>2. /\ BatchOK(c) /\ c.start \in Nat /\ c.end \in Nat /\ c.end \in LSN
      /\ c.start <= c.end /\ BatchTx(c) \subseteq Tx /\ progress \in Nat /\ progress \in LSN /\ N \in Nat
  BY <1>1, CarriedBatch
<1>3. CASE Abort(x)
  BY <1>3, AbortKeeps DEF Abort
<1>4. CASE ~Abort(x)
  <2>1. /\ gen = pgen /\ progress = c.start /\ progress' = c.end
        /\ done' = done \o InOrder(BatchTx(c)) /\ Answer(x, "done")
        /\ UNCHANGED <<gen, pgen, claim, receipts>>
    BY <1>1, <1>4 DEF CommitSerial
  <2>2. ~Active /\ ~Active' /\ claim = NoClaim
    BY <2>1 DEF ReplayInv, ClaimInv, Active
  <2>3. /\ \A t \in Tx : Taken(t) <=> t <= c.start
        /\ \A t \in Tx : Taken(t)' <=> t <= c.end
    BY <2>1, <2>2 DEF Taken
  <2>4. \A t \in Tx : t \in Nat /\ (t <= c.end <=> t <= c.start \/ t \in BatchTx(c))
    BY <1>2 DEF BatchTx, Tx
  <2>5. \A t \in BatchTx(c) : ~(t <= c.start)
    BY <1>2 DEF BatchTx
  <2>6. \A u \in BatchTx(c) : \A t \in 1..(u - 1) : t \in Tx /\ t <= c.end
    BY <1>2 DEF BatchTx, Tx
  <2>7. /\ \A t \in BatchTx(c) : ~Taken(t)
        /\ \A t \in Tx : Taken(t)' <=> Taken(t) \/ t \in BatchTx(c)
        /\ \A u \in BatchTx(c) : \A t \in 1..(u - 1) : Conflict(t, u) => Taken(t) \/ t \in BatchTx(c)
    BY <1>2, <2>3, <2>4, <2>5, <2>6
  <2>8. OnceInv' /\ Target!Step
    BY <1>2, <2>1, <2>7, SetApplied DEF ReplayInv
  <2>9. Forward
    BY <1>2, <2>1, <2>2 DEF Forward
  <2>10. ServerInv'
    BY <2>1, <2>9, AnswerKeeps DEF ReplayInv
  <2>11. ClaimInv'
    BY <1>2, <2>1, <2>2 DEF ReplayInv, ClaimInv, cliVars, Active
  <2> QED
    BY <2>8, <2>10, <2>11 DEF Kept, ReplayInv
<1> QED
  BY <1>3, <1>4

LEMMA EnsureKeeps ==
  ASSUME ReplayInv, NEW x \in srv, CommitEnsure(x), UNCHANGED cliVars PROVE Quiet \/ Kept
<1>1. PICK c : c = x.c
  OBVIOUS
<1>2. BatchOK(c) /\ progress \in Nat /\ progress \in LSN
  BY <1>1, CarriedBatch
<1>3. CASE UNCHANGED tgtVars
  <2>1. Answer(x, "done") \/ Answer(x, "fail")
    BY DEF CommitEnsure, Abort
  <2> QED
    BY <1>3, <2>1, AbortKeeps
<1>4. CASE ~UNCHANGED tgtVars
  <2>1. /\ ~Active /\ gen = c.sgen /\ gen # Fence(c) /\ progress = c.start /\ pgen = c.sgen
        /\ claim' = c /\ gen' = Fence(c) /\ receipts' = {} /\ Answer(x, "done")
        /\ UNCHANGED <<progress, pgen, done>>
    BY <1>1, <1>4 DEF CommitEnsure, Abort
  <2>2. claim = NoClaim
    BY <2>1 DEF Active
  <2>3. \A t \in Tx : Taken(t)' <=> Taken(t)
    <3>1. Covers(claim', receipts') = {}
      BY <2>1 DEF Covers
    <3> QED
      BY <2>1, <3>1 DEF Taken
  <2>4. OnceInv' /\ Target!Step
    BY <1>2, <2>1, <2>3, NothingApplied DEF ReplayInv
  <2>5. Forward
    BY <1>2, <2>1, <2>2 DEF Forward
  <2>6. ServerInv'
    BY <2>1, <2>5, AnswerKeeps DEF ReplayInv
  <2>7. ClaimInv'
    BY <1>2, <2>1 DEF ReplayInv, ClaimInv, cliVars
  <2> QED
    BY <2>4, <2>6, <2>7 DEF Kept, ReplayInv
<1> QED
  BY <1>3, <1>4

LEMMA WorkKeeps ==
  ASSUME ReplayInv, NEW x \in srv, CommitWork(x), UNCHANGED cliVars PROVE Quiet \/ Kept
<1>1. PICK c, ws : c = x.c /\ ws = x.ws
  OBVIOUS
<1>2. /\ BatchOK(c) /\ IsBatch(c) /\ c.start \in Nat /\ c.end \in Nat /\ c.end \in LSN
      /\ c.start <= c.end /\ BatchTx(c) \subseteq Tx /\ progress \in Nat /\ progress \in LSN /\ N \in Nat
  BY <1>1, CarriedBatch
<1>3. CASE Abort(x)
  BY <1>3, AbortKeeps DEF Abort
<1>4. CASE ~Abort(x)
  <2>1. /\ claim = c /\ receipts' = receipts \cup ws
        /\ done' = done \o InOrder(Covers(c, ws \ receipts)) /\ Answer(x, "done")
        /\ UNCHANGED <<gen, progress, pgen, claim>>
    BY <1>1, <1>4 DEF CommitWork, Holds
  <2>2. x.kind = "work" /\ WorkOK(x)
    BY DEF CommitWork, ReplayInv, ServerInv, ServerOK
  <2>3. PICK w \in Works(c) : ws = Unit(c, w)
    BY <1>1, <2>2 DEF WorkOK
  <2>4. Active /\ Active' /\ progress = c.start
    BY <2>1, <2>3, NoWork DEF ReplayInv, ClaimInv, Active
  <2>5. PriorIn(c, ws, receipts)
    BY <1>1, <1>2, <2>2, <2>4 DEF WorkOK
  <2>6. PICK S : S = Covers(c, ws \ receipts)
    OBVIOUS
  <2>7. /\ \A t \in Tx : Taken(t) <=> t <= c.start \/ t \in Covers(c, receipts)
        /\ \A t \in Tx : Taken(t)' <=> t <= c.start \/ t \in Covers(c, receipts \cup ws)
    BY <2>1, <2>4 DEF Taken
  <2>8. /\ S \subseteq BatchTx(c)
        /\ \A t : t \in Covers(c, receipts \cup ws) <=> t \in Covers(c, receipts) \/ t \in S
        /\ \A t \in S : t \notin Covers(c, receipts)
    BY <2>6 DEF Covers
  <2>9. \A t \in BatchTx(c) : ~(t <= c.start) /\ t \in Nat
    BY <1>2 DEF BatchTx
  <2>10. S \in SUBSET Tx /\ \A t \in S : ~Taken(t)
    BY <1>2, <2>7, <2>8, <2>9
  <2>11. \A t \in Tx : Taken(t)' <=> Taken(t) \/ t \in S
    BY <2>7, <2>8
  <2>12. ASSUME NEW u \in S, NEW t \in 1..(u - 1), Conflict(t, u) PROVE Taken(t) \/ t \in S
    <3>1. u \in BatchTx(c) /\ u \in Nat /\ WorkOf(c, u) \in ws \ receipts
      BY <2>6, <2>8, <2>9 DEF Covers
    <3>2. t \in Tx /\ t < u /\ t \in Nat
      BY <1>2, <3>1 DEF BatchTx, Tx
    <3>3. CASE t <= c.start
      BY <2>7, <3>2, <3>3
    <3>4. CASE t > c.start
      <4>1. t \in BatchTx(c)
        BY <1>2, <3>1, <3>2, <3>4 DEF BatchTx
      <4>2. StepOf(c, t) < StepOf(c, u) \/ WorkOf(c, t) = WorkOf(c, u)
        BY <1>2, <2>12, <3>1, <3>2, <4>1, ConflictOrder
      <4>3. PICK v, y : v = WorkOf(c, t) /\ y = WorkOf(c, u)
        OBVIOUS
      <4>4. v \in Works(c) /\ y \in ws /\ v[1] = StepOf(c, t) /\ y[1] = StepOf(c, u)
        BY <3>1, <4>1, <4>3 DEF Works, WorkOf
      <4>5. v \in receipts \/ v \in ws
        <5>1. CASE v = y
          BY <4>4, <5>1
        <5>2. CASE v[1] < y[1]
          BY <1>2, <2>3, <2>5, <4>4, <5>2, UnitOrder
        <5> QED
          BY <4>2, <4>3, <4>4, <5>1, <5>2
      <4>6. t \in Covers(c, receipts) \/ t \in S
        BY <2>6, <4>1, <4>3, <4>5 DEF Covers
      <4> QED
        BY <2>7, <3>2, <4>6
    <3> QED
      BY <1>2, <3>2, <3>3, <3>4
  <2>13. OnceInv' /\ Target!Step
    <3>1. done' = done \o InOrder(S) /\ progress' \in LSN /\ progress <= progress'
      BY <1>2, <2>1, <2>6
    <3> QED
      BY <1>2, <2>10, <2>11, <2>12, <3>1, SetApplied DEF ReplayInv
  <2>14. Forward
    BY <1>2, <2>1 DEF Forward
  <2>15. ServerInv'
    BY <2>1, <2>14, AnswerKeeps DEF ReplayInv
  <2>16. ClaimInv'
    <3>1. ws \subseteq Works(c)
      BY <2>3, UnitIs
    <3> QED
      BY <2>1, <3>1 DEF ReplayInv, ClaimInv, cliVars, Active
  <2> QED
    BY <2>13, <2>15, <2>16 DEF Kept, ReplayInv
<1> QED
  BY <1>3, <1>4

LEMMA FinalKeeps ==
  ASSUME ReplayInv, NEW x \in srv, CommitFinal(x), UNCHANGED cliVars PROVE Quiet \/ Kept
<1>1. PICK c : c = x.c
  OBVIOUS
<1>2. /\ BatchOK(c) /\ c.start \in Nat /\ c.end \in Nat /\ c.end \in LSN
      /\ c.start <= c.end /\ BatchTx(c) \subseteq Tx /\ progress \in Nat /\ progress \in LSN /\ N \in Nat
  BY <1>1, CarriedBatch
<1>3. CASE Abort(x)
  BY <1>3, AbortKeeps DEF Abort
<1>4. CASE ~Abort(x)
  <2>1. /\ claim = c /\ Works(c) \subseteq receipts /\ progress = c.start /\ progress' = c.end
        /\ claim' = NoClaim /\ receipts' = {} /\ Answer(x, "done") /\ UNCHANGED done
    BY <1>1, <1>4 DEF CommitFinal, Holds
  <2>2. Covers(c, receipts) = BatchTx(c)
    BY <2>1 DEF Covers, Works
  <2>3. Active \/ BatchTx(c) = {}
    BY <2>1 DEF Active, BatchTx, NoClaim
  <2>4. /\ \A t \in Tx : Taken(t) <=> t <= c.start \/ t \in BatchTx(c)
        /\ \A t \in Tx : Taken(t)' <=> t <= c.end
    BY <2>1, <2>2, <2>3 DEF Taken, Active
  <2>5. \A t \in Tx : t <= c.end <=> t <= c.start \/ t \in BatchTx(c)
    BY <1>2 DEF BatchTx, Tx
  <2>6. OnceInv' /\ Target!Step
    BY <1>2, <2>1, <2>4, <2>5, NothingApplied DEF ReplayInv
  <2>7. Forward
    BY <1>2, <2>1 DEF Forward, BatchOK
  <2>8. ServerInv'
    BY <2>1, <2>7, AnswerKeeps DEF ReplayInv
  <2>9. ClaimInv'
    BY <1>2, <2>1 DEF ReplayInv, ClaimInv, cliVars, Active, BatchOK
  <2> QED
    BY <2>6, <2>8, <2>9 DEF Kept, ReplayInv
<1> QED
  BY <1>3, <1>4

-----------------------------------------------------------------------------
LEMMA ReplayInit == Init => ReplayInv
<1> SUFFICES ASSUME Init PROVE ReplayInv
  OBVIOUS
<1>1. ClaimInv
  BY PlanAssumption DEF Init, ClaimInv, LSN, BatchOK, Active
<1>2. ServerInv
  BY DEF Init, ServerInv
<1>3. OnceInv
  <2>1. done \in Seq(Tx) /\ Len(done) = 0 /\ progress = 0 /\ ~Active
    BY DEF Init, Active
  <2> QED
    BY <2>1 DEF OnceInv, Taken, Tx
<1> QED
  BY <1>1, <1>2, <1>3 DEF ReplayInv

LEMMA ReplayNext ==
  ASSUME ReplayInv, [Next]_vars PROVE ReplayInv' /\ [Target!Step]_<<done, progress>>
<1> SUFFICES Quiet \/ Kept
  BY DEF Quiet, Kept
<1>1. CASE Connect
  BY <1>1, ConnectKeeps
<1>2. CASE Apply
  BY <1>2, ResumeKeeps, CollectKeeps, SendKeeps, BeginWorkKeeps, AnsweredKeeps DEF Apply, Units
<1>3. ASSUME NEW x \in srv, Commit(x) PROVE Quiet \/ Kept
  BY <1>3, SerialKeeps, EnsureKeeps, WorkKeeps, FinalKeeps DEF Commit
<1>4. CASE ServerCleanup
  BY <1>4, AnsweredKeeps DEF ServerCleanup
<1>5. CASE Lose \/ Poll \/ UNCHANGED vars
  BY <1>5, LoseKeeps
<1> QED
  BY <1>1, <1>2, <1>3, <1>4, <1>5 DEF Next, Server

\* An active claim fences out every other writer of progress, a late COMMIT finds
\* its claim gone or the steps before it done, and the target has applied what
\* progress and receipts say.
THEOREM ReplayInvariant == Spec => []ReplayInv
<1>1. ReplayInv /\ [Next]_vars => ReplayInv'
  BY ReplayNext
<1> QED
  BY <1>1, ReplayInit, PTL DEF Spec

\* streamProgressSQL, ensureReplayClaim, replayWorkCompletionSQL and
\* finalizeReplayClaim: whatever connections are lost and whenever the COMMITs
\* left behind are executed, each transaction up to progress is on the target
\* once, beyond it exactly those whose work row has its receipt.
THEOREM FrontierExactAlways == Spec => []FrontierExact
<1>1. ReplayInv => FrontierExact
  <2> SUFFICES ASSUME ReplayInv, NEW t \in Tx
               PROVE  Cardinality({i \in 1..Len(done) : done[i] = t}) = IF Taken(t) THEN 1 ELSE 0
    BY DEF FrontierExact, Taken
  <2>1. CASE Taken(t)
    <3>1. PICK i \in 1..Len(done) : done[i] = t
      BY <2>1 DEF ReplayInv, OnceInv
    <3>2. {j \in 1..Len(done) : done[j] = t} = {i}
      BY <3>1 DEF ReplayInv, OnceInv
    <3> QED
      BY <2>1, <3>2, FS_Singleton
  <2>2. CASE ~Taken(t)
    <3>1. {j \in 1..Len(done) : done[j] = t} = {}
      BY <2>2 DEF ReplayInv, OnceInv
    <3> QED
      BY <2>2, <3>1, FS_EmptySet
  <2> QED
    BY <2>1, <2>2
<1> QED
  BY <1>1, ReplayInvariant, PTL

\* Replay through claims implements what the target is promised: every
\* transaction takes effect once and never before an earlier one it conflicts
\* with, and progress covers only what took effect, although lanes and lost
\* connections commit independently.
THEOREM ReplayImplementsTarget == Spec => ImplementsTargetReplay
<1>1. Init => Target!Init
  BY DEF Init, Target!Init
<1>2. ReplayInv /\ [Next]_vars => [Target!Step]_<<done, progress>>
  BY ReplayNext
<1> QED
  BY <1>1, <1>2, ReplayInvariant, PTL DEF Spec, ImplementsTargetReplay, Target!Spec

-----------------------------------------------------------------------------
(***************************************************************************)
(* A run that is left alone: every check of the applier passes.            *)
(***************************************************************************)

\* A lane is never mistaken for a serial step.
LEMMA LaneIs ==
  ASSUME NEW c, IsBatch(c), c.lanes \in LaneCounts \cup {1}, NEW t \in BatchTx(c), ~Serial(c, t)
  PROVE  LaneOf(c, t) \in Nat
<1>1. PICK keys : keys = ComponentKeys(t, Epoch(c, t))
  OBVIOUS
<1>2. \A u \in BatchTx(c) : PlanKeys(u) \subseteq Key \cup {-v : v \in Tx}
  BY BatchIs, PlanAssumption DEF PlanKeys
<1>3. keys \in SUBSET (Key \cup {-v : v \in Tx})
  BY <1>1, <1>2 DEF ComponentKeys, Component, Epoch
<1>4. LaneHash(keys, c.lanes) \in 0..(c.lanes - 1)
  BY <1>3, LaneAssumption
<1>5. c.lanes \in Nat
  <2>1. \A n \in LaneCounts \cup {1} : n \in Nat
    BY ClaimAssumption
  <2> QED
    BY <2>1, Zenon
<1> QED
  BY <1>1, <1>4, <1>5 DEF LaneOf

\* The unit of a work row holds that row.
LEMMA UnitSelf ==
  ASSUME NEW c, IsBatch(c), c.lanes \in LaneCounts \cup {1}, NEW w \in Works(c) PROVE w \in Unit(c, w)
<1>1. CASE w[2] # -1
  BY <1>1 DEF Unit
<1>2. CASE w[2] = -1
  <2>1. PICK t \in BatchTx(c) : w = WorkOf(c, t)
    BY DEF Works
  <2>2. Serial(c, t)
    <3> SUFFICES ASSUME ~Serial(c, t) PROVE FALSE
      OBVIOUS
    <3>1. LaneOf(c, t) \in Nat
      BY LaneIs
    <3> QED
      BY <1>2, <2>1, <3>1 DEF WorkOf
  <2>3. w[1] = t /\ t \in Nat
    BY <2>1, <2>2, BatchIs DEF WorkOf, StepOf
  <2>4. ASSUME NEW x \in Works(c), Between(x[1], w[1], w[1]) PROVE x[2] = -1
    <3>1. PICK u \in BatchTx(c) : x = WorkOf(c, u)
      BY DEF Works
    <3>2. x[1] = t /\ u \in Nat
      BY <2>3, <2>4, WorkStep, BatchIs DEF Between
    <3>3. Serial(c, u)
      <4> SUFFICES ASSUME ~Serial(c, u) PROVE FALSE
        OBVIOUS
      <4>1. StepOf(c, u) = t
        BY <3>1, <3>2 DEF WorkOf
      <4>2. SameEpoch(c, u, t)
        BY <4>1, StepIs DEF Epoch
      <4>3. Between(t, u, t)
        BY <2>3, <3>2 DEF Between
      <4> QED
        BY <2>2, <4>2, <4>3 DEF SameEpoch
    <3> QED
      BY <3>1, <3>3 DEF WorkOf, LaneOf
  <2> QED
    BY <1>2, <2>4 DEF Unit
<1> QED
  BY <1>1, <1>2

\* Two units are the same or have nothing in common.
LEMMA UnitsApart ==
  ASSUME NEW c, IsBatch(c), NEW w \in Works(c), NEW x \in Works(c),
         NEW v \in Unit(c, w), v \in Unit(c, x)
  PROVE  Unit(c, w) = Unit(c, x)
<1>1. \A y \in Works(c) : y[1] \in Nat
  BY WorkStep
<1>2. v \in Works(c)
  BY UnitIs
<1>3. CASE w[2] # -1 \/ x[2] # -1
  BY <1>3 DEF Unit
<1>4. CASE w[2] = -1 /\ x[2] = -1
  <2>1. /\ \A z \in Works(c) : Between(z[1], v[1], w[1]) => z[2] = -1
        /\ \A z \in Works(c) : Between(z[1], v[1], x[1]) => z[2] = -1
    BY <1>4 DEF Unit
  <2>2. \A y, z \in Works(c) :
          /\ Between(z[1], y[1], x[1]) => \/ Between(z[1], y[1], w[1]) \/ Between(z[1], v[1], w[1])
                                          \/ Between(z[1], v[1], x[1])
          /\ Between(z[1], y[1], w[1]) => \/ Between(z[1], y[1], x[1]) \/ Between(z[1], v[1], w[1])
                                          \/ Between(z[1], v[1], x[1])
    <3> SUFFICES ASSUME NEW y \in Works(c), NEW z \in Works(c)
                 PROVE  /\ Between(z[1], y[1], x[1]) => \/ Between(z[1], y[1], w[1]) \/ Between(z[1], v[1], w[1])
                                                        \/ Between(z[1], v[1], x[1])
                        /\ Between(z[1], y[1], w[1]) => \/ Between(z[1], y[1], x[1]) \/ Between(z[1], v[1], w[1])
                                                        \/ Between(z[1], v[1], x[1])
      OBVIOUS
    <3>1. PICK a, b, d, e, f : a = z[1] /\ b = y[1] /\ d = x[1] /\ e = w[1] /\ f = v[1]
      OBVIOUS
    <3>2. a \in Nat /\ b \in Nat /\ d \in Nat /\ e \in Nat /\ f \in Nat
      BY <1>1, <1>2, <3>1
    <3>3. /\ Between(a, b, d) => Between(a, b, e) \/ Between(a, f, e) \/ Between(a, f, d)
          /\ Between(a, b, e) => Between(a, b, d) \/ Between(a, f, e) \/ Between(a, f, d)
      BY <3>2 DEF Between
    <3> QED
      BY <3>1, <3>3
  <2>3. \A y \in Works(c) : (\A z \in Works(c) : Between(z[1], y[1], w[1]) => z[2] = -1)
                             <=> (\A z \in Works(c) : Between(z[1], y[1], x[1]) => z[2] = -1)
    BY <2>1, <2>2
  <2> QED
    BY <1>4, <2>3 DEF Unit
<1> QED
  BY <1>3, <1>4

Lanes == LaneCounts \cup {1}

\* No claim is active, progress has the generation in effect, and that is older
\* than any claim which could start here.
Rest ==
  /\ claim = NoClaim /\ gen = pgen
  /\ gen[1] \in Nat /\ (gen[2] = 0 \/ gen[1] < progress)

\* The batch fits what the target has.
Ready(c) ==
  /\ Rest /\ cgen = gen /\ c.start = progress /\ c.start < c.end /\ c.sgen = gen /\ c.lanes \in Lanes

Held(c) == Holds(c) /\ c # NoClaim /\ c.lanes \in Lanes

\* The one transaction that the applier waits for, before its COMMIT and after.
WaitOK(x) ==
  \/ x.kind = "serial" /\ x.st \in {"open", "commit"} /\ Ready(x.c)
  \/ x.kind = "ensure" /\ x.st = "commit" /\ Ready(x.c)
  \/ x.kind = "serial" /\ x.st = "done" /\ Rest /\ cgen = gen /\ progress = x.c.end
  \/ x.kind = "ensure" /\ x.st = "done" /\ Held(x.c) /\ receipts = {}
  \/ x.kind = "final" /\ x.st = "commit" /\ Held(x.c) /\ Works(x.c) \subseteq receipts
  \/ x.kind = "final" /\ x.st = "done" /\ Rest /\ gen = Fence(x.c) /\ progress = x.c.end

\* A work transaction of the claim: none of its rows has a receipt before its
\* COMMIT, all of them after.
SessionOK(x) ==
  /\ x.kind = "work" /\ x.c = cclaim /\ x.st \in {"open", "commit", "done"}
  /\ x.ws \cap cdone = {}
  /\ x.st = "done" => x.ws \subseteq receipts
  /\ x.st # "done" => x.ws \cap receipts = {}

ExecOK ==
  /\ Held(cclaim) /\ cdone \subseteq receipts
  /\ \A x \in srv : SessionOK(x)
  /\ \A x, y \in srv : x.ws = y.ws => x = y
  /\ \A v \in receipts : v \in cdone \/ \E x \in srv : x.st = "done" /\ v \in x.ws

Connecting == {"down", "identity", "generation", "resolve", "progress", "loop"}

Calm ==
  /\ cpc \in Connecting \cup {"serial", "ensure", "wait", "exec"}
  /\ clanes \in Lanes
  /\ \A x \in srv : x.who = cid
  /\ cpc \in Connecting => Rest /\ srv = {}
  /\ cpc \in {"identity", "generation", "progress", "loop"} => cgen = gen
  /\ cpc = "generation" => cpg = pgen
  /\ cpc = "loop" => cprog = progress
  /\ cpc \in {"serial", "ensure"} => Ready(cclaim) /\ srv = {}
  /\ cpc = "wait" => \E x \in srv : srv = {x} /\ x.c = cclaim /\ WaitOK(x)
  /\ cpc = "exec" => ExecOK

Calmly == Calm' /\ (cpc' = "down" => cpc = "down")

LEMMA ConnectCalm ==
  ASSUME ReplayInv, Calm, Connect PROVE Calmly
<1>1. UNCHANGED <<gen, progress, pgen, claim, receipts, done>>
  BY DEF Connect, ConnectIdentity, ConnectProgressGeneration, ConnectValidate, ConnectResolve,
         ConnectProgress, tgtVars
<1>2. cpc \in Connecting \ {"loop"} /\ Rest /\ srv = {} /\ ~Active
  BY DEF Connect, ConnectIdentity, ConnectProgressGeneration, ConnectValidate, ConnectResolve,
         ConnectProgress, Connecting, Calm, Rest, Active
<1>3. Rest'
  BY <1>1, <1>2 DEF Rest
<1>4. CASE ConnectIdentity \/ ConnectProgressGeneration \/ ConnectResolve
  BY <1>1, <1>2, <1>3, <1>4 DEF ConnectIdentity, ConnectProgressGeneration, ConnectResolve, Calm,
                                Connecting, Calmly, Lanes
<1>5. CASE ConnectValidate
  <2>1. cpg = cgen /\ cpc = "generation"
    BY <1>2, <1>5 DEF ConnectValidate, Calm, Rest
  <2>2. cpc' = "resolve" /\ UNCHANGED <<srv, cid, cgen, cpg, cprog, clanes, cclaim, cdone>>
    BY <1>2, <1>5, <2>1 DEF ConnectValidate
  <2> QED
    BY <1>1, <1>2, <1>3, <2>1, <2>2 DEF Calm, Connecting, Calmly, Lanes
<1>6. CASE ConnectProgress
  BY <1>1, <1>2, <1>3, <1>6 DEF ConnectProgress, Calm, Connecting, Calmly, Lanes
<1> QED
  BY <1>4, <1>5, <1>6 DEF Connect

LEMMA CollectCalm ==
  ASSUME ReplayInv, Calm, Collect PROVE Calmly
<1>1. PICK e \in Tx : /\ FreshBatch([start |-> cprog, end |-> e, lanes |-> clanes, sgen |-> cgen])
                      /\ cclaim' = [start |-> cprog, end |-> e, lanes |-> clanes, sgen |-> cgen]
  BY DEF Collect
<1>2. /\ cclaim'.start = cprog /\ cclaim'.end = e /\ cclaim'.lanes = clanes /\ cclaim'.sgen = cgen
      /\ e > cprog
  BY <1>1 DEF FreshBatch
<1>3. /\ UNCHANGED <<gen, progress, pgen, claim, receipts, done, srv, cid, cgen, cpg, cprog, clanes>>
      /\ cpc = "loop" /\ cpc' \in {"serial", "ensure"}
  BY DEF Collect, tgtVars
<1>4. Rest /\ srv = {} /\ cgen = gen /\ cprog = progress /\ clanes \in Lanes
  BY <1>3 DEF Calm, Connecting
<1>5. cprog \in Nat /\ e \in Nat
  BY PlanAssumption DEF ReplayInv, ClaimInv, LSN, Tx
<1>6. Ready(cclaim)'
  BY <1>2, <1>3, <1>4, <1>5 DEF Ready, Rest
<1> QED
  BY <1>3, <1>4, <1>6 DEF Calm, Calmly, Connecting

LEMMA SendCalm ==
  ASSUME ReplayInv, Calm, SerialBegin \/ EnsureSend PROVE Calmly
<1>1. PICK kind, st : /\ Open(kind, cclaim, {}, st)
                      /\ <<kind, st>> \in {<<"serial", "open">>, <<"ensure", "commit">>}
  BY DEF SerialBegin, EnsureSend
<1>2. PICK x : x = [kind |-> kind, c |-> cclaim, ws |-> {}, st |-> st, who |-> cid]
  OBVIOUS
<1>3. x.kind = kind /\ x.c = cclaim /\ x.st = st /\ x.who = cid
  BY <1>2
<1>4. /\ UNCHANGED <<gen, progress, pgen, claim, receipts, done, cid, cgen, cpg, cprog, clanes, cclaim>>
      /\ cpc \in {"serial", "ensure"} /\ cpc' = "wait"
  BY DEF SerialBegin, EnsureSend, tgtVars
<1>5. Ready(cclaim) /\ srv = {}
  BY <1>4 DEF Calm
<1>6. srv' = {x}
  BY <1>1, <1>2, <1>5 DEF Open
<1>7. WaitOK(x)'
  BY <1>1, <1>3, <1>4, <1>5 DEF WaitOK, Ready, Rest
<1> QED
  BY <1>3, <1>4, <1>6, <1>7 DEF Calm, Calmly, Connecting

\* A transaction of the applier while nothing is lost.
LEMMA SessionIs ==
  ASSUME ReplayInv, Calm, cpc = "exec", NEW x \in srv
  PROVE  /\ SessionOK(x) /\ Mine(x) /\ IsBatch(cclaim) /\ cclaim.lanes \in LaneCounts \cup {1}
         /\ \E w \in Works(cclaim) : x.ws = Unit(cclaim, w) /\ w \in x.ws
<1>1. /\ SessionOK(x) /\ x.who = cid /\ cclaim.lanes \in LaneCounts \cup {1}
  BY DEF Calm, ExecOK, Held, Lanes
<1>2. Mine(x)
  BY <1>1 DEF Mine
<1>3. IsBatch(cclaim)
  BY BatchOKIs DEF ReplayInv, ClaimInv
<1>4. PICK w \in Works(cclaim) : x.ws = Unit(cclaim, w)
  BY <1>1 DEF SessionOK, ReplayInv, ServerInv, ServerOK, WorkOK
<1>5. w \in Unit(cclaim, w)
  BY <1>1, <1>3, UnitSelf
<1> QED
  BY <1>1, <1>2, <1>3, <1>4, <1>5

\* Two of its work transactions have no row in common.
LEMMA SessionsApart ==
  ASSUME ReplayInv, Calm, cpc = "exec", NEW x \in srv, NEW y \in srv, x # y PROVE x.ws \cap y.ws = {}
<1>1. /\ IsBatch(cclaim)
      /\ \E w \in Works(cclaim) : x.ws = Unit(cclaim, w)
      /\ \E w \in Works(cclaim) : y.ws = Unit(cclaim, w)
  BY SessionIs
<1>2. x.ws # y.ws
  BY DEF Calm, ExecOK
<1> QED
  BY <1>1, <1>2, UnitsApart

LEMMA FinalizeCalm ==
  ASSUME ReplayInv, Calm, FinalizeSend PROVE Calmly
<1>1. PICK x : x = [kind |-> "final", c |-> cclaim, ws |-> {}, st |-> "commit", who |-> cid]
  OBVIOUS
<1>2. x.kind = "final" /\ x.c = cclaim /\ x.st = "commit" /\ x.who = cid
  BY <1>1
<1>3. /\ UNCHANGED <<gen, progress, pgen, claim, receipts, done, cid, cgen, cpg, cprog, clanes, cclaim, cdone>>
      /\ cpc = "exec" /\ cpc' = "wait" /\ cdone = Works(cclaim)
  BY DEF FinalizeSend, tgtVars
<1>4. Held(cclaim) /\ Works(cclaim) \subseteq receipts
  BY <1>3 DEF Calm, ExecOK
<1>5. srv = {}
  <2> SUFFICES ASSUME NEW y \in srv PROVE FALSE
    OBVIOUS
  <2>1. SessionOK(y) /\ \E w \in Works(cclaim) : w \in y.ws
    BY <1>3, SessionIs
  <2> QED
    BY <1>3, <2>1 DEF SessionOK
<1>6. srv' = {x}
  BY <1>1, <1>5 DEF FinalizeSend, Open
<1>7. WaitOK(x)'
  BY <1>2, <1>3, <1>4 DEF WaitOK, Held, Holds
<1> QED
  BY <1>2, <1>3, <1>6, <1>7 DEF Calm, Calmly, Connecting

\* Work that is begun has no receipt, and its checks pass.
LEMMA BeginWorkCalm ==
  ASSUME ReplayInv, Calm, NEW w \in Works(cclaim), BeginWork(Unit(cclaim, w)) PROVE Calmly
<1>1. PICK unit : unit = Unit(cclaim, w)
  OBVIOUS
<1>2. /\ cpc = "exec" /\ unit \cap cdone = {} /\ PriorIn(cclaim, unit, cdone)
      /\ \A x \in srv : Mine(x) => x.ws # unit
  BY <1>1 DEF BeginWork
<1>3. ExecOK
  BY <1>2 DEF Calm
<1>4. IsBatch(cclaim) /\ cclaim.lanes \in LaneCounts \cup {1}
  BY <1>3, BatchOKIs DEF ReplayInv, ClaimInv, ExecOK, Held, Lanes
<1>5. unit \cap receipts = {}
  <2> SUFFICES ASSUME NEW v \in unit, v \in receipts PROVE FALSE
    OBVIOUS
  <2>1. PICK x \in srv : v \in x.ws
    BY <1>2, <1>3 DEF ExecOK
  <2>2. Mine(x) /\ \E u \in Works(cclaim) : x.ws = Unit(cclaim, u)
    BY <1>2, SessionIs
  <2> QED
    BY <1>1, <1>2, <1>4, <2>1, <2>2, UnitsApart
<1>6. Holds(cclaim) /\ PriorIn(cclaim, unit, receipts) /\ cdone \subseteq receipts
  BY <1>2, <1>3 DEF ExecOK, Held, PriorIn
<1>7. ~(unit \subseteq receipts)
  <2>1. w \in unit
    BY <1>1, <1>4, UnitSelf
  <2> QED
    BY <1>5, <2>1
<1>8. Open("work", cclaim, unit, "open") /\ UNCHANGED cliVars /\ UNCHANGED tgtVars
  BY <1>1, <1>5, <1>6, <1>7 DEF BeginWork
<1>9. UNCHANGED <<gen, progress, pgen, claim, receipts, done, cpc, cid, cgen, cpg, cprog, clanes, cclaim, cdone>>
  BY <1>8 DEF cliVars, tgtVars
<1>10. PICK x : x = [kind |-> "work", c |-> cclaim, ws |-> unit, st |-> "open", who |-> cid]
  OBVIOUS
<1>11. x.kind = "work" /\ x.c = cclaim /\ x.ws = unit /\ x.st = "open" /\ x.who = cid
  BY <1>10
<1>12. srv' = srv \cup {x}
  BY <1>8, <1>10 DEF Open
<1>13. \A y \in srv : y.ws # unit /\ y.who = cid
  BY <1>2, SessionIs DEF Calm
<1>14. ExecOK'
  <2>1. \A y \in srv' : SessionOK(y)'
    BY <1>2, <1>3, <1>5, <1>9, <1>11, <1>12 DEF ExecOK, SessionOK
  <2>2. \A y, z \in srv' : y.ws = z.ws => y = z
    BY <1>3, <1>11, <1>12, <1>13 DEF ExecOK
  <2>3. Held(cclaim)' /\ (cdone \subseteq receipts)'
    BY <1>3, <1>9 DEF ExecOK, Held, Holds
  <2>4. \A v \in receipts' : v \in cdone' \/ \E y \in srv' : y.st = "done" /\ v \in y.ws
    BY <1>3, <1>9, <1>12 DEF ExecOK
  <2> QED
    BY <2>1, <2>2, <2>3, <2>4 DEF ExecOK
<1> QED
  BY <1>2, <1>9, <1>11, <1>12, <1>13, <1>14 DEF Calm, Calmly, Connecting

\* A transaction in flight is one that the applier waits for or a session's.
LEMMA FlightIs ==
  ASSUME Calm, NEW x \in srv
  PROVE  /\ Mine(x) /\ cpc \in {"wait", "exec"}
         /\ cpc = "wait" => srv = {x} /\ x.c = cclaim /\ WaitOK(x)
         /\ cpc = "exec" => ExecOK /\ SessionOK(x)
<1>1. cpc \in {"wait", "exec"} /\ x.who = cid
  BY DEF Calm
<1> QED
  BY <1>1 DEF Calm, Mine, ExecOK

\* The state of one transaction changes.
LEMMA RestatedIs ==
  ASSUME ReplayInv, NEW x \in srv, NEW st, NEW y, y = [x EXCEPT !.st = st]
  PROVE  y.kind = x.kind /\ y.c = x.c /\ y.ws = x.ws /\ y.who = x.who /\ y.st = st
<1>1. DOMAIN x = {"kind", "c", "ws", "st", "who"}
  BY DEF ReplayInv, ServerInv, ServerOK
<1> QED
  BY <1>1

\* A session goes on: its receipts are written by its COMMIT.
LEMMA SessionCalm ==
  ASSUME ReplayInv, Calm, cpc = "exec", NEW x \in srv, NEW st \in {"commit", "done"}, x.st # "done",
         srv' = (srv \ {x}) \cup {[x EXCEPT !.st = st]},
         UNCHANGED <<gen, claim, cliVars>>,
         receipts' = IF st = "done" THEN receipts \cup x.ws ELSE receipts
  PROVE  Calmly
<1>1. PICK y : y = [x EXCEPT !.st = st]
  OBVIOUS
<1>2. y.kind = x.kind /\ y.c = x.c /\ y.ws = x.ws /\ y.who = x.who /\ y.st = st
  BY <1>1, RestatedIs
<1>3. srv' = (srv \ {x}) \cup {y}
  BY <1>1
<1>4. UNCHANGED <<gen, claim, cpc, cid, cgen, cpg, cprog, clanes, cclaim, cdone>>
  BY DEF cliVars
<1>5. ExecOK /\ SessionOK(x)
  BY FlightIs
<1>6. ASSUME NEW z \in srv, z # x PROVE SessionOK(z)'
  <2>1. SessionOK(z) /\ z.ws \cap x.ws = {}
    BY <1>6, SessionsApart, FlightIs
  <2> QED
    BY <1>4, <2>1 DEF SessionOK
<1>7. SessionOK(y)'
  BY <1>2, <1>4, <1>5 DEF SessionOK
<1>8. ASSUME NEW v \in receipts' PROVE v \in cdone' \/ \E z \in srv' : z.st = "done" /\ v \in z.ws
  <2>1. CASE v \in receipts
    BY <1>3, <1>4, <1>5, <2>1 DEF ExecOK
  <2>2. CASE v \notin receipts
    BY <1>2, <1>3, <1>8, <2>2
  <2> QED
    BY <2>1, <2>2
<1>9. ExecOK'
  <2>1. \A z \in srv' : SessionOK(z)'
    BY <1>3, <1>6, <1>7
  <2>2. \A a, b \in srv' : a.ws = b.ws => a = b
    BY <1>2, <1>3, <1>5 DEF ExecOK
  <2>3. Held(cclaim)' /\ (cdone \subseteq receipts)'
    BY <1>4, <1>5 DEF ExecOK, Held, Holds
  <2> QED
    BY <1>8, <2>1, <2>2, <2>3 DEF ExecOK
<1>10. \A z \in srv' : z.who = cid'
  BY <1>2, <1>3, <1>4 DEF Calm
<1> QED
  BY <1>4, <1>9, <1>10 DEF Calm, Calmly, Connecting

\* The transaction waited for goes on.
LEMMA WaitCalm ==
  ASSUME ReplayInv, Calm, cpc = "wait", NEW x \in srv, NEW st,
         srv' = (srv \ {x}) \cup {[x EXCEPT !.st = st]}, UNCHANGED cliVars,
         ASSUME NEW y, y.kind = x.kind, y.c = x.c, y.st = st PROVE WaitOK(y)'
  PROVE  Calmly
<1>1. PICK y : y = [x EXCEPT !.st = st]
  OBVIOUS
<1>2. y.kind = x.kind /\ y.c = x.c /\ y.ws = x.ws /\ y.who = x.who /\ y.st = st
  BY <1>1, RestatedIs
<1>3. srv = {x} /\ x.c = cclaim
  BY FlightIs
<1>4. srv' = {y}
  BY <1>1, <1>3
<1>5. UNCHANGED <<cpc, cid, cgen, cpg, cprog, clanes, cclaim, cdone>>
  BY DEF cliVars
<1>6. WaitOK(y)'
  BY <1>2
<1> QED
  BY <1>2, <1>3, <1>4, <1>5, <1>6 DEF Calm, Calmly, Connecting

LEMMA SendCommitCalm ==
  ASSUME ReplayInv, Calm, NEW x \in srv, SendCommit(x) PROVE Calmly
<1>1. /\ x.st = "open" /\ srv' = (srv \ {x}) \cup {[x EXCEPT !.st = "commit"]}
      /\ UNCHANGED cliVars /\ UNCHANGED <<gen, progress, pgen, claim, receipts, done>>
  BY DEF SendCommit, tgtVars
<1>2. CASE cpc = "exec"
  BY <1>1, <1>2, SessionCalm
<1>3. CASE cpc = "wait"
  <2>1. x.kind = "serial" /\ Ready(x.c)
    BY <1>1, <1>3, FlightIs DEF WaitOK
  <2>2. Ready(x.c)'
    BY <1>1, <2>1 DEF Ready, Rest, cliVars
  <2>3. ASSUME NEW y, y.kind = x.kind, y.c = x.c, y.st = "commit" PROVE WaitOK(y)'
    BY <2>1, <2>2, <2>3 DEF WaitOK, Ready
  <2> QED
    BY <1>1, <1>3, <2>3, WaitCalm
<1> QED
  BY <1>2, <1>3, FlightIs

\* Every COMMIT finds what it expects.
LEMMA CommitCalm ==
  ASSUME ReplayInv, Calm, NEW x \in srv, Commit(x) PROVE Calmly
<1>1. /\ x.st = "commit" /\ UNCHANGED cliVars
      /\ CommitSerial(x) \/ CommitEnsure(x) \/ CommitWork(x) \/ CommitFinal(x)
  BY DEF Commit
<1>2. \A st : Answer(x, st) => srv' = (srv \ {x}) \cup {[x EXCEPT !.st = st]}
  BY FlightIs DEF Answer
<1>3. PICK c : c = x.c
  OBVIOUS
<1>4. /\ c.start \in Nat /\ c.end \in Nat /\ progress \in Nat
  BY <1>3, CarriedBatch
<1>5. CASE cpc = "exec"
  <2>1. x.kind = "work" /\ Holds(x.c) /\ ~(x.ws \subseteq receipts)
    <3>1. SessionOK(x) /\ ExecOK /\ \E w \in Works(cclaim) : w \in x.ws
      BY <1>5, SessionIs, FlightIs
    <3> QED
      BY <1>1, <3>1 DEF SessionOK, ExecOK, Held
  <2>2. receipts' = receipts \cup x.ws /\ Answer(x, "done") /\ UNCHANGED <<gen, claim>>
    BY <1>1, <2>1 DEF CommitSerial, CommitEnsure, CommitWork, CommitFinal
  <2> QED
    BY <1>1, <1>2, <1>5, <2>2, SessionCalm
<1>6. CASE cpc = "wait" /\ x.kind = "serial"
  <2>1. Ready(c)
    BY <1>1, <1>3, <1>6, FlightIs DEF WaitOK
  <2>2. progress' = c.end /\ Answer(x, "done") /\ UNCHANGED <<gen, pgen, claim>>
    BY <1>1, <1>3, <1>6, <2>1 DEF CommitSerial, CommitEnsure, CommitWork, CommitFinal, Ready, Rest
  <2>3. Rest' /\ cgen' = gen'
    BY <1>1, <1>4, <2>1, <2>2 DEF Ready, Rest, cliVars
  <2>4. ASSUME NEW y, y.kind = x.kind, y.c = x.c, y.st = "done" PROVE WaitOK(y)'
    BY <1>3, <1>6, <2>2, <2>3, <2>4 DEF WaitOK
  <2> QED
    BY <1>1, <1>2, <1>6, <2>2, <2>4, WaitCalm
<1>7. CASE cpc = "wait" /\ x.kind = "ensure"
  <2>1. Ready(c)
    BY <1>1, <1>3, <1>7, FlightIs DEF WaitOK
  <2>2. c # NoClaim /\ ~Active
    BY <1>4, <2>1 DEF Ready, Rest, Active, NoClaim
  <2>3. gen # Fence(c)
    <3>1. Fence(c)[1] = c.start /\ Fence(c)[2] = c.end
      BY DEF Fence
    <3> QED
      BY <1>4, <2>1, <3>1 DEF Ready, Rest
  <2>4. claim' = c /\ gen' = Fence(c) /\ receipts' = {} /\ Answer(x, "done")
    BY <1>1, <1>3, <1>7, <2>1, <2>2, <2>3
       DEF CommitSerial, CommitEnsure, CommitWork, CommitFinal, Ready, Rest, Holds, Active
  <2>5. Held(c)'
    BY <2>1, <2>2, <2>4 DEF Held, Holds, Ready
  <2>6. ASSUME NEW y, y.kind = x.kind, y.c = x.c, y.st = "done" PROVE WaitOK(y)'
    BY <1>3, <1>7, <2>4, <2>5, <2>6 DEF WaitOK, Held, Holds
  <2> QED
    BY <1>1, <1>2, <1>7, <2>4, <2>6, WaitCalm
<1>8. CASE cpc = "wait" /\ x.kind = "final"
  <2>1. Held(c) /\ Works(c) \subseteq receipts
    BY <1>1, <1>3, <1>8, FlightIs DEF WaitOK
  <2>2. progress = c.start /\ pgen = c.sgen /\ gen = Fence(c)
    BY <2>1 DEF Held, Holds, ReplayInv, ClaimInv, Active
  <2>3. progress' = c.end /\ pgen' = Fence(c) /\ claim' = NoClaim /\ Answer(x, "done") /\ gen' = gen
    BY <1>1, <1>3, <1>8, <2>1, <2>2 DEF CommitSerial, CommitEnsure, CommitWork, CommitFinal, Held
  <2>4. c.start < c.end
    BY <1>3, <2>1, CarriedBatch DEF BatchOK, Held
  <2>5. Rest'
    <3>1. Fence(c)[1] = c.start
      BY DEF Fence
    <3> QED
      BY <1>4, <2>2, <2>3, <2>4, <3>1 DEF Rest
  <2>6. ASSUME NEW y, y.kind = x.kind, y.c = x.c, y.st = "done" PROVE WaitOK(y)'
    BY <1>3, <1>8, <2>2, <2>3, <2>5, <2>6 DEF WaitOK
  <2> QED
    BY <1>1, <1>2, <1>8, <2>3, <2>6, WaitCalm
<1> QED
  BY <1>5, <1>6, <1>7, <1>8, FlightIs DEF WaitOK

\* The applier hears of it.
LEMMA AcknowledgeCalm ==
  ASSUME ReplayInv, Calm, NEW x \in srv, Acknowledge(x) PROVE Calmly
<1>1. /\ x.st = "done" /\ srv' = srv \ {x} /\ UNCHANGED <<cid, cpg, clanes>>
      /\ UNCHANGED <<gen, progress, pgen, claim, receipts, done>>
  BY DEF Acknowledge, tgtVars
<1>2. CASE cpc = "exec"
  <2>1. ExecOK /\ SessionOK(x)
    BY <1>2, FlightIs
  <2>2. cdone' = cdone \cup x.ws /\ UNCHANGED <<cpc, cgen, cprog, cclaim>>
    BY <2>1 DEF Acknowledge, SessionOK
  <2>3. ASSUME NEW y \in srv' PROVE SessionOK(y)'
    <3>1. SessionOK(y) /\ y.ws \cap x.ws = {}
      BY <1>1, <1>2, <2>3, SessionsApart, FlightIs
    <3> QED
      BY <1>1, <2>2, <3>1 DEF SessionOK
  <2>4. Held(cclaim)' /\ (cdone \subseteq receipts)'
    BY <1>1, <2>1, <2>2 DEF ExecOK, SessionOK, Held, Holds
  <2>5. \A v \in receipts' : v \in cdone' \/ \E y \in srv' : y.st = "done" /\ v \in y.ws
    BY <1>1, <2>1, <2>2 DEF ExecOK
  <2>6. ExecOK'
    BY <1>1, <2>1, <2>3, <2>4, <2>5 DEF ExecOK
  <2> QED
    BY <1>1, <1>2, <2>2, <2>6 DEF Calm, Calmly, Connecting
<1>3. CASE cpc = "wait" /\ x.kind = "ensure"
  <2>1. cpc' = "exec" /\ cdone' = {} /\ UNCHANGED <<cgen, cprog, cclaim>>
    BY <1>3 DEF Acknowledge
  <2>2. srv = {x} /\ x.c = cclaim /\ Held(x.c) /\ receipts = {}
    BY <1>1, <1>3, FlightIs DEF WaitOK
  <2>3. ExecOK'
    BY <1>1, <2>1, <2>2 DEF ExecOK, Held, Holds
  <2> QED
    BY <1>1, <2>1, <2>2, <2>3 DEF Calm, Calmly, Connecting
<1>4. CASE cpc = "wait" /\ x.kind \in {"serial", "final"}
  <2>1. srv = {x} /\ Rest /\ progress = x.c.end
    BY <1>1, <1>4, FlightIs DEF WaitOK
  <2>2. cpc' = "loop" /\ cprog' = x.c.end
    BY <1>4 DEF Acknowledge
  <2>3. cgen' = gen
    <3>1. CASE x.kind = "serial"
      BY <1>1, <1>4, <3>1, FlightIs DEF WaitOK, Acknowledge
    <3>2. CASE x.kind = "final"
      BY <1>1, <1>4, <3>2, FlightIs DEF WaitOK, Acknowledge
    <3> QED
      BY <1>4, <3>1, <3>2
  <2>4. Rest'
    BY <1>1, <2>1 DEF Rest
  <2> QED
    BY <1>1, <2>1, <2>2, <2>3, <2>4 DEF Calm, Calmly, Connecting
<1> QED
  BY <1>2, <1>3, <1>4, FlightIs DEF WaitOK

LEMMA StutterCalm ==
  ASSUME Calm, UNCHANGED vars PROVE Calmly
<1>1. UNCHANGED <<gen, progress, pgen, claim, receipts, srv, cpc, cid, cgen, cpg, cprog, clanes, cclaim, cdone>>
  BY DEF vars, tgtVars, cliVars
<1>2. (Rest <=> Rest') /\ (\A c : Held(c) <=> Held(c)')
  BY <1>1 DEF Rest, Held, Holds
<1>3. \A c : Ready(c) <=> Ready(c)'
  BY <1>1, <1>2 DEF Ready
<1>4. \A x : WaitOK(x) <=> WaitOK(x)'
  BY <1>1, <1>2, <1>3 DEF WaitOK
<1>5. ExecOK <=> ExecOK'
  BY <1>1, <1>2 DEF ExecOK, SessionOK
<1> QED
  BY <1>1, <1>2, <1>3, <1>4, <1>5 DEF Calm, Calmly

\* While nothing is lost, all is as the applier last heard.
LEMMA CalmNext ==
  ASSUME ReplayInv, losses \in Nat, losses = 0 => Calm, [Next]_vars
  PROVE  /\ losses' \in Nat /\ (losses' = 0 => Calm')
         /\ cpc # "down" /\ cpc' = "down" => losses' > 0
<1>1. CASE Lose
  BY <1>1 DEF Lose
<1>2. CASE ~Lose
  <2>1. losses' = losses
    BY <1>2 DEF Next, Connect, ConnectIdentity, ConnectProgressGeneration, ConnectValidate, ConnectResolve,
                ConnectProgress, Apply, Units, Resume, Collect, SerialBegin, EnsureSend, FinalizeSend, BeginWork,
                SendCommit, Acknowledge, Fail, Poll, Server, Commit, ServerCleanup, OrphanAbort, vars
  <2>2. ASSUME Calm PROVE Calmly
    <3>1. CASE Connect
      BY <2>2, <3>1, ConnectCalm
    <3>2. CASE Apply
      <4>1. ~Resume
        BY <2>2 DEF Resume, Calm, Connecting, Rest, Active
      <4>2. \A x \in srv : ~Fail(x)
        BY <2>2, FlightIs DEF Fail, WaitOK, SessionOK
      <4> QED
        BY <2>2, <3>2, <4>1, <4>2, CollectCalm, SendCalm, FinalizeCalm, BeginWorkCalm, SendCommitCalm,
           AcknowledgeCalm DEF Apply, Units
    <3>3. CASE Server
      BY <2>2, <3>3, CommitCalm DEF Server
    <3>4. CASE ServerCleanup
      BY <2>2, <3>4, FlightIs DEF ServerCleanup, OrphanAbort
    <3>5. CASE Poll \/ UNCHANGED vars
      BY <2>2, <3>5, StutterCalm DEF Poll
    <3> QED
      BY <1>2, <3>1, <3>2, <3>3, <3>4, <3>5 DEF Next
  <2> QED
    BY <2>1, <2>2 DEF Calmly
<1> QED
  BY <1>1, <1>2

\* A run that is left alone never stops on its own checks: as long as no
\* connection is lost and no process killed, every identity, fence, manifest
\* and progress check of the applier and of its target transactions passes.
THEOREM UndisturbedNeverFailsAlways == Spec => UndisturbedNeverFails
<1> DEFINE Undisturbed == losses \in Nat /\ (losses = 0 => Calm)
<1>1. Init => Undisturbed
  BY DEF Init, Calm, Connecting, Rest, BaseGeneration, Lanes
<1>2. ReplayInv /\ Undisturbed /\ [Next]_vars
        => Undisturbed' /\ [cpc # "down" /\ cpc' = "down" => losses' > 0]_vars
  BY CalmNext
<1> HIDE DEF Undisturbed
<1> QED
  BY <1>1, <1>2, ReplayInvariant, PTL DEF Spec, UndisturbedNeverFails
=============================================================================
