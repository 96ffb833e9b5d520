------------------------ MODULE Verification_proofs ------------------------
(***************************************************************************)
(* What a verification run may say, for every set of tables, windows and   *)
(* recorded rows, every number of workers and of writes beside it: latency *)
(* is not reported as divergence, a stalled row has a cause, and neither   *)
(* verdict is wrong.                                                       *)
(***************************************************************************)
EXTENDS Verification, FiniteSetTheorems, WellFoundedInduction, TLAPS

Faults == {"none", "missing", "stale", "garbled"}
Rechecking == {"source", "mark", "wait", "target"}

ReportType == [row : Rows, by : {"heap", "recorded"}, from : Nat, to : Nat]
ResultType == [complete : BOOLEAN, converged : BOOLEAN, cut : BOOLEAN, candidates : Nat,
               unresolved : SUBSET ReportType, pending : SUBSET Rows, base : Nat, tbase : Nat]
BusyType == [pc : {"sample", "probe", "recorded", "versions"} \cup Rechecking, t : Tables,
             window : Nat, at : Nat, mark : Nat, late : BOOLEAN, keys : SUBSET Rows,
             candidates : SUBSET Rows, unresolved : SUBSET ReportType]
RecheckType == [pc : {"before", "mark", "wait", "target", "after"}, t : Tables, r : ResultType,
                before : Nat, mark : Nat, to : Nat]
QueueType == Seq([t : Tables, r : ResultType])

TypeInv ==
  /\ wal \in Seq([row : Rows, val : Values \cup {Absent}])
  /\ applied \in 0..Len(wal)
  /\ fault \in [Rows -> Faults]
  /\ next \in Nat \ {0}
  /\ wk \in [1..W -> BusyType \cup {Idle, Exit}]
  /\ rk \in RecheckType \cup {Idle}
  /\ deferred \in QueueType
  /\ res \in [Tables -> ResultType]

\* A row that a verification must not miss: the target has it wrong, and the
\* source has had it all the time.
Sick(q) == q \in Rows \ Ignored /\ fault[q] # "none" /\ Steady(q)

\* What a report says is true, and stays so.
ReportOK(u) ==
  /\ u.row \notin Ignored /\ u.from <= Len(wal) /\ u.to <= Len(wal)
  /\ Hooks /\ fault[u.row] = "none" =>
       \/ Written(u.row, u.from, u.to)
       \/ u.by = "recorded" /\ SourceRow(u.row, u.from).val = Absent

\* A worker has found every sick row of the windows it has compared, and the
\* ones that it rechecks stay with it until they are reported.
WorkerOK(s) ==
  /\ s.t \notin Keyless /\ s.at <= Len(wal) /\ s.mark <= Len(wal)
  /\ s.pc = "wait" => s.at <= s.mark
  /\ s.pc = "target" /\ Hooks => s.at <= applied
  /\ \A u \in s.unresolved : ReportOK(u)
  /\ s.pc \in {"sample", "probe"} =>
       /\ s.window \in 1..Len(Windows[s.t])
       /\ \A i \in 1..(s.window - 1) : \A q \in Windows[s.t][i] : Sick(q) => q \in s.candidates
  /\ s.pc \notin {"sample", "probe"} => \A q \in Heap(s.t) : Sick(q) => q \in s.candidates
  /\ s.pc \in Rechecking =>
       \A q \in Heap(s.t) : Sick(q) /\ q \in CandidateKeys(s.candidates) => q \in s.keys
  /\ s.pc \in {"recorded", "versions"} =>
       \A q \in Heap(s.t) : Sick(q) /\ q \in CandidateKeys(s.candidates) => s.unresolved # {}

\* A result that waits for its recheck has every sick row that was recorded.
ResultOK(t, r) ==
  /\ t \notin Keyless /\ r.base <= Len(wal) /\ r.tbase <= applied
  /\ \A u \in r.unresolved : ReportOK(u)
  /\ r.pending \cap Ignored = {}
  /\ \A q \in Heap(t) : Sick(q) => r.candidates > Threshold \/ r.unresolved # {}
  /\ \A q \in Recorded[t] : Sick(q) => q \in r.pending

RecheckOK(k) ==
  /\ ResultOK(k.t, k.r)
  /\ k.before <= Len(wal) /\ k.mark <= Len(wal) /\ k.to <= applied
  /\ k.pc = "wait" => k.before <= k.mark
  /\ k.pc = "target" /\ Hooks => k.before <= applied
  /\ k.pc = "after" => k.r.tbase <= k.to /\ (Hooks => k.before <= k.to)

\* A result of the run: a complete one is converged or names a row, and if it is
\* converged no sick row was missed but for the reasons it may be.
FinalOK(t, r) ==
  /\ r.tbase <= Len(wal)
  /\ \A u \in r.unresolved : ReportOK(u)
  /\ r.complete => r.pending = {} /\ (r.converged \/ r.unresolved # {})
  /\ r.complete /\ r.converged /\ t \notin Keyless =>
       /\ \A q \in Heap(t) : Sick(q) => r.candidates > Threshold
       /\ \A q \in Recorded[t] : Sick(q) =>
            fault[q] = "garbled" /\ Written(q, r.tbase, Len(wal))

PoolInv ==
  /\ \A w \in 1..W : Busy(w) => WorkerOK(wk[w])
  /\ \A i \in 1..Len(deferred) : ResultOK(deferred[i].t, deferred[i].r)
  /\ rk # Idle => RecheckOK(rk)
  /\ \A t \in Tables : FinalOK(t, res[t])

\* A verdict is given on complete results, when nobody works any more.
OutcomeInv ==
  /\ \A w \in 1..W : wk[w].pc = "exit" => failed
  /\ outcome \in {"converged", "diverged"} =>
       /\ next > T /\ rk = Idle /\ deferred = <<>> /\ \A w \in 1..W : ~Busy(w)
       /\ \A t \in Tables : res[t].complete
       /\ (outcome = "converged") <=> \A t \in Tables : res[t].converged

VerifyInv == TypeInv /\ PoolInv /\ OutcomeInv

-----------------------------------------------------------------------------
(***************************************************************************)
(* Rows at a position.                                                     *)
(***************************************************************************)

\* A set of naturals has a least element, and a bounded one a greatest.
LEMMA LeastOf ==
  ASSUME NEW S, S \subseteq Nat, S # {} PROVE \E x \in S : \A y \in S : x <= y
<1>1. PICK x \in S : \A y \in S : ~(<<y, x>> \in OpToRel(<, Nat))
  BY NatLessThanWellFounded, WFMin, Zenon
<1>2. \A y \in S : <<y, x>> \in OpToRel(<, Nat) <=> y < x
  BY DEF OpToRel
<1>3. \A y \in S : ~(y < x)
  BY <1>1, <1>2, Zenon
<1> QED
  BY <1>3

LEMMA MaxIs ==
  ASSUME NEW p \in Nat, NEW S, S \subseteq 0..p, S # {}
  PROVE  Max(S) \in S /\ \A y \in S : y <= Max(S)
<1> DEFINE D == {p - x : x \in S}
           Top(x) == x \in S /\ \A y \in S : x >= y
<1>1. D \subseteq Nat /\ D # {}
  <2>1. \A x \in S : p - x \in Nat
    OBVIOUS
  <2>2. PICK x : x \in S
    OBVIOUS
  <2>3. p - x \in D
    BY <2>2
  <2> QED
    BY <2>1, <2>3
<1>2. PICK d \in D : \A e \in D : d <= e
  BY <1>1, LeastOf
<1>3. PICK x \in S : d = p - x
  BY <1>2
<1>4. \A y \in S : p - x <= p - y
  BY <1>2, <1>3
<1>5. Top(x)
  BY <1>4
<1>6. Max(S) = CHOOSE y : Top(y)
  BY DEF Max
<1> HIDE DEF Top
<1>7. Top(CHOOSE y : Top(y))
  BY <1>5
<1>8. Top(Max(S))
  BY <1>6, <1>7
<1> QED
  BY <1>8 DEF Top

\* The last change of a row up to a position is a change of that row.
LEMMA LastWriteIs ==
  ASSUME NEW q, NEW p \in Nat
  PROVE  LastWrite(q, p) \in 0..p /\ (LastWrite(q, p) > 0 => wal[LastWrite(q, p)].row = q)
<1> DEFINE S == {0} \cup {i \in 1..p : wal[i].row = q}
<1>1. S \subseteq 0..p /\ S # {}
  OBVIOUS
<1>2. Max(S) \in S
  BY <1>1, MaxIs
<1>3. LastWrite(q, p) = Max(S)
  BY DEF LastWrite
<1> HIDE DEF S
<1>4. LastWrite(q, p) \in S
  BY <1>2, <1>3
<1> QED
  BY <1>4 DEF S

\* Between two positions a row that is not written is the same.
LEMMA SourceRowSame ==
  ASSUME NEW q, NEW p \in Nat, NEW n \in Nat, p <= n, ~Written(q, p, n)
  PROVE  SourceRow(q, n) = SourceRow(q, p)
<1>1. \A i \in 1..n : wal[i].row = q => i \in 1..p
  BY DEF Written
<1>2. {i \in 1..n : wal[i].row = q} = {i \in 1..p : wal[i].row = q}
  BY <1>1
<1>3. LastWrite(q, n) = LastWrite(q, p)
  BY <1>2 DEF LastWrite
<1> QED
  BY <1>3 DEF SourceRow

LEMMA InSeq == ASSUME NEW S, NEW s \in Seq(S), NEW i \in 1..Len(s) PROVE s[i] \in S
OBVIOUS

\* A row that the source has had all the time has contents at every position.
LEMMA SteadyRow ==
  ASSUME TypeInv, NEW q \in Rows, Steady(q), NEW p \in 0..Len(wal)
  PROVE  SourceRow(q, p).val \in Values
<1>1. PICK i : i = LastWrite(q, p)
  OBVIOUS
<1>2. i \in 0..p /\ (i > 0 => wal[i].row = q)
  BY <1>1, LastWriteIs
<1>3. CASE i > 0
  <2>1. i \in 1..Len(wal) /\ wal[i].row = q
    BY <1>2, <1>3 DEF TypeInv
  <2>2. wal[i] \in [row : Rows, val : Values \cup {Absent}]
    BY <2>1, InSeq DEF TypeInv
  <2>3. wal[i].val \in Values
    BY <2>1, <2>2 DEF Steady, Values, Absent
  <2> QED
    BY <1>1, <1>3, <2>3 DEF SourceRow
<1>4. CASE i = 0
  BY <1>1, <1>4 DEF SourceRow, Steady, Values
<1> QED
  BY <1>2, <1>3, <1>4

\* A sick row differs whenever it is compared.
LEMMA SickRow ==
  ASSUME TypeInv, NEW q, Sick(q), NEW p \in 0..Len(wal), NEW a \in 0..Len(wal)
  PROVE  /\ SourceRow(q, p).val \in Values
         /\ TargetRow(q, a).val = IF fault[q] = "missing" THEN Absent ELSE Wrong
         /\ TargetRow(q, a).val # SourceRow(q, p).val
<1>1. SourceRow(q, p).val \in Values /\ SourceRow(q, a).val \in Values
  BY SteadyRow DEF Sick
<1>2. fault[q] \in {"missing", "stale", "garbled"}
  BY DEF Sick, TypeInv, Faults
<1>3. TargetRow(q, a).val = IF fault[q] = "missing" THEN Absent ELSE Wrong
  <2>1. CASE fault[q] = "missing" \/ fault[q] = "stale"
    BY <2>1 DEF TargetRow
  <2>2. CASE fault[q] = "garbled"
    <3>1. TargetRow(q, a) = [SourceRow(q, a) EXCEPT !.val = Wrong]
      BY <1>1, <2>2 DEF TargetRow, Values, Absent
    <3>2. [SourceRow(q, a) EXCEPT !.val = Wrong].val = Wrong
      BY DEF SourceRow
    <3> QED
      BY <2>2, <3>1, <3>2
  <2> QED
    BY <1>2, <2>1, <2>2
<1> QED
  BY <1>1, <1>3 DEF Values, Absent, Wrong

LEMMA SickIsFound ==
  ASSUME TypeInv, NEW q, Sick(q), NEW p \in 0..Len(wal), NEW a \in 0..Len(wal), NEW S, q \in S
  PROVE  q \in ExcludeDiffs(CompareRows(S, p, a))
<1>1. SourceRow(q, p).val \in Values /\ TargetRow(q, a).val # SourceRow(q, p).val
  BY SickRow
<1> QED
  BY <1>1 DEF CompareRows, ExcludeDiffs, Sick, Values, Absent

-----------------------------------------------------------------------------
(***************************************************************************)
(* The source and the target only go forward, and what is known of a row   *)
(* stays true.                                                             *)
(***************************************************************************)
Grows ==
  /\ wal \in Seq([row : Rows, val : Values \cup {Absent}])
  /\ wal' \in Seq([row : Rows, val : Values \cup {Absent}])
  /\ Len(wal) <= Len(wal') /\ \A i \in 1..Len(wal) : wal'[i] = wal[i]
  /\ applied \in Nat /\ applied' \in Nat /\ applied <= applied'
  /\ UNCHANGED <<fault, phase>>

LEMMA GrowsRow ==
  ASSUME Grows, NEW q, NEW p \in Nat, p <= Len(wal) PROVE SourceRow(q, p)' = SourceRow(q, p)
<1>1. \A i \in 1..p : wal'[i] = wal[i]
  BY DEF Grows
<1>2. {i \in 1..p : wal'[i].row = q} = {i \in 1..p : wal[i].row = q}
  BY <1>1
<1>3. LastWrite(q, p)' = LastWrite(q, p)
  BY <1>2 DEF LastWrite
<1>4. PICK n : n = LastWrite(q, p)
  OBVIOUS
<1>5. n \in 0..p
  BY <1>4, LastWriteIs
<1>6. n > 0 => wal'[n] = wal[n]
  BY <1>1, <1>5
<1> QED
  BY <1>3, <1>4, <1>6 DEF SourceRow

LEMMA GrowsWritten ==
  ASSUME Grows, NEW q, NEW p \in Nat, NEW n \in Nat, n <= Len(wal), Written(q, p, n)
  PROVE  Written(q, p, n)' /\ Written(q, p, Len(wal))'
<1>1. PICK i \in (p + 1)..n : wal[i].row = q
  BY DEF Written
<1>2. i \in 1..Len(wal) /\ i <= Len(wal')
  BY DEF Grows
<1>3. wal'[i].row = q
  BY <1>1, <1>2 DEF Grows
<1>4. i \in (p + 1)..Len(wal')
  BY <1>2 DEF Grows
<1> QED
  BY <1>3, <1>4 DEF Written

LEMMA GrowsSick ==
  ASSUME Grows, NEW q, Sick(q)' PROVE Sick(q)
<1>1. Steady(q)
  <2>1. \A i \in 1..Len(wal) : i \in 1..Len(wal') /\ wal'[i] = wal[i]
    BY DEF Grows
  <2> QED
    BY <2>1 DEF Sick, Steady
<1> QED
  BY <1>1 DEF Sick, Grows

LEMMA GrowsReport ==
  ASSUME Grows, NEW u \in ReportType, ReportOK(u) PROVE ReportOK(u)'
<1>1. PICK q, p, n : q = u.row /\ p = u.from /\ n = u.to
  OBVIOUS
<1>2. p \in Nat /\ n \in Nat /\ p <= Len(wal) /\ n <= Len(wal)
  BY <1>1 DEF ReportOK, ReportType
<1>3. SourceRow(q, p)' = SourceRow(q, p)
  BY <1>2, GrowsRow
<1>4. Written(q, p, n) => Written(q, p, n)'
  BY <1>2, GrowsWritten
<1>5. Len(wal) <= Len(wal') /\ UNCHANGED <<fault, phase>> /\ Len(wal) \in Nat /\ Len(wal') \in Nat
  BY DEF Grows
<1>6. Written(u.row, u.from, u.to) => Written(u.row, u.from, u.to)'
  BY <1>1, <1>4
<1>7. SourceRow(u.row, u.from)' = SourceRow(u.row, u.from)
  BY <1>1, <1>3
<1> QED
  BY <1>1, <1>2, <1>5, <1>6, <1>7 DEF ReportOK, Hooks

LEMMA GrowsFacts ==
  ASSUME Grows
  PROVE  /\ Len(wal) \in Nat /\ Len(wal') \in Nat /\ Len(wal) <= Len(wal')
         /\ applied \in Nat /\ applied' \in Nat /\ applied <= applied'
         /\ UNCHANGED <<fault, phase>> /\ (Hooks' <=> Hooks)
         /\ \A q : Sick(q)' => Sick(q)
<1>1. \A q : Sick(q)' => Sick(q)
  BY GrowsSick
<1> QED
  BY <1>1 DEF Grows, Hooks

LEMMA GrowsWorker ==
  ASSUME Grows, NEW s \in BusyType, WorkerOK(s) PROVE WorkerOK(s)'
<1>1. \A u \in s.unresolved : ReportOK(u)'
  BY GrowsReport DEF WorkerOK, BusyType
<1>2. /\ s.t \notin Keyless /\ s.at <= Len(wal') /\ s.mark <= Len(wal')
      /\ s.pc = "wait" => s.at <= s.mark
      /\ s.pc = "target" /\ Hooks' => s.at <= applied'
  <2>1. s.at \in Nat /\ s.mark \in Nat
    BY DEF BusyType
  <2> QED
    BY <2>1, GrowsFacts DEF WorkerOK
<1>3. /\ s.pc \in {"sample", "probe"} =>
           /\ s.window \in 1..Len(Windows[s.t])
           /\ \A i \in 1..(s.window - 1) : \A q \in Windows[s.t][i] : Sick(q)' => q \in s.candidates
      /\ s.pc \notin {"sample", "probe"} => \A q \in Heap(s.t) : Sick(q)' => q \in s.candidates
      /\ s.pc \in Rechecking =>
           \A q \in Heap(s.t) : Sick(q)' /\ q \in CandidateKeys(s.candidates) => q \in s.keys
      /\ s.pc \in {"recorded", "versions"} =>
           \A q \in Heap(s.t) : Sick(q)' /\ q \in CandidateKeys(s.candidates) => s.unresolved # {}
  BY GrowsFacts DEF WorkerOK
<1> QED
  BY <1>1, <1>2, <1>3 DEF WorkerOK

LEMMA GrowsResult ==
  ASSUME Grows, NEW t, NEW r \in ResultType, ResultOK(t, r) PROVE ResultOK(t, r)'
<1>1. \A u \in r.unresolved : ReportOK(u)'
  BY GrowsReport DEF ResultOK, ResultType
<1>2. r.base <= Len(wal') /\ r.tbase <= applied'
  <2>1. r.base \in Nat /\ r.tbase \in Nat
    BY DEF ResultType
  <2> QED
    BY <2>1, GrowsFacts DEF ResultOK
<1> QED
  BY <1>1, <1>2, GrowsFacts DEF ResultOK

LEMMA GrowsRecheck ==
  ASSUME Grows, NEW k \in RecheckType, RecheckOK(k) PROVE RecheckOK(k)'
<1>1. ResultOK(k.t, k.r)'
  BY GrowsResult DEF RecheckOK, RecheckType
<1>2. k.before \in Nat /\ k.mark \in Nat /\ k.to \in Nat /\ k.r.tbase \in Nat
  BY DEF RecheckType, ResultType
<1>3. /\ k.before <= Len(wal') /\ k.mark <= Len(wal') /\ k.to <= applied'
      /\ k.pc = "wait" => k.before <= k.mark
      /\ k.pc = "target" /\ Hooks' => k.before <= applied'
      /\ k.pc = "after" => k.r.tbase <= k.to /\ (Hooks' => k.before <= k.to)
  BY <1>2, GrowsFacts DEF RecheckOK
<1> QED
  BY <1>1, <1>3 DEF RecheckOK

LEMMA GrowsFinal ==
  ASSUME Grows, NEW t, NEW r \in ResultType, FinalOK(t, r) PROVE FinalOK(t, r)'
<1>1. \A u \in r.unresolved : ReportOK(u)'
  BY GrowsReport DEF FinalOK, ResultType
<1>2. r.tbase \in Nat /\ r.tbase <= Len(wal)
  BY DEF ResultType, FinalOK
<1>3. \A q : Written(q, r.tbase, Len(wal)) => Written(q, r.tbase, Len(wal))'
  <2>1. PICK b, n : b = r.tbase /\ n = Len(wal)
    OBVIOUS
  <2>2. \A q : Written(q, b, n) => Written(q, b, Len(wal))'
    BY <1>2, <2>1, GrowsFacts, GrowsWritten
  <2>3. \A q : Written(q, b, Len(wal)) => Written(q, b, Len(wal))'
    BY <2>1, <2>2
  <2> QED
    BY <2>1, <2>3
<1>4. r.tbase <= Len(wal')
  BY <1>2, GrowsFacts
<1> QED
  BY <1>1, <1>3, <1>4, GrowsFacts DEF FinalOK

\* Idle and Exit are no busy worker's state.
LEMMA Kinds ==
  /\ \A s \in BusyType : s.pc \notin {"idle", "exit"}
  /\ \A k \in RecheckType : k.pc # "idle"
  /\ Idle.pc = "idle" /\ Exit.pc = "exit"
BY DEF BusyType, RecheckType, Rechecking, Idle, Exit

LEMMA BusyIs ==
  ASSUME TypeInv, NEW w \in 1..W, Busy(w) PROVE wk[w] \in BusyType
BY Kinds DEF TypeInv, Busy

\* All that is known of the pool stays true when the pool stands still.
LEMMA GrowsPool ==
  ASSUME VerifyInv, Grows
  PROVE  /\ \A w \in 1..W : Busy(w) => WorkerOK(wk[w]) /\ (\A s : s = wk[w] => WorkerOK(s)')
         /\ \A i \in 1..Len(deferred) : \A t, r : t = deferred[i].t /\ r = deferred[i].r => ResultOK(t, r)'
         /\ rk # Idle => \A k : k = rk => RecheckOK(k)'
         /\ \A t \in Tables : \A r : r = res[t] => FinalOK(t, r)'
<1>1. ASSUME NEW w \in 1..W, Busy(w), NEW s, s = wk[w] PROVE WorkerOK(s)'
  <2>1. s \in BusyType /\ WorkerOK(s)
    BY <1>1, BusyIs DEF VerifyInv, PoolInv
  <2> QED
    BY <2>1, GrowsWorker
<1>2. ASSUME NEW i \in 1..Len(deferred), NEW t, NEW r, t = deferred[i].t, r = deferred[i].r
      PROVE  ResultOK(t, r)'
  <2>1. deferred[i] \in [t : Tables, r : ResultType]
    BY InSeq DEF VerifyInv, TypeInv, QueueType
  <2>2. r \in ResultType /\ ResultOK(t, r)
    BY <1>2, <2>1 DEF VerifyInv, PoolInv
  <2> QED
    BY <2>2, GrowsResult
<1>3. ASSUME rk # Idle, NEW k, k = rk PROVE RecheckOK(k)'
  <2>1. k \in RecheckType /\ RecheckOK(k)
    BY <1>3 DEF VerifyInv, TypeInv, PoolInv
  <2> QED
    BY <2>1, GrowsRecheck
<1>4. ASSUME NEW t \in Tables, NEW r, r = res[t] PROVE FinalOK(t, r)'
  <2>1. r \in ResultType /\ FinalOK(t, r)
    BY <1>4 DEF VerifyInv, TypeInv, PoolInv
  <2> QED
    BY <2>1, GrowsFinal
<1> QED
  BY <1>1, <1>2, <1>3, <1>4 DEF VerifyInv, PoolInv

LEMMA PoolKeeps ==
  ASSUME VerifyInv, Grows,
         \A w \in 1..W : wk'[w] = wk[w] \/ ~Busy(w)' \/ WorkerOK(wk[w])',
         \A i \in 1..Len(deferred') : \/ \E j \in 1..Len(deferred) : deferred'[i] = deferred[j]
                                      \/ ResultOK(deferred[i].t, deferred[i].r)',
         rk' = rk \/ rk' = Idle \/ RecheckOK(rk)',
         \A t \in Tables : res'[t] = res[t] \/ FinalOK(t, res[t])'
  PROVE  PoolInv'
<1>1. ASSUME NEW w \in 1..W, Busy(w)' PROVE WorkerOK(wk[w])'
  <2> SUFFICES ASSUME wk'[w] = wk[w] PROVE WorkerOK(wk[w])'
    BY <1>1
  <2>1. PICK s : s = wk[w]
    OBVIOUS
  <2>2. Busy(w)
    BY <1>1 DEF Busy
  <2>3. WorkerOK(s)'
    BY <2>1, <2>2, GrowsPool
  <2> QED
    BY <2>1, <2>3
<1>2. ASSUME NEW i \in 1..Len(deferred') PROVE ResultOK(deferred[i].t, deferred[i].r)'
  <2> SUFFICES ASSUME NEW j \in 1..Len(deferred), deferred'[i] = deferred[j]
               PROVE  ResultOK(deferred[i].t, deferred[i].r)'
    OBVIOUS
  <2>1. PICK t, r : t = deferred[j].t /\ r = deferred[j].r
    OBVIOUS
  <2>2. ResultOK(t, r)'
    BY <2>1, GrowsPool
  <2> QED
    BY <2>1, <2>2
<1>3. ASSUME rk' # Idle PROVE RecheckOK(rk)'
  <2> SUFFICES ASSUME rk' = rk PROVE RecheckOK(rk)'
    BY <1>3
  <2>1. PICK k : k = rk
    OBVIOUS
  <2>2. RecheckOK(k)'
    BY <1>3, <2>1, GrowsPool
  <2> QED
    BY <2>1, <2>2
<1>4. ASSUME NEW t \in Tables PROVE FinalOK(t, res[t])'
  <2> SUFFICES ASSUME res'[t] = res[t] PROVE FinalOK(t, res[t])'
    OBVIOUS
  <2>1. PICK r : r = res[t]
    OBVIOUS
  <2>2. FinalOK(t, r)'
    BY <2>1, GrowsPool
  <2> QED
    BY <2>1, <2>2
<1> QED
  BY <1>1, <1>2, <1>3, <1>4 DEF PoolInv, Idle

\* Once there is a verdict nobody works.
LEMMA OutcomeKeeps ==
  ASSUME VerifyInv, outcome' = outcome,
         \/ outcome = "running" \/ next <= T \/ rk # Idle \/ deferred # <<>>
         \/ \E w \in 1..W : Busy(w),
         failed => failed', \A w \in 1..W : wk'[w] = wk[w] \/ (wk'[w].pc = "exit" => failed')
  PROVE  OutcomeInv'
<1>1. outcome \notin {"converged", "diverged"}
  BY VerificationAssumption DEF VerifyInv, TypeInv, OutcomeInv
<1> QED
  BY <1>1 DEF VerifyInv, OutcomeInv

-----------------------------------------------------------------------------
(***************************************************************************)
(* The source and the target.                                              *)
(***************************************************************************)
LEMMA StillGrows ==
  ASSUME TypeInv, UNCHANGED <<wal, fault, applied, phase>> PROVE Grows
BY DEF TypeInv, Grows

LEMMA WriteGrows ==
  ASSUME TypeInv, NEW q \in Hot, Write(q)
  PROVE  Grows /\ applied' \in 0..Len(wal')
<1>1. PICK v \in Values \cup {Absent} : wal' = Append(wal, [row |-> q, val |-> v])
  BY DEF Write
<1>2. q \in Rows
  BY VerificationAssumption
<1>3. PICK e : e = [row |-> q, val |-> v]
  OBVIOUS
<1>4. e \in [row : Rows, val : Values \cup {Absent}]
  BY <1>2, <1>3
<1> DEFINE S == [row : Rows, val : Values \cup {Absent}]
<1>5. wal \in Seq(S) /\ e \in S /\ wal' = Append(wal, e)
  BY <1>1, <1>3, <1>4 DEF TypeInv
<1> HIDE DEF S
<1>6. wal' \in Seq(S) /\ Len(wal') = Len(wal) + 1 /\ \A i \in 1..Len(wal) : wal'[i] = wal[i]
  BY <1>5
<1>7. UNCHANGED <<fault, phase, applied>> /\ applied \in 0..Len(wal) /\ Len(wal) \in Nat
  BY <1>5 DEF Write, TypeInv
<1> QED
  BY <1>5, <1>6, <1>7 DEF Grows, S

LEMMA WorldKeeps ==
  ASSUME VerifyInv, (\E q \in Hot : Write(q)) \/ Apply \/ ApplierStops PROVE VerifyInv'
<1>1. Grows /\ applied' \in 0..Len(wal')
  <2>1. CASE \E q \in Hot : Write(q)
    BY <2>1, WriteGrows DEF VerifyInv
  <2>2. CASE Apply \/ ApplierStops
    BY <2>2 DEF VerifyInv, TypeInv, Grows, Apply, ApplierStops
  <2> QED
    BY <2>1, <2>2
<1>2. UNCHANGED <<next, wk, rk, deferred, res, failed, stopped, outcome>> /\ outcome = "running"
  BY DEF Write, Apply, ApplierStops, pool, Open
<1>3. PoolInv'
  BY <1>1, <1>2, PoolKeeps
<1>4. OutcomeInv'
  BY <1>2, OutcomeKeeps
<1>5. TypeInv'
  BY <1>1, <1>2 DEF VerifyInv, TypeInv, Grows
<1> QED
  BY <1>3, <1>4, <1>5 DEF VerifyInv

-----------------------------------------------------------------------------
(***************************************************************************)
(* A worker's check of the heap sample.                                    *)
(***************************************************************************)
LEMMA WorkerKeeps ==
  ASSUME VerifyInv, NEW w \in 1..W, Busy(w), NEW n \in BusyType, WorkerOK(n), Goes(w, n), Works
  PROVE  VerifyInv'
<1>1. /\ UNCHANGED <<wal, fault, applied, phase, next, rk, deferred, res, failed, stopped, outcome>>
      /\ wk' = [wk EXCEPT ![w] = n]
  BY DEF Goes, Works, world
<1>2. wk' \in [1..W -> BusyType \cup {Idle, Exit}] /\ wk'[w] = n /\ \A v \in 1..W : v # w => wk'[v] = wk[v]
  BY <1>1 DEF VerifyInv, TypeInv
<1>3. Grows
  BY <1>1, StillGrows DEF VerifyInv
<1>4. WorkerOK(n)'
  BY <1>3, GrowsWorker
<1>5. \A v \in 1..W : wk'[v] = wk[v] \/ ~Busy(v)' \/ WorkerOK(wk[v])'
  BY <1>2, <1>4
<1>6. PoolInv'
  BY <1>1, <1>3, <1>5, PoolKeeps
<1>7. n.pc # "exit"
  BY Kinds
<1>8. OutcomeInv'
  BY <1>1, <1>2, <1>7, OutcomeKeeps
<1>9. TypeInv'
  BY <1>1, <1>2 DEF VerifyInv, TypeInv
<1> QED
  BY <1>6, <1>8, <1>9 DEF VerifyInv

\* A worker at some step.
LEMMA AtStep ==
  ASSUME VerifyInv, NEW w \in 1..W, NEW s, s = wk[w], s.pc \notin {"idle", "exit"}
  PROVE  Busy(w) /\ s \in BusyType /\ WorkerOK(s)
BY BusyIs DEF Busy, VerifyInv, PoolInv

LEMMA Positions ==
  ASSUME TypeInv PROVE Len(wal) \in Nat /\ applied \in 0..Len(wal) /\ applied \in Nat
BY DEF TypeInv

LEMMA TableRows ==
  ASSUME NEW t \in Tables
  PROVE  /\ Recorded[t] \subseteq Rows /\ Heap(t) \subseteq Rows
         /\ Windows[t] \in Seq(SUBSET Rows)
         /\ \A q \in Heap(t) : \E i \in 1..Len(Windows[t]) : q \in Windows[t][i]
<1>1. Recorded[t] \subseteq Rows /\ Heap(t) \subseteq Rows
  BY DEF Rows
<1>2. Windows[t] \in Seq(SUBSET Rows)
  BY VerificationAssumption
<1>3. DOMAIN Windows[t] = 1..Len(Windows[t])
  BY <1>2
<1>4. \A q \in Heap(t) : \E i \in 1..Len(Windows[t]) : q \in Windows[t][i]
  BY <1>3 DEF Heap
<1> QED
  BY <1>1, <1>2, <1>4

LEMMA SampleKeeps ==
  ASSUME VerifyInv, NEW w \in 1..W, SampleWindow(w) \/ RecheckSource(w) \/ Mark(w) \/ WaitApplied(w)
  PROVE  VerifyInv'
<1>1. PICK s : s = wk[w]
  OBVIOUS
<1>2. s.pc \in {"sample", "source", "mark", "wait"}
  BY <1>1 DEF SampleWindow, RecheckSource, Mark, WaitApplied, At
<1>3. Busy(w) /\ s \in BusyType /\ WorkerOK(s)
  BY <1>1, <1>2, AtStep
<1>4. Len(wal) \in Nat /\ applied \in 0..Len(wal)
  BY Positions DEF VerifyInv
<1>5. CASE SampleWindow(w)
  <2>1. PICK n : n = [s EXCEPT !.pc = "probe", !.at = Len(wal)]
    OBVIOUS
  <2>2. /\ n \in BusyType /\ n.pc = "probe" /\ n.at = Len(wal) /\ n.t = s.t /\ n.mark = s.mark
        /\ n.window = s.window /\ n.candidates = s.candidates /\ n.unresolved = s.unresolved
    BY <1>3, <1>4, <2>1 DEF BusyType, Rechecking
  <2>3. WorkerOK(n)
    BY <1>1, <1>3, <1>4, <1>5, <2>2 DEF WorkerOK, SampleWindow, At, Rechecking
  <2> QED
    BY <1>1, <1>3, <1>5, <2>1, <2>2, <2>3, WorkerKeeps DEF SampleWindow
<1>6. CASE RecheckSource(w)
  <2>1. PICK n : n = [s EXCEPT !.pc = IF Hooks THEN "mark" ELSE "target", !.at = Len(wal)]
    OBVIOUS
  <2>2. /\ n \in BusyType /\ n.pc = (IF Hooks THEN "mark" ELSE "target") /\ n.at = Len(wal)
        /\ n.t = s.t /\ n.mark = s.mark /\ n.keys = s.keys
        /\ n.window = s.window /\ n.candidates = s.candidates /\ n.unresolved = s.unresolved
    BY <1>3, <1>4, <2>1 DEF BusyType, Rechecking
  <2>3. WorkerOK(n)
    BY <1>1, <1>3, <1>4, <1>6, <2>2 DEF WorkerOK, RecheckSource, At, Rechecking
  <2> QED
    BY <1>1, <1>3, <1>6, <2>1, <2>2, <2>3, WorkerKeeps DEF RecheckSource
<1>7. CASE Mark(w)
  <2>1. PICK n : n = [s EXCEPT !.pc = "wait", !.mark = Boundary]
    OBVIOUS
  <2>2. /\ n \in BusyType /\ n.pc = "wait" /\ n.at = s.at /\ n.mark = Len(wal)
        /\ n.t = s.t /\ n.keys = s.keys
        /\ n.window = s.window /\ n.candidates = s.candidates /\ n.unresolved = s.unresolved
    BY <1>3, <1>4, <2>1 DEF BusyType, Rechecking, Boundary
  <2>3. WorkerOK(n)
    BY <1>1, <1>3, <1>4, <1>7, <2>2 DEF WorkerOK, Mark, At, Rechecking
  <2> QED
    BY <1>1, <1>3, <1>7, <2>1, <2>2, <2>3, WorkerKeeps DEF Mark
<1>8. CASE WaitApplied(w)
  <2>1. PICK n : n = [s EXCEPT !.pc = "target", !.mark = 0]
    OBVIOUS
  <2>2. /\ n \in BusyType /\ n.pc = "target" /\ n.at = s.at /\ n.mark = 0
        /\ n.t = s.t /\ n.keys = s.keys
        /\ n.window = s.window /\ n.candidates = s.candidates /\ n.unresolved = s.unresolved
    BY <1>3, <1>4, <2>1 DEF BusyType, Rechecking
  <2>3. s.pc = "wait" /\ s.mark <= applied /\ s.at <= s.mark /\ s.at \in Nat /\ s.mark \in Nat
    BY <1>1, <1>3, <1>8 DEF WaitApplied, At, Passed, WorkerOK, BusyType
  <2>4. s.at <= applied
    BY <1>4, <2>3
  <2>5. WorkerOK(n)
    BY <1>3, <1>4, <2>2, <2>3, <2>4 DEF WorkerOK, Rechecking
  <2> QED
    BY <1>1, <1>3, <1>8, <2>1, <2>2, <2>5, WorkerKeeps DEF WaitApplied
<1> QED
  BY <1>5, <1>6, <1>7, <1>8

LEMMA DeadlineKeeps ==
  ASSUME VerifyInv, NEW w \in 1..W, Deadline(w) PROVE VerifyInv'
<1>1. PICK s : s = wk[w]
  OBVIOUS
<1>2. PICK n : n = [s EXCEPT !.late = TRUE]
  OBVIOUS
<1>3. Busy(w) /\ s \in BusyType /\ WorkerOK(s)
  BY <1>1, AtStep DEF Deadline, At
<1>4. /\ n \in BusyType /\ n.pc = s.pc /\ n.at = s.at /\ n.mark = s.mark /\ n.t = s.t /\ n.keys = s.keys
      /\ n.window = s.window /\ n.candidates = s.candidates /\ n.unresolved = s.unresolved
  BY <1>2, <1>3 DEF BusyType
<1>5. WorkerOK(n)
  BY <1>3, <1>4 DEF WorkerOK
<1> QED
  BY <1>1, <1>2, <1>3, <1>4, <1>5, WorkerKeeps DEF Deadline

LEMMA ProbeKeeps ==
  ASSUME VerifyInv, NEW w \in 1..W, Probe(w) PROVE VerifyInv'
<1>1. PICK s : s = wk[w]
  OBVIOUS
<1>2. s.pc = "probe"
  BY <1>1 DEF Probe, At
<1>3. Busy(w) /\ s \in BusyType /\ WorkerOK(s)
  BY <1>1, <1>2, AtStep
<1>4. Len(wal) \in Nat /\ applied \in 0..Len(wal) /\ s.at \in 0..Len(wal)
  BY <1>3, Positions DEF VerifyInv, WorkerOK, BusyType
<1>5. s.t \in Tables /\ s.window \in 1..Len(Windows[s.t]) /\ Windows[s.t] \in Seq(SUBSET Rows)
  BY <1>2, <1>3, TableRows DEF WorkerOK, BusyType
<1> DEFINE more == s.window < Len(Windows[s.t])
<1>6. PICK found : found = s.candidates \cup ExcludeDiffs(CompareRows(Windows[s.t][s.window], s.at, applied))
  OBVIOUS
<1>7. PICK n : n = [s EXCEPT !.candidates = found, !.at = 0, !.window = @ + 1,
                     !.pc = IF s.window < Len(Windows[s.t]) THEN "sample"
                            ELSE IF found = {} THEN "recorded" ELSE "source",
                     !.keys = IF s.window < Len(Windows[s.t]) THEN {} ELSE CandidateKeys(found)]
  OBVIOUS
<1>8. found \subseteq Rows /\ CandidateKeys(found) \subseteq Rows
  <2>1. Windows[s.t][s.window] \subseteq Rows
    BY <1>5, InSeq
  <2>2. s.candidates \subseteq Rows
    BY <1>3 DEF BusyType
  <2> QED
    BY <1>6, <2>1, <2>2 DEF ExcludeDiffs, CompareRows, CandidateKeys
<1>9. /\ n \in BusyType /\ n.at = 0 /\ n.mark = s.mark /\ n.t = s.t /\ n.window = s.window + 1
      /\ n.candidates = found /\ n.unresolved = s.unresolved
      /\ n.pc = IF more THEN "sample" ELSE IF found = {} THEN "recorded" ELSE "source"
      /\ n.keys = IF more THEN {} ELSE CandidateKeys(found)
  <2>1. PICK a, b : /\ a = IF more THEN "sample" ELSE IF found = {} THEN "recorded" ELSE "source"
                    /\ b = IF more THEN {} ELSE CandidateKeys(found)
    OBVIOUS
  <2>2. a \in {"sample", "recorded", "source"} /\ b \subseteq Rows /\ s.window + 1 \in Nat
    BY <1>3, <1>8, <2>1 DEF BusyType
  <2>3. n = [s EXCEPT !.candidates = found, !.at = 0, !.window = s.window + 1, !.pc = a, !.keys = b]
    BY <1>3, <1>7, <2>1 DEF BusyType
  <2> HIDE DEF more
  <2>4. n \in BusyType /\ n.pc = a /\ n.keys = b
    BY <1>3, <1>8, <2>2, <2>3 DEF BusyType, Rechecking
  <2> QED
    BY <1>3, <2>1, <2>3, <2>4 DEF BusyType
<1>10. \A i \in 1..s.window : \A q \in Windows[s.t][i] : Sick(q) => q \in found
  <2> SUFFICES ASSUME NEW i \in 1..s.window, NEW q \in Windows[s.t][i], Sick(q) PROVE q \in found
    OBVIOUS
  <2>1. CASE i = s.window
    BY <1>4, <1>6, <2>1, SickIsFound DEF VerifyInv
  <2>2. CASE i # s.window
    <3>1. i \in 1..(s.window - 1)
      BY <1>5, <2>2
    <3> QED
      BY <1>2, <1>3, <1>6, <3>1 DEF WorkerOK
  <2> QED
    BY <2>1, <2>2
<1>11. CASE more
  <2>1. s.window + 1 \in 1..Len(Windows[s.t]) /\ (s.window + 1) - 1 = s.window
    BY <1>5, <1>11
  <2>2. n.pc = "sample"
    BY <1>9, <1>11
  <2>3. WorkerOK(n)
    BY <1>3, <1>4, <1>9, <1>10, <2>1, <2>2 DEF WorkerOK, Rechecking
  <2> QED
    BY <1>1, <1>3, <1>6, <1>7, <1>9, <2>3, WorkerKeeps DEF Probe
<1>12. CASE ~more
  <2>1. \A q \in Heap(s.t) : Sick(q) => q \in found
    BY <1>5, <1>10, <1>12, TableRows
  <2>2. WorkerOK(n)
    BY <1>3, <1>4, <1>9, <1>12, <2>1 DEF WorkerOK, Rechecking
  <2> QED
    BY <1>1, <1>3, <1>6, <1>7, <1>9, <2>2, WorkerKeeps DEF Probe
<1> QED
  BY <1>11, <1>12

\* A row with the right contents differs only when it was written after the
\* source was read: the target was read no earlier.
LEMMA HeapReport ==
  ASSUME TypeInv, NEW S \in SUBSET Rows, NEW p \in 0..Len(wal), Hooks => p <= applied,
         NEW u \in Report(ExcludeDiffs(CompareRows(S, p, applied)), "heap", p, applied)
  PROVE  u \in ReportType /\ ReportOK(u)
<1>1. PICK q \in ExcludeDiffs(CompareRows(S, p, applied)) :
        u = [row |-> q, by |-> "heap", from |-> p, to |-> applied]
  BY DEF Report
<1>2. /\ q \in Rows /\ q \notin Ignored /\ applied \in 0..Len(wal) /\ Len(wal) \in Nat
      /\ SourceRow(q, p).val # TargetRow(q, applied).val
  BY <1>1, Positions DEF ExcludeDiffs, CompareRows
<1>3. u \in ReportType
  BY <1>1, <1>2 DEF ReportType
<1>4. Hooks /\ fault[q] = "none" => Written(q, p, applied)
  <2> SUFFICES ASSUME Hooks, fault[q] = "none", ~Written(q, p, applied) PROVE FALSE
    OBVIOUS
  <2>1. SourceRow(q, applied) = SourceRow(q, p)
    BY <1>2, SourceRowSame
  <2>2. TargetRow(q, applied) = SourceRow(q, applied)
    BY DEF TargetRow
  <2> QED
    BY <1>2, <2>1, <2>2
<1>5. u.row = q /\ u.from = p /\ u.to = applied /\ p <= Len(wal) /\ applied <= Len(wal)
  BY <1>1, <1>2
<1>6. ReportOK(u)
  BY <1>2, <1>4, <1>5 DEF ReportOK
<1> QED
  BY <1>3, <1>6

LEMMA RecheckTargetKeeps ==
  ASSUME VerifyInv, NEW w \in 1..W, RecheckTarget(w) PROVE VerifyInv'
<1>1. PICK s : s = wk[w]
  OBVIOUS
<1>2. s.pc = "target"
  BY <1>1 DEF RecheckTarget, At
<1>3. Busy(w) /\ s \in BusyType /\ WorkerOK(s)
  BY <1>1, <1>2, AtStep
<1>4. Len(wal) \in Nat /\ applied \in 0..Len(wal) /\ s.at \in 0..Len(wal) /\ (Hooks => s.at <= applied)
  BY <1>2, <1>3, Positions DEF VerifyInv, WorkerOK, BusyType
<1>5. PICK diffs : diffs = ExcludeDiffs(CompareRows(s.keys, s.at, applied))
  OBVIOUS
<1>6. diffs \subseteq Rows /\ s.keys \subseteq Rows
  BY <1>3, <1>5 DEF ExcludeDiffs, CompareRows, BusyType
<1>7. \A q \in Heap(s.t) : Sick(q) /\ q \in CandidateKeys(s.candidates) => q \in diffs
  BY <1>2, <1>3, <1>4, <1>5, SickIsFound DEF VerifyInv, WorkerOK, Rechecking
<1>8. CASE diffs = {} \/ OutOfTime(s)
  <2>1. PICK rep : rep = Report(diffs, "heap", s.at, applied)
    OBVIOUS
  <2>2. \A u \in rep : u \in ReportType /\ ReportOK(u)
    BY <1>4, <1>5, <1>6, <2>1, HeapReport DEF VerifyInv
  <2>3. diffs # {} => rep # {}
    BY <2>1 DEF Report
  <2>4. PICK n : n = [s EXCEPT !.pc = "recorded", !.keys = {}, !.at = 0, !.late = FALSE,
                               !.unresolved = rep]
    OBVIOUS
  <2>5. /\ n \in BusyType /\ n.pc = "recorded" /\ n.at = 0 /\ n.mark = s.mark /\ n.t = s.t
        /\ n.candidates = s.candidates /\ n.unresolved = rep
    BY <1>3, <2>2, <2>4 DEF BusyType, Rechecking
  <2>6. WorkerOK(n)
    BY <1>2, <1>3, <1>4, <1>7, <2>2, <2>3, <2>5 DEF WorkerOK, Rechecking
  <2> QED
    BY <1>1, <1>3, <1>5, <1>8, <2>1, <2>4, <2>5, <2>6, WorkerKeeps DEF RecheckTarget
<1>9. CASE ~(diffs = {} \/ OutOfTime(s))
  <2>1. PICK n : n = [s EXCEPT !.pc = "source", !.keys = diffs, !.at = 0]
    OBVIOUS
  <2>2. /\ n \in BusyType /\ n.pc = "source" /\ n.at = 0 /\ n.mark = s.mark /\ n.t = s.t
        /\ n.candidates = s.candidates /\ n.unresolved = s.unresolved /\ n.keys = diffs
    BY <1>3, <1>6, <2>1 DEF BusyType, Rechecking
  <2>3. WorkerOK(n)
    BY <1>2, <1>3, <1>4, <1>7, <2>2 DEF WorkerOK, Rechecking
  <2> QED
    BY <1>1, <1>3, <1>5, <1>9, <2>1, <2>2, <2>3, WorkerKeeps DEF RecheckTarget
<1> QED
  BY <1>8, <1>9

-----------------------------------------------------------------------------
(***************************************************************************)
(* The recorded rows, and the result of a table.                           *)
(***************************************************************************)
LEMMA RecordedSourceKeeps ==
  ASSUME VerifyInv, NEW w \in 1..W, RecordedSource(w) PROVE VerifyInv'
<1>1. PICK s : s = wk[w]
  OBVIOUS
<1>2. s.pc = "recorded"
  BY <1>1 DEF RecordedSource, At
<1>3. Busy(w) /\ s \in BusyType /\ WorkerOK(s)
  BY <1>1, <1>2, AtStep
<1>4. Len(wal) \in Nat
  BY Positions DEF VerifyInv
<1>5. PICK n : n = [s EXCEPT !.pc = "versions", !.at = Len(wal)]
  OBVIOUS
<1>6. /\ n \in BusyType /\ n.pc = "versions" /\ n.at = Len(wal) /\ n.mark = s.mark /\ n.t = s.t
      /\ n.candidates = s.candidates /\ n.unresolved = s.unresolved
  BY <1>3, <1>4, <1>5 DEF BusyType, Rechecking
<1>7. WorkerOK(n)
  BY <1>2, <1>3, <1>4, <1>6 DEF WorkerOK, Rechecking
<1> QED
  BY <1>1, <1>3, <1>5, <1>6, <1>7, WorkerKeeps DEF RecordedSource

\* Rows beyond the bound on rechecks are only there when there are too many.
LEMMA AllCandidates ==
  ASSUME NEW S \in SUBSET Rows, NEW q \in S
  PROVE  Cardinality(S) \in Nat /\ (q \in CandidateKeys(S) \/ Cardinality(S) > Threshold)
<1>1. IsFiniteSet(S) /\ Threshold \in Nat
  BY VerificationAssumption, FS_Subset
<1>2. PICK X : X = {x \in S : x < q}
  OBVIOUS
<1>3. X \subseteq S /\ X # S
  BY <1>2, VerificationAssumption
<1>4. Cardinality(X) \in Nat /\ Cardinality(S) \in Nat /\ Cardinality(X) < Cardinality(S)
  BY <1>1, <1>3, FS_Subset, FS_CardinalityType
<1> QED
  BY <1>1, <1>2, <1>4 DEF CandidateKeys

\* What finish leaves of a result.
IsFinish(f, r, cut) ==
  /\ f \in ResultType
  /\ f.complete = (r.complete /\ r.pending = {} /\ ~cut)
  /\ f.converged = (r.converged /\ r.pending = {} /\ ~cut)
  /\ f.candidates = r.candidates /\ f.unresolved = r.unresolved /\ f.pending = r.pending
  /\ f.base = r.base /\ f.tbase = r.tbase

LEMMA FinishIs ==
  ASSUME NEW r \in ResultType, NEW cut \in BOOLEAN, NEW f, f = Finish(r, cut)
  PROVE  IsFinish(f, r, cut)
<1>1. PICK c, v : /\ c = (r.complete /\ ~(r.pending # {} \/ cut))
                  /\ v = (r.converged /\ ~(r.pending # {} \/ cut))
  OBVIOUS
<1>2. c \in BOOLEAN /\ v \in BOOLEAN
  BY <1>1
<1>3. f = [r EXCEPT !.complete = c, !.cut = cut, !.converged = v]
  BY <1>1 DEF Finish, ResultType
<1>4. /\ f \in ResultType /\ f.complete = c /\ f.converged = v
      /\ f.candidates = r.candidates /\ f.unresolved = r.unresolved /\ f.pending = r.pending
      /\ f.base = r.base /\ f.tbase = r.tbase
  BY <1>2, <1>3 DEF ResultType
<1> QED
  BY <1>1, <1>4 DEF IsFinish

LEMMA FreshIs ==
  /\ Fresh \in ResultType /\ Fresh.complete = TRUE /\ Fresh.converged = TRUE
  /\ Fresh.pending = {} /\ Fresh.unresolved = {} /\ Fresh.tbase = 0
  /\ NoResult \in ResultType /\ NoResult.complete = FALSE /\ NoResult.unresolved = {}
  /\ NoResult.tbase = 0
BY DEF Fresh, NoResult, ResultType

\* What the result of a table says, before its recorded rows are looked at again.
IsResult(r, s, pend) ==
  /\ r \in ResultType /\ r.complete = TRUE
  /\ r.converged = (s.unresolved = {} /\ pend = {})
  /\ r.candidates = Cardinality(s.candidates) /\ r.unresolved = s.unresolved
  /\ r.pending = pend /\ r.base = s.at /\ r.tbase = applied

LEMMA ResultIs ==
  ASSUME TypeInv, NEW s \in BusyType, NEW pend \in SUBSET Rows, NEW r, r = Result(s, pend)
  PROVE  IsResult(r, s, pend)
<1>1. PICK c, v : c = Cardinality(s.candidates) /\ v = (s.unresolved = {} /\ pend = {})
  OBVIOUS
<1>2. c \in Nat
  <2>1. IsFiniteSet(s.candidates)
    BY VerificationAssumption, FS_Subset DEF BusyType
  <2> QED
    BY <1>1, <2>1, FS_CardinalityType
<1>3. v \in BOOLEAN /\ applied \in Nat /\ s.at \in Nat /\ s.unresolved \in SUBSET ReportType
  BY <1>1, Positions DEF BusyType
<1>4. r = [Fresh EXCEPT !.candidates = c, !.unresolved = s.unresolved, !.pending = pend,
                        !.base = s.at, !.tbase = applied, !.converged = v]
  BY <1>1 DEF Result
<1>5. /\ r \in ResultType /\ r.complete = TRUE /\ r.converged = v /\ r.candidates = c
      /\ r.unresolved = s.unresolved /\ r.pending = pend /\ r.base = s.at /\ r.tbase = applied
  BY <1>2, <1>3, <1>4, FreshIs DEF ResultType
<1> QED
  BY <1>1, <1>5 DEF IsResult

\* A table's result, from what its worker knows and the recorded rows that are
\* pending.
LEMMA HandKeeps ==
  ASSUME VerifyInv, NEW w \in 1..W, NEW s, s = wk[w], s.pc \in {"recorded", "versions"},
         NEW pend \in SUBSET Rows, pend \cap Ignored = {},
         \A q \in Recorded[s.t] : Sick(q) => q \in pend,
         Hand(w, pend)
  PROVE  VerifyInv'
<1>1. Busy(w) /\ s \in BusyType /\ WorkerOK(s)
  BY AtStep
<1>2. PICK r0 : r0 = Result(s, pend)
  OBVIOUS
<1>3. PICK r : r = Finish(r0, FALSE)
  OBVIOUS
<1>4. /\ r0 \in ResultType /\ r0.complete = TRUE
      /\ r0.converged = (s.unresolved = {} /\ pend = {})
      /\ r0.candidates = Cardinality(s.candidates) /\ r0.unresolved = s.unresolved
      /\ r0.pending = pend /\ r0.base = s.at /\ r0.tbase = applied
  <2>1. TypeInv
    BY DEF VerifyInv
  <2>2. IsResult(r0, s, pend)
    BY <1>1, <1>2, <2>1, ResultIs
  <2> QED
    BY <2>2 DEF IsResult
<1>5. /\ r \in ResultType
      /\ r.complete = (pend = {})
      /\ r.converged = (s.unresolved = {} /\ pend = {})
      /\ r.candidates = Cardinality(s.candidates) /\ r.unresolved = s.unresolved
      /\ r.pending = pend /\ r.base = s.at /\ r.tbase = applied
  <2>1. IsFinish(r, r0, FALSE)
    BY <1>3, <1>4, FinishIs
  <2> QED
    BY <1>4, <2>1 DEF IsFinish
<1>6. \A q \in Heap(s.t) : Sick(q) => Cardinality(s.candidates) > Threshold \/ s.unresolved # {}
  <2>1. s.candidates \in SUBSET Rows
    BY <1>1 DEF BusyType
  <2> QED
    BY <1>1, <2>1, AllCandidates DEF WorkerOK
<1>7. /\ UNCHANGED <<wal, fault, applied, phase, next, rk, failed, stopped, outcome>>
      /\ wk' = [wk EXCEPT ![w] = Idle]
      /\ IF pend # {} THEN deferred' = Append(deferred, [t |-> s.t, r |-> r]) /\ UNCHANGED res
         ELSE res' = [res EXCEPT ![s.t] = r] /\ UNCHANGED deferred
  <2>1. r = Finish(Result(wk[w], pend), FALSE)
    BY <1>2, <1>3
  <2> QED
    BY <2>1 DEF Hand, Goes, world
<1>8. Grows /\ s.t \in Tables /\ s.t \notin Keyless /\ s.at <= Len(wal)
      /\ Len(wal) \in Nat /\ applied \in 0..Len(wal)
  <2>1. Grows
    BY <1>7, StillGrows DEF VerifyInv
  <2>2. s.t \in Tables /\ s.t \notin Keyless /\ s.at <= Len(wal)
    BY <1>1 DEF BusyType, WorkerOK
  <2> QED
    BY <2>1, <2>2, Positions DEF VerifyInv
<1>9. /\ wk' \in [1..W -> BusyType \cup {Idle, Exit}] /\ wk'[w].pc = "idle"
      /\ \A v \in 1..W : v # w => wk'[v] = wk[v]
  BY <1>7, Kinds DEF VerifyInv, TypeInv
<1>10. \A v \in 1..W : wk'[v] = wk[v] \/ ~Busy(v)'
  BY <1>9 DEF Busy
<1>11. OutcomeInv'
  BY <1>1, <1>7, <1>9, OutcomeKeeps
<1>12. CASE pend # {}
  <2>1. PICK t : t = s.t
    OBVIOUS
  <2>2. PICK e : e = [t |-> t, r |-> r]
    OBVIOUS
  <2>3. ResultOK(t, r)
    BY <1>1, <1>5, <1>6, <1>8, <2>1 DEF ResultOK, WorkerOK
  <2>4. ResultOK(t, r)'
    BY <1>5, <1>8, <2>3, GrowsResult
  <2>5. e \in [t : Tables, r : ResultType] /\ e.t = t /\ e.r = r
    BY <1>5, <1>8, <2>1, <2>2
  <2> DEFINE Q == [t : Tables, r : ResultType]
  <2>6. deferred \in Seq(Q) /\ deferred' = Append(deferred, e) /\ e \in Q /\ UNCHANGED res
    BY <1>7, <1>12, <2>1, <2>2, <2>5 DEF VerifyInv, TypeInv, QueueType
  <2> HIDE DEF Q
  <2>7. /\ deferred' \in Seq(Q) /\ Len(deferred') = Len(deferred) + 1 /\ Len(deferred) \in Nat
        /\ deferred'[Len(deferred')] = e
        /\ \A i \in 1..Len(deferred) : deferred'[i] = deferred[i]
    BY <2>6
  <2>8. \A i \in 1..Len(deferred') : \/ \E j \in 1..Len(deferred) : deferred'[i] = deferred[j]
                                     \/ ResultOK(deferred[i].t, deferred[i].r)'
    <3> SUFFICES ASSUME NEW i \in 1..Len(deferred')
                 PROVE  \/ \E j \in 1..Len(deferred) : deferred'[i] = deferred[j]
                        \/ ResultOK(deferred[i].t, deferred[i].r)'
      OBVIOUS
    <3>1. CASE i = Len(deferred')
      <4>1. deferred'[i].t = t /\ deferred'[i].r = r
        BY <2>5, <2>7, <3>1
      <4> QED
        BY <2>4, <4>1
    <3>2. CASE i # Len(deferred')
      BY <2>7, <3>2
    <3> QED
      BY <3>1, <3>2
  <2>9. PoolInv'
    BY <1>7, <1>8, <1>10, <2>6, <2>8, PoolKeeps
  <2>10. TypeInv'
    BY <1>7, <1>9, <2>6, <2>7 DEF VerifyInv, TypeInv, QueueType, Q
  <2> QED
    BY <1>11, <2>9, <2>10 DEF VerifyInv
<1>13. CASE pend = {}
  <2>1. PICK t : t = s.t
    OBVIOUS
  <2>2. FinalOK(t, r)
    <3>1. r.tbase <= Len(wal) /\ \A u \in r.unresolved : ReportOK(u)
      BY <1>1, <1>5, <1>8 DEF WorkerOK
    <3>2. r.pending = {} /\ r.complete /\ (r.converged <=> r.unresolved = {})
      BY <1>5, <1>13
    <3>3. \A q \in Heap(t) : Sick(q) => r.candidates > Threshold \/ r.unresolved # {}
      BY <1>5, <1>6, <2>1
    <3>4. \A q \in Recorded[t] : ~Sick(q)
      BY <1>13, <2>1
    <3> QED
      BY <3>1, <3>2, <3>3, <3>4 DEF FinalOK
  <2>3. FinalOK(t, r)'
    BY <1>5, <1>8, <2>2, GrowsFinal
  <2>4. /\ res' \in [Tables -> ResultType] /\ res'[t] = r /\ \A v \in Tables : v # t => res'[v] = res[v]
        /\ UNCHANGED deferred
    BY <1>5, <1>7, <1>8, <1>13, <2>1 DEF VerifyInv, TypeInv
  <2>5. \A v \in Tables : res'[v] = res[v] \/ FinalOK(v, res[v])'
    BY <2>3, <2>4
  <2>6. PoolInv'
    BY <1>7, <1>8, <1>10, <2>4, <2>5, PoolKeeps
  <2>7. TypeInv'
    BY <1>7, <1>9, <2>4 DEF VerifyInv, TypeInv
  <2> QED
    BY <1>11, <2>6, <2>7 DEF VerifyInv
<1> QED
  BY <1>12, <1>13

LEMMA RecordedKeeps ==
  ASSUME VerifyInv, NEW w \in 1..W, RecordedTarget(w) \/ NoneRecorded(w) PROVE VerifyInv'
<1>1. PICK s : s = wk[w]
  OBVIOUS
<1>2. s.pc \in {"recorded", "versions"}
  BY <1>1 DEF RecordedTarget, NoneRecorded, At
<1>3. s \in BusyType /\ WorkerOK(s)
  BY <1>1, <1>2, AtStep
<1>4. CASE RecordedTarget(w)
  <2>1. PICK pend : pend = ExcludeDiffs(CompareRows(Recorded[s.t], s.at, applied))
    OBVIOUS
  <2>2. Recorded[s.t] \subseteq Rows
    BY <1>3, TableRows DEF BusyType
  <2>3. pend \in SUBSET Rows /\ pend \cap Ignored = {}
    BY <2>1, <2>2 DEF ExcludeDiffs, CompareRows
  <2>4. s.at \in 0..Len(wal) /\ applied \in 0..Len(wal)
    BY <1>3, Positions DEF VerifyInv, WorkerOK, BusyType
  <2>5. \A q \in Recorded[s.t] : Sick(q) => q \in pend
    BY <2>1, <2>4, SickIsFound DEF VerifyInv
  <2> QED
    BY <1>1, <1>2, <1>4, <2>1, <2>3, <2>5, HandKeeps DEF RecordedTarget
<1>5. CASE NoneRecorded(w)
  <2>1. Recorded[s.t] = {} /\ Hand(w, {})
    BY <1>1, <1>5 DEF NoneRecorded
  <2> QED
    BY <1>1, <1>2, <2>1, HandKeeps
<1> QED
  BY <1>4, <1>5

-----------------------------------------------------------------------------
(***************************************************************************)
(* A table is taken, given up, and settled.                                *)
(***************************************************************************)

\* A result that is put down.
LEMMA Settled ==
  ASSUME VerifyInv, Grows, NEW t \in Tables, NEW r \in ResultType, FinalOK(t, r),
         res' = [res EXCEPT ![t] = r]
  PROVE  /\ res' \in [Tables -> ResultType]
         /\ \A v \in Tables : res'[v] = res[v] \/ FinalOK(v, res[v])'
<1>1. FinalOK(t, r)'
  BY GrowsFinal
<1>2. res' \in [Tables -> ResultType] /\ res'[t] = r /\ \A v \in Tables : v # t => res'[v] = res[v]
  BY DEF VerifyInv, TypeInv
<1> QED
  BY <1>1, <1>2

\* A check that was cut short says nothing.
LEMMA CutShort ==
  ASSUME VerifyInv, NEW t, NEW r \in ResultType, r.tbase <= Len(wal), \A u \in r.unresolved : ReportOK(u),
         NEW f, f = Finish(r, TRUE)
  PROVE  f \in ResultType /\ FinalOK(t, f)
<1>1. /\ f \in ResultType /\ f.complete = FALSE
      /\ f.unresolved = r.unresolved /\ f.tbase = r.tbase
  BY FinishIs DEF IsFinish
<1> QED
  BY <1>1 DEF FinalOK

LEMMA TakeKeeps ==
  ASSUME VerifyInv, NEW w \in 1..W, Take(w) PROVE VerifyInv'
<1>1. /\ UNCHANGED <<wal, fault, applied, phase, rk, deferred, failed, stopped, outcome>>
      /\ next <= T /\ next' = next + 1 /\ next \in Nat \ {0} /\ T \in Nat
  BY VerificationAssumption DEF Take, world, VerifyInv, TypeInv
<1>2. PICK t : t = next
  OBVIOUS
<1>3. t \in Tables /\ next' \in Nat \ {0}
  BY <1>1, <1>2 DEF Tables
<1>4. Grows
  BY <1>1, StillGrows DEF VerifyInv
<1>5. Len(wal) \in Nat /\ applied \in 0..Len(wal)
  BY Positions DEF VerifyInv
<1>6. CASE t \in Keyless
  <2>1. PICK f : f = Finish(Fresh, FALSE)
    OBVIOUS
  <2>2. res' = [res EXCEPT ![t] = f] /\ UNCHANGED wk
    BY <1>2, <1>6, <2>1 DEF Take
  <2>3. /\ f \in ResultType /\ f.complete = TRUE /\ f.converged = TRUE
        /\ f.pending = {} /\ f.unresolved = {} /\ f.tbase = 0
    <3>1. IsFinish(f, Fresh, FALSE)
      BY <2>1, FreshIs, FinishIs
    <3> QED
      BY <3>1, FreshIs DEF IsFinish
  <2>4. FinalOK(t, f)
    BY <1>5, <1>6, <2>3 DEF FinalOK
  <2>5. res' \in [Tables -> ResultType] /\ \A v \in Tables : res'[v] = res[v] \/ FinalOK(v, res[v])'
    BY <1>3, <1>4, <2>2, <2>3, <2>4, Settled
  <2>6. PoolInv'
    BY <1>1, <1>4, <2>2, <2>5, PoolKeeps
  <2>7. OutcomeInv'
    BY <1>1, <2>2, OutcomeKeeps
  <2>8. TypeInv'
    BY <1>1, <1>3, <2>2, <2>5 DEF VerifyInv, TypeInv
  <2> QED
    BY <2>6, <2>7, <2>8 DEF VerifyInv
<1>7. CASE t \notin Keyless
  <2>1. PICK n : n = Start(t)
    OBVIOUS
  <2>2. wk' = [wk EXCEPT ![w] = n] /\ UNCHANGED res
    BY <1>2, <1>7, <2>1 DEF Take
  <2>3. PICK a : a = IF Windows[t] = <<>> THEN "recorded" ELSE "sample"
    OBVIOUS
  <2>4. n = [pc |-> a, t |-> t, window |-> 1, at |-> 0, mark |-> 0, late |-> FALSE,
             keys |-> {}, candidates |-> {}, unresolved |-> {}] /\ a \in {"recorded", "sample"}
    BY <2>1, <2>3 DEF Start
  <2>5. /\ n \in BusyType /\ n.pc = a /\ n.t = t /\ n.window = 1 /\ n.at = 0 /\ n.mark = 0
        /\ n.candidates = {} /\ n.unresolved = {}
    BY <1>3, <2>4 DEF BusyType, Rechecking
  <2>6. a = "recorded" => Heap(t) = {}
    <3>1. Windows[t] = <<>> => Len(Windows[t]) = 0
      OBVIOUS
    <3> QED
      BY <1>3, <2>3, <3>1, TableRows
  <2>7. a = "sample" => 1 \in 1..Len(Windows[t])
    <3> SUFFICES ASSUME Windows[t] # <<>> PROVE 1 \in 1..Len(Windows[t])
      BY <2>3
    <3>1. PICK ws : ws = Windows[t]
      OBVIOUS
    <3>2. ws \in Seq(SUBSET Rows) /\ ws # <<>>
      BY <1>3, <3>1, TableRows
    <3>3. Len(ws) \in Nat \ {0}
      BY <3>2
    <3> QED
      BY <3>1, <3>3
  <2>8. WorkerOK(n)
    BY <1>5, <1>7, <2>4, <2>5, <2>6, <2>7 DEF WorkerOK, Rechecking
  <2>9. WorkerOK(n)'
    BY <1>4, <2>5, <2>8, GrowsWorker
  <2>10. /\ wk' \in [1..W -> BusyType \cup {Idle, Exit}] /\ wk'[w] = n
         /\ \A v \in 1..W : v # w => wk'[v] = wk[v]
    BY <2>2, <2>5 DEF VerifyInv, TypeInv
  <2>11. \A v \in 1..W : wk'[v] = wk[v] \/ ~Busy(v)' \/ WorkerOK(wk[v])'
    BY <2>9, <2>10
  <2>12. PoolInv'
    BY <1>1, <1>4, <2>2, <2>11, PoolKeeps
  <2>13. OutcomeInv'
    BY <1>1, <2>4, <2>5, <2>10, OutcomeKeeps
  <2>14. TypeInv'
    BY <1>1, <1>3, <2>2, <2>10 DEF VerifyInv, TypeInv
  <2> QED
    BY <2>12, <2>13, <2>14 DEF VerifyInv
<1> QED
  BY <1>6, <1>7

LEMMA TableTimeoutKeeps ==
  ASSUME VerifyInv, NEW w \in 1..W, TableTimeout(w) PROVE VerifyInv'
<1>1. PICK t, f : t = wk[w].t /\ f = Finish(Fresh, TRUE)
  OBVIOUS
<1>2. /\ UNCHANGED <<wal, fault, applied, phase, next, rk, deferred, failed, stopped, outcome>>
      /\ wk' = [wk EXCEPT ![w] = Idle] /\ res' = [res EXCEPT ![t] = f] /\ Busy(w)
  BY <1>1 DEF TableTimeout, Goes, world
<1>3. t \in Tables
  BY <1>1, <1>2, BusyIs DEF VerifyInv, BusyType
<1>4. Grows
  BY <1>2, StillGrows DEF VerifyInv
<1>5. f \in ResultType /\ FinalOK(t, f)
  <2>1. 0 <= Len(wal)
    BY Positions DEF VerifyInv
  <2>2. /\ Fresh \in ResultType /\ Fresh.tbase <= Len(wal)
        /\ \A u \in Fresh.unresolved : ReportOK(u)
    BY <2>1, FreshIs
  <2> QED
    BY <1>1, <2>2, CutShort
<1>6. res' \in [Tables -> ResultType] /\ \A v \in Tables : res'[v] = res[v] \/ FinalOK(v, res[v])'
  BY <1>2, <1>3, <1>4, <1>5, Settled
<1>7. /\ wk' \in [1..W -> BusyType \cup {Idle, Exit}] /\ wk'[w].pc = "idle"
      /\ \A v \in 1..W : v # w => wk'[v] = wk[v]
  BY <1>2, Kinds DEF VerifyInv, TypeInv
<1>8. \A v \in 1..W : wk'[v] = wk[v] \/ ~Busy(v)'
  BY <1>7 DEF Busy
<1>9. PoolInv'
  BY <1>2, <1>4, <1>6, <1>8, PoolKeeps
<1>10. OutcomeInv'
  BY <1>2, <1>7, OutcomeKeeps
<1>11. TypeInv'
  BY <1>2, <1>6, <1>7 DEF VerifyInv, TypeInv
<1> QED
  BY <1>9, <1>10, <1>11 DEF VerifyInv

LEMMA FailsKeeps ==
  ASSUME VerifyInv, NEW w \in 1..W, Fails(w) PROVE VerifyInv'
<1>1. /\ UNCHANGED <<wal, fault, applied, phase, next, rk, deferred, res, stopped, outcome>>
      /\ wk' = [wk EXCEPT ![w] = Exit] /\ failed' = TRUE /\ Busy(w)
  BY DEF Fails, Goes, world
<1>2. Grows
  BY <1>1, StillGrows DEF VerifyInv
<1>3. /\ wk' \in [1..W -> BusyType \cup {Idle, Exit}] /\ wk'[w].pc = "exit"
      /\ \A v \in 1..W : v # w => wk'[v] = wk[v]
  BY <1>1, Kinds DEF VerifyInv, TypeInv
<1>4. \A v \in 1..W : wk'[v] = wk[v] \/ ~Busy(v)'
  BY <1>3 DEF Busy
<1>5. PoolInv'
  BY <1>1, <1>2, <1>4, PoolKeeps
<1>6. OutcomeInv'
  BY <1>1, OutcomeKeeps
<1>7. TypeInv'
  BY <1>1, <1>3 DEF VerifyInv, TypeInv
<1> QED
  BY <1>5, <1>6, <1>7 DEF VerifyInv

-----------------------------------------------------------------------------
(***************************************************************************)
(* The deferred recheck.                                                   *)
(***************************************************************************)
LEMMA RecheckIs ==
  ASSUME VerifyInv, rk.pc # "idle" PROVE rk # Idle /\ rk \in RecheckType /\ RecheckOK(rk)
BY Kinds DEF VerifyInv, TypeInv, PoolInv

LEMMA TakeDeferredKeeps ==
  ASSUME VerifyInv, TakeDeferred PROVE VerifyInv'
<1> DEFINE Q == [t : Tables, r : ResultType]
<1>1. deferred \in Seq(Q) /\ deferred # <<>> /\ deferred' = Tail(deferred)
  BY DEF TakeDeferred, VerifyInv, TypeInv, QueueType
<1> HIDE DEF Q
<1>2. /\ deferred' \in Seq(Q) /\ Len(deferred) \in Nat \ {0} /\ Len(deferred') = Len(deferred) - 1
      /\ \A i \in 1..Len(deferred') : i + 1 \in 1..Len(deferred) /\ deferred'[i] = deferred[i + 1]
      /\ Head(deferred) = deferred[1]
  BY <1>1
<1>3. PICK t, r : t = deferred[1].t /\ r = deferred[1].r
  OBVIOUS
<1>4. 1 \in 1..Len(deferred) /\ deferred[1] \in Q
  BY <1>1, <1>2, InSeq
<1>5. t \in Tables /\ r \in ResultType /\ ResultOK(t, r)
  BY <1>3, <1>4 DEF Q, VerifyInv, PoolInv
<1>6. PICK k : k = [pc |-> "before", t |-> t, r |-> r, before |-> 0, mark |-> 0, to |-> 0]
  OBVIOUS
<1>7. /\ UNCHANGED <<wal, fault, applied, phase, next, wk, res, failed, stopped, outcome>>
      /\ rk' = k
  BY <1>2, <1>3, <1>6 DEF TakeDeferred, world
<1>8. /\ k \in RecheckType /\ k.pc = "before" /\ k.t = t /\ k.r = r /\ k.before = 0
      /\ k.mark = 0 /\ k.to = 0
  BY <1>5, <1>6 DEF RecheckType
<1>9. RecheckOK(k)
  <2>1. Len(wal) \in Nat /\ applied \in Nat
    BY Positions DEF VerifyInv
  <2> QED
    BY <1>5, <1>8, <2>1 DEF RecheckOK
<1>10. Grows
  BY <1>7, StillGrows DEF VerifyInv
<1>11. RecheckOK(rk)'
  <2>1. RecheckOK(k)'
    BY <1>8, <1>9, <1>10, GrowsRecheck
  <2> QED
    BY <1>7, <2>1
<1>12. PoolInv'
  BY <1>2, <1>7, <1>10, <1>11, PoolKeeps
<1>13. OutcomeInv'
  BY <1>1, <1>7, OutcomeKeeps
<1>14. TypeInv'
  BY <1>2, <1>7, <1>8 DEF VerifyInv, TypeInv, QueueType, Q
<1> QED
  BY <1>12, <1>13, <1>14 DEF VerifyInv

\* The rechecker goes on.
LEMMA RecheckGoes ==
  ASSUME VerifyInv, rk # Idle, NEW n \in RecheckType, RecheckOK(n), rk' = n, Rechecks
  PROVE  VerifyInv'
<1>1. UNCHANGED <<wal, fault, applied, phase, next, wk, deferred, res, failed, stopped, outcome>>
  BY DEF Rechecks, world
<1>2. Grows
  BY <1>1, StillGrows DEF VerifyInv
<1>3. RecheckOK(rk)'
  <2>1. RecheckOK(n)'
    BY <1>2, GrowsRecheck
  <2> QED
    BY <2>1
<1>4. PoolInv'
  BY <1>1, <1>2, <1>3, PoolKeeps
<1>5. OutcomeInv'
  BY <1>1, OutcomeKeeps
<1>6. TypeInv'
  BY <1>1 DEF VerifyInv, TypeInv
<1> QED
  BY <1>4, <1>5, <1>6 DEF VerifyInv

LEMMA RecheckKeeps ==
  ASSUME VerifyInv, Before \/ ConfirmMark \/ Confirm \/ Target PROVE VerifyInv'
<1>1. PICK k : k = rk
  OBVIOUS
<1>2. k.pc \in {"before", "mark", "wait", "target"}
  BY <1>1 DEF Before, ConfirmMark, Confirm, Target, RAt
<1>3. rk # Idle /\ k \in RecheckType /\ RecheckOK(k)
  BY <1>1, <1>2, RecheckIs
<1>4. /\ Len(wal) \in Nat /\ applied \in 0..Len(wal) /\ applied \in Nat
      /\ k.before \in Nat /\ k.mark \in Nat /\ k.to \in Nat /\ k.r.tbase \in Nat /\ k.r.tbase <= applied
  BY <1>3, Positions DEF VerifyInv, RecheckType, ResultType, RecheckOK, ResultOK
<1>5. CASE Before
  <2>1. PICK a : a = IF Hooks THEN "mark" ELSE "target"
    OBVIOUS
  <2>2. PICK n : n = [k EXCEPT !.pc = a, !.before = Len(wal)]
    OBVIOUS
  <2>3. /\ n \in RecheckType /\ n.pc = a /\ n.t = k.t /\ n.r = k.r /\ n.before = Len(wal)
        /\ n.mark = k.mark /\ n.to = k.to
    BY <1>3, <1>4, <2>1, <2>2 DEF RecheckType
  <2>4. RecheckOK(n)
    BY <1>3, <1>4, <2>1, <2>3 DEF RecheckOK
  <2> QED
    BY <1>1, <1>3, <1>5, <2>1, <2>2, <2>3, <2>4, RecheckGoes DEF Before
<1>6. CASE ConfirmMark
  <2>1. PICK n : n = [k EXCEPT !.pc = "wait", !.mark = Boundary]
    OBVIOUS
  <2>2. /\ n \in RecheckType /\ n.pc = "wait" /\ n.t = k.t /\ n.r = k.r /\ n.before = k.before
        /\ n.mark = Len(wal) /\ n.to = k.to
    BY <1>3, <1>4, <2>1 DEF RecheckType, Boundary
  <2>3. RecheckOK(n)
    BY <1>3, <1>4, <2>2 DEF RecheckOK
  <2> QED
    BY <1>1, <1>3, <1>6, <2>1, <2>2, <2>3, RecheckGoes DEF ConfirmMark
<1>7. CASE Confirm
  <2>1. PICK n : n = [k EXCEPT !.pc = "target", !.mark = 0]
    OBVIOUS
  <2>2. /\ n \in RecheckType /\ n.pc = "target" /\ n.t = k.t /\ n.r = k.r /\ n.before = k.before
        /\ n.mark = 0 /\ n.to = k.to
    BY <1>3, <1>4, <2>1 DEF RecheckType
  <2>3. k.before <= k.mark /\ k.mark <= applied
    BY <1>1, <1>3, <1>7 DEF Confirm, RAt, Passed, RecheckOK
  <2>4. RecheckOK(n)
    BY <1>3, <1>4, <2>2, <2>3 DEF RecheckOK
  <2> QED
    BY <1>1, <1>3, <1>7, <2>1, <2>2, <2>4, RecheckGoes DEF Confirm
<1>8. CASE Target
  <2>1. PICK n : n = [k EXCEPT !.pc = "after", !.to = applied]
    OBVIOUS
  <2>2. /\ n \in RecheckType /\ n.pc = "after" /\ n.t = k.t /\ n.r = k.r /\ n.before = k.before
        /\ n.mark = k.mark /\ n.to = applied
    BY <1>3, <1>4, <2>1 DEF RecheckType
  <2>3. k.pc = "target"
    BY <1>1, <1>8 DEF Target, RAt
  <2>4. RecheckOK(n)
    BY <1>3, <1>4, <2>2, <2>3 DEF RecheckOK
  <2> QED
    BY <1>1, <1>3, <1>8, <2>1, <2>2, <2>4, RecheckGoes DEF Target
<1> QED
  BY <1>5, <1>6, <1>7, <1>8

\* A row with the right contents is reported only when the source changed it
\* between its two reads, or did not have it at the first of them.
LEMMA RecordedReport ==
  ASSUME TypeInv, NEW k \in RecheckType, RecheckOK(k), k.pc = "after", NEW q \in k.r.pending,
         ~Matched(q, k), NEW u, u = [row |-> q, by |-> "recorded", from |-> k.before, to |-> Len(wal)]
  PROVE  u \in ReportType /\ ReportOK(u)
<1>1. /\ Len(wal) \in Nat /\ applied \in 0..Len(wal) /\ k.before \in 0..Len(wal) /\ k.to \in 0..Len(wal)
      /\ (Hooks => k.before <= k.to)
  BY Positions DEF RecheckType, RecheckOK
<1>2. q \in Rows /\ q \notin Ignored
  BY DEF RecheckType, ResultType, RecheckOK, ResultOK
<1>3. u \in ReportType /\ u.row = q /\ u.by = "recorded" /\ u.from = k.before /\ u.to = Len(wal)
  BY <1>1, <1>2 DEF ReportType
<1>4. Hooks /\ fault[q] = "none" =>
        Written(q, k.before, Len(wal)) \/ SourceRow(q, k.before).val = Absent
  <2> SUFFICES ASSUME Hooks, fault[q] = "none", ~Written(q, k.before, Len(wal)),
                      SourceRow(q, k.before).val # Absent
               PROVE  FALSE
    OBVIOUS
  <2>1. SourceRow(q, Len(wal)) = SourceRow(q, k.before)
    BY <1>1, SourceRowSame
  <2>2. ~Written(q, k.before, k.to)
    BY <1>1 DEF Written
  <2>3. SourceRow(q, k.to) = SourceRow(q, k.before)
    BY <1>1, <2>2, SourceRowSame
  <2>4. TargetRow(q, k.to) = SourceRow(q, k.to)
    BY DEF TargetRow
  <2> QED
    BY <2>1, <2>3, <2>4 DEF Matched, Unchanged
<1> QED
  BY <1>1, <1>2, <1>3, <1>4 DEF ReportOK

\* A sick row passes the recheck only when its target copy was written meanwhile.
LEMMA SickAdvanced ==
  ASSUME TypeInv, NEW k \in RecheckType, RecheckOK(k), k.pc = "after", NEW q, Sick(q),
         Matched(q, k) \/ IgnoredNow(q) \/ Advanced(q, k)
  PROVE  fault[q] = "garbled" /\ Written(q, k.r.tbase, Len(wal))
<1>1. PICK b : b = k.r.tbase
  OBVIOUS
<1>2. /\ Len(wal) \in Nat /\ k.to \in 0..Len(wal) /\ b \in 0..Len(wal) /\ b <= k.to
      /\ Len(wal) \in 0..Len(wal)
  BY <1>1, Positions DEF RecheckType, RecheckOK, ResultType, ResultOK
<1>3. PICK old, new : old = TargetRow(q, b) /\ new = TargetRow(q, k.to)
  OBVIOUS
<1>4. /\ new.val # SourceRow(q, Len(wal)).val
      /\ new.val = (IF fault[q] = "missing" THEN Absent ELSE Wrong)
      /\ old.val = (IF fault[q] = "missing" THEN Absent ELSE Wrong)
  BY <1>2, <1>3, SickRow
<1>5. Advanced(q, k)
  BY <1>3, <1>4 DEF Matched, IgnoredNow, Sick
<1>6. new.val # Absent /\ new # old
  BY <1>1, <1>3, <1>4, <1>5 DEF Advanced
<1>7. fault[q] = "garbled"
  <2>1. fault[q] \in {"missing", "stale", "garbled"}
    BY DEF Sick, TypeInv, Faults
  <2>2. fault[q] # "missing"
    BY <1>4, <1>6
  <2>3. fault[q] # "stale"
    BY <1>3, <1>6 DEF TargetRow
  <2> QED
    BY <2>1, <2>2, <2>3
<1>8. Written(q, b, k.to)
  <2> SUFFICES ASSUME ~Written(q, b, k.to) PROVE FALSE
    OBVIOUS
  <2>1. SourceRow(q, k.to) = SourceRow(q, b)
    BY <1>2, SourceRowSame
  <2>2. TargetRow(q, k.to) = TargetRow(q, b)
    BY <2>1 DEF TargetRow
  <2> QED
    BY <1>3, <1>6, <2>2
<1>9. Written(q, b, Len(wal))
  BY <1>2, <1>8 DEF Written
<1> QED
  BY <1>1, <1>7, <1>9

\* The rechecker puts a result down.
LEMMA RecheckEnds ==
  ASSUME VerifyInv, rk # Idle, NEW t \in Tables, NEW f \in ResultType, FinalOK(t, f),
         res' = [res EXCEPT ![t] = f], rk' = Idle,
         UNCHANGED <<world, next, wk, deferred, failed, stopped, outcome>>
  PROVE  VerifyInv'
<1>1. UNCHANGED <<wal, fault, applied, phase, next, wk, deferred, failed, stopped, outcome>>
  BY DEF world
<1>2. Grows
  BY <1>1, StillGrows DEF VerifyInv
<1>3. res' \in [Tables -> ResultType] /\ \A v \in Tables : res'[v] = res[v] \/ FinalOK(v, res[v])'
  BY <1>2, Settled
<1>4. PoolInv'
  BY <1>1, <1>2, <1>3, PoolKeeps
<1>5. OutcomeInv'
  BY <1>1, OutcomeKeeps
<1>6. TypeInv'
  BY <1>1, <1>3 DEF VerifyInv, TypeInv
<1> QED
  BY <1>4, <1>5, <1>6 DEF VerifyInv

LEMMA JudgeKeeps ==
  ASSUME VerifyInv, Judge PROVE VerifyInv'
<1>1. PICK k, t : k = rk /\ t = k.t
  OBVIOUS
<1>2. k.pc = "after"
  BY <1>1 DEF Judge, RAt
<1>3. rk # Idle /\ k \in RecheckType /\ RecheckOK(k) /\ t \in Tables /\ k.r \in ResultType
  BY <1>1, <1>2, RecheckIs DEF RecheckType
<1>4. PICK bad : bad = {q \in k.r.pending : ~Matched(q, k) /\ ~IgnoredNow(q) /\ ~Advanced(q, k)}
  OBVIOUS
<1>5. PICK rep : rep = Report(bad, "recorded", k.before, Len(wal))
  OBVIOUS
<1>6. PICK all : all = k.r.unresolved \cup rep
  OBVIOUS
<1>7. PICK r0 : r0 = [k.r EXCEPT !.pending = {}, !.unresolved = all,
                                 !.complete = TRUE, !.converged = all = {}]
  OBVIOUS
<1>8. PICK f : f = Finish(r0, FALSE)
  OBVIOUS
<1>9. /\ res' = [res EXCEPT ![t] = f] /\ rk' = Idle
      /\ UNCHANGED <<world, next, wk, deferred, failed, stopped, outcome>>
  BY <1>1, <1>4, <1>5, <1>6, <1>7, <1>8 DEF Judge
<1>10. \A u \in rep : u \in ReportType /\ ReportOK(u)
  <2> SUFFICES ASSUME NEW u \in rep PROVE u \in ReportType /\ ReportOK(u)
    OBVIOUS
  <2>1. PICK q \in bad : u = [row |-> q, by |-> "recorded", from |-> k.before, to |-> Len(wal)]
    BY <1>5 DEF Report
  <2>2. q \in k.r.pending /\ ~Matched(q, k)
    BY <1>4, <2>1
  <2> QED
    BY <1>2, <1>3, <2>1, <2>2, RecordedReport DEF VerifyInv
<1>11. all \in SUBSET ReportType /\ \A u \in all : ReportOK(u)
  BY <1>3, <1>6, <1>10 DEF RecheckOK, ResultOK, ResultType
<1>12. rep = {} => bad = {}
  BY <1>5 DEF Report
<1>13. /\ r0 \in ResultType /\ r0.pending = {} /\ r0.unresolved = all /\ r0.complete = TRUE
       /\ r0.converged = (all = {}) /\ r0.candidates = k.r.candidates /\ r0.tbase = k.r.tbase
  <2>1. PICK v : v = (all = {})
    OBVIOUS
  <2>2. v \in BOOLEAN
    BY <2>1
  <2>3. r0 = [k.r EXCEPT !.pending = {}, !.unresolved = all, !.complete = TRUE, !.converged = v]
    BY <1>7, <2>1
  <2>4. /\ r0 \in ResultType /\ r0.pending = {} /\ r0.unresolved = all /\ r0.complete = TRUE
        /\ r0.converged = v /\ r0.candidates = k.r.candidates /\ r0.tbase = k.r.tbase
    BY <1>3, <1>11, <2>2, <2>3 DEF ResultType
  <2> QED
    BY <2>1, <2>4
<1>14. /\ f \in ResultType /\ f.pending = {} /\ f.unresolved = all /\ f.complete
       /\ (f.converged <=> all = {}) /\ f.candidates = k.r.candidates /\ f.tbase = k.r.tbase
  <2>1. IsFinish(f, r0, FALSE)
    BY <1>8, <1>13, FinishIs
  <2> QED
    BY <1>13, <2>1 DEF IsFinish
<1>15. FinalOK(t, f)
  <2>1. f.tbase <= Len(wal)
    <3>1. k.r.tbase \in Nat /\ k.r.tbase <= applied /\ applied \in 0..Len(wal) /\ Len(wal) \in Nat
      BY <1>3, Positions DEF RecheckOK, ResultOK, ResultType, VerifyInv
    <3> QED
      BY <1>14, <3>1
  <2>2. ASSUME all = {}, NEW q \in Heap(t), Sick(q) PROVE f.candidates > Threshold
    BY <1>1, <1>3, <1>6, <1>14, <2>2 DEF RecheckOK, ResultOK
  <2>3. ASSUME all = {}, NEW q \in Recorded[t], Sick(q)
        PROVE  fault[q] = "garbled" /\ Written(q, f.tbase, Len(wal))
    <3>1. q \in k.r.pending
      BY <1>1, <1>3, <2>3 DEF RecheckOK, ResultOK
    <3>2. q \notin bad
      BY <1>6, <1>12, <2>3
    <3>3. Matched(q, k) \/ IgnoredNow(q) \/ Advanced(q, k)
      BY <1>4, <3>1, <3>2
    <3>4. fault[q] = "garbled" /\ Written(q, k.r.tbase, Len(wal))
      BY <1>2, <1>3, <2>3, <3>3, SickAdvanced DEF VerifyInv
    <3> QED
      BY <1>14, <3>4
  <2> QED
    BY <1>11, <1>14, <2>1, <2>2, <2>3 DEF FinalOK
<1> QED
  BY <1>3, <1>9, <1>14, <1>15, RecheckEnds

LEMMA RecheckTimeoutKeeps ==
  ASSUME VerifyInv, RecheckTimeout PROVE VerifyInv'
<1>1. PICK k, t, r, f : k = rk /\ t = k.t /\ r = k.r /\ f = Finish(r, TRUE)
  OBVIOUS
<1>2. rk # Idle /\ k \in RecheckType /\ RecheckOK(k)
  BY <1>1, RecheckIs DEF RecheckTimeout
<1>3. /\ t \in Tables /\ r \in ResultType /\ r.tbase \in Nat /\ r.tbase <= applied
      /\ \A u \in r.unresolved : ReportOK(u)
  BY <1>1, <1>2 DEF RecheckType, ResultType, RecheckOK, ResultOK
<1>4. r.tbase <= Len(wal)
  BY <1>3, Positions DEF VerifyInv
<1>5. f \in ResultType /\ FinalOK(t, f)
  BY <1>1, <1>3, <1>4, CutShort
<1>6. /\ res' = [res EXCEPT ![t] = f] /\ rk' = Idle
      /\ UNCHANGED <<world, next, wk, deferred, failed, stopped, outcome>>
  BY <1>1 DEF RecheckTimeout
<1> QED
  BY <1>2, <1>3, <1>5, <1>6, RecheckEnds

LEMMA RecheckFailsKeeps ==
  ASSUME VerifyInv, RecheckFails PROVE VerifyInv'
<1>1. /\ UNCHANGED <<wal, fault, applied, phase, next, wk, deferred, res, stopped, outcome>>
      /\ rk' = Idle /\ failed' = TRUE /\ rk # Idle
  BY RecheckIs DEF RecheckFails, world
<1>2. Grows
  BY <1>1, StillGrows DEF VerifyInv
<1>3. PoolInv'
  BY <1>1, <1>2, PoolKeeps
<1>4. OutcomeInv'
  BY <1>1, OutcomeKeeps
<1>5. TypeInv'
  BY <1>1 DEF VerifyInv, TypeInv
<1> QED
  BY <1>3, <1>4, <1>5 DEF VerifyInv

-----------------------------------------------------------------------------
(***************************************************************************)
(* The run.                                                                *)
(***************************************************************************)
LEMMA StopKeeps ==
  ASSUME VerifyInv, FeederStops \/ Interrupt PROVE VerifyInv'
<1>1. /\ UNCHANGED <<wal, fault, applied, phase, wk, rk, deferred, res, failed, outcome>>
      /\ next' \in Nat \ {0} /\ (outcome = "running" \/ next <= T)
  BY VerificationAssumption DEF FeederStops, Interrupt, world, VerifyInv, TypeInv
<1>2. Grows
  BY <1>1, StillGrows DEF VerifyInv
<1>3. PoolInv'
  BY <1>1, <1>2, PoolKeeps
<1>4. OutcomeInv'
  BY <1>1, OutcomeKeeps
<1>5. TypeInv'
  BY <1>1 DEF VerifyInv, TypeInv
<1> QED
  BY <1>3, <1>4, <1>5 DEF VerifyInv

LEMMA ReturnKeeps ==
  ASSUME VerifyInv, Return PROVE VerifyInv'
<1>1. /\ UNCHANGED <<wal, fault, applied, phase, next, wk, rk, deferred, res, failed, stopped>>
      /\ deferred = <<>> /\ rk.pc = "idle" /\ outcome' = Verdict /\ \A w \in 1..W : Ended(w)
  BY DEF Return, world
<1>2. Grows
  BY <1>1, StillGrows DEF VerifyInv
<1>3. PoolInv'
  BY <1>1, <1>2, PoolKeeps
<1>4. OutcomeInv'
  <2>1. \A w \in 1..W : wk'[w].pc = "exit" => failed'
    BY <1>1 DEF VerifyInv, OutcomeInv
  <2>2. ASSUME outcome' \in {"converged", "diverged"}
        PROVE  /\ next' > T /\ rk' = Idle /\ deferred' = <<>> /\ \A w \in 1..W : ~Busy(w)'
               /\ \A t \in Tables : res'[t].complete
               /\ (outcome' = "converged") <=> \A t \in Tables : res'[t].converged
    <3>1. ~failed
      BY <1>1, <2>2 DEF Verdict
    <3>2. \A w \in 1..W : wk[w].pc = "idle" /\ next > T
      BY <1>1, <3>1 DEF Ended, VerifyInv, OutcomeInv
    <3>3. 1 \in 1..W
      BY VerificationAssumption
    <3>4. next' > T /\ \A w \in 1..W : ~Busy(w)'
      BY <1>1, <3>2, <3>3 DEF Busy
    <3>5. rk' = Idle /\ deferred' = <<>>
      BY <1>1, RecheckIs, Kinds DEF VerifyInv, TypeInv
    <3>6. \A t \in Tables : res[t].complete
      BY <1>1, <2>2 DEF Verdict
    <3>7. (outcome' = "converged") <=> \A t \in Tables : res[t].converged
      BY <1>1, <2>2, <3>6 DEF Verdict
    <3> QED
      BY <1>1, <3>4, <3>5, <3>6, <3>7
  <2> QED
    BY <2>1, <2>2 DEF OutcomeInv
<1>5. TypeInv'
  BY <1>1 DEF VerifyInv, TypeInv
<1> QED
  BY <1>3, <1>4, <1>5 DEF VerifyInv

LEMMA StutterKeeps ==
  ASSUME VerifyInv, UNCHANGED vars PROVE VerifyInv'
<1>1. UNCHANGED <<wal, fault, applied, phase, next, wk, rk, deferred, res, failed, stopped, outcome>>
  BY DEF vars, world, pool
<1>2. Grows
  BY <1>1, StillGrows DEF VerifyInv
<1>3. PoolInv'
  BY <1>1, <1>2, PoolKeeps
<1>4. OutcomeInv' /\ TypeInv'
  BY <1>1 DEF VerifyInv, OutcomeInv, TypeInv, Busy
<1> QED
  BY <1>3, <1>4 DEF VerifyInv

LEMMA VerifyInit == Init => VerifyInv
<1> SUFFICES ASSUME Init PROVE VerifyInv
  OBVIOUS
<1>1. /\ wal = <<>> /\ applied = 0 /\ next = 1 /\ wk = [w \in 1..W |-> Idle] /\ rk = Idle
      /\ deferred = <<>> /\ res = [t \in Tables |-> NoResult] /\ outcome = "running"
  BY DEF Init
<1>2. fault \in [Rows -> Faults]
  <2>1. \A q \in Rows : fault[q] \in MayBe[q] /\ MayBe[q] \subseteq Faults
    BY VerificationAssumption DEF Init, Faults
  <2>2. fault \in [Rows -> UNION Range(MayBe)]
    BY DEF Init
  <2> QED
    BY <2>1, <2>2
<1>3. TypeInv
  <2>1. wal \in Seq([row : Rows, val : Values \cup {Absent}]) /\ applied \in 0..Len(wal)
    BY <1>1
  <2>2. deferred \in QueueType
    BY <1>1 DEF QueueType
  <2>3. wk \in [1..W -> BusyType \cup {Idle, Exit}] /\ rk \in RecheckType \cup {Idle} /\ next \in Nat \ {0}
    BY <1>1
  <2>4. res \in [Tables -> ResultType]
    BY <1>1, FreshIs
  <2> QED
    BY <1>2, <2>1, <2>2, <2>3, <2>4 DEF TypeInv
<1>4. \A w \in 1..W : wk[w].pc = "idle"
  BY <1>1, Kinds
<1>5. \A t \in Tables : FinalOK(t, res[t])
  <2>1. 0 <= Len(wal)
    BY <1>1
  <2> QED
    BY <1>1, <2>1, FreshIs DEF FinalOK
<1>6. PoolInv
  BY <1>1, <1>4, <1>5 DEF PoolInv, Busy
<1>7. OutcomeInv
  BY <1>1, <1>4 DEF OutcomeInv
<1> QED
  BY <1>3, <1>6, <1>7 DEF VerifyInv

LEMMA VerifyNext ==
  ASSUME VerifyInv, [Next]_vars PROVE VerifyInv'
<1>1. CASE (\E q \in Hot : Write(q)) \/ Apply \/ ApplierStops
  BY <1>1, WorldKeeps
<1>2. ASSUME NEW w \in 1..W, Work(w) \/ Deadline(w) \/ TableTimeout(w) \/ Fails(w) PROVE VerifyInv'
  <2>1. CASE Take(w)
    BY <2>1, TakeKeeps
  <2>2. CASE SampleWindow(w) \/ RecheckSource(w) \/ Mark(w) \/ WaitApplied(w)
    BY <2>2, SampleKeeps
  <2>3. CASE Probe(w) \/ RecheckTarget(w)
    BY <2>3, ProbeKeeps, RecheckTargetKeeps
  <2>4. CASE RecordedSource(w) \/ RecordedTarget(w) \/ NoneRecorded(w)
    BY <2>4, RecordedSourceKeeps, RecordedKeeps
  <2>5. CASE Deadline(w) \/ TableTimeout(w) \/ Fails(w)
    BY <2>5, DeadlineKeeps, TableTimeoutKeeps, FailsKeeps
  <2> QED
    BY <1>2, <2>1, <2>2, <2>3, <2>4, <2>5 DEF Work
<1>3. CASE Recheck \/ RecheckTimeout \/ RecheckFails
  BY <1>3, TakeDeferredKeeps, RecheckKeeps, JudgeKeeps, RecheckTimeoutKeeps, RecheckFailsKeeps
  DEF Recheck
<1>4. CASE FeederStops \/ Interrupt \/ Return
  BY <1>4, StopKeeps, ReturnKeeps
<1>5. CASE UNCHANGED vars
  BY <1>5, StutterKeeps
<1> QED
  BY <1>1, <1>2, <1>3, <1>4, <1>5 DEF Next

\* What the workers, the rechecker and the results hold is sound at every moment
\* of a run.
THEOREM VerifyInvariant == Spec => []VerifyInv
<1>1. VerifyInv /\ [Next]_vars => VerifyInv'
  BY VerifyNext
<1> QED
  BY <1>1, VerifyInit, PTL DEF Spec

\* The heap recheck (resolve: the source rows, then the marker, then the wait for
\* apply, then the target rows) reports a row whose target copy is right only
\* when the source wrote it again after it had been read.
THEOREM LagIsNotDivergenceAlways == Spec => []LagIsNotDivergence
<1>1. VerifyInv => LagIsNotDivergence
  <2> SUFFICES ASSUME VerifyInv, Hooks, NEW u \in Reports, u.by = "heap", fault[u.row] = "none"
               PROVE  Written(u.row, u.from, u.to)
    BY DEF LagIsNotDivergence
  <2>1. PICK t \in Tables : u \in res[t].unresolved
    BY DEF Reports
  <2>2. ReportOK(u)
    BY <2>1 DEF VerifyInv, PoolInv, FinalOK
  <2> QED
    BY <2>2 DEF ReportOK
<1> QED
  BY <1>1, VerifyInvariant, PTL

\* The deferred recheck (recheckCDC: the source before and after the confirmed
\* target read) reports a row whose target copy is right only when the source
\* changed it in between or had deleted it.
THEOREM StalledForCauseAlways == Spec => []StalledForCause
<1>1. VerifyInv => StalledForCause
  <2> SUFFICES ASSUME VerifyInv, Hooks, NEW u \in Reports, u.by = "recorded", fault[u.row] = "none"
               PROVE  Written(u.row, u.from, u.to) \/ SourceRow(u.row, u.from).val = Absent
    BY DEF StalledForCause
  <2>1. PICK t \in Tables : u \in res[t].unresolved
    BY DEF Reports
  <2>2. ReportOK(u)
    BY <2>1 DEF VerifyInv, PoolInv, FinalOK
  <2> QED
    BY <2>2 DEF ReportOK
<1> QED
  BY <1>1, VerifyInvariant, PTL

\* Run's verdict: "converged" has overlooked no faulty row but for the bound on
\* rechecks and a concurrent write of the row, and "diverged" names a row.
THEOREM VerdictIsSoundAlways == Spec => []VerdictIsSound
<1>1. VerifyInv => ConvergedIsSound
  <2> SUFFICES ASSUME VerifyInv, outcome = "converged", NEW t \in Tables \ Keyless,
                      NEW q \in Rows \ Ignored, fault[q] # "none", Steady(q)
               PROVE  /\ q \in Heap(t) => res[t].candidates > Threshold
                      /\ q \in Recorded[t] =>
                           fault[q] = "garbled" /\ Written(q, res[t].tbase, Len(wal))
    BY DEF ConvergedIsSound
  <2>1. Sick(q)
    BY DEF Sick
  <2>2. res[t].complete /\ res[t].converged
    BY DEF VerifyInv, OutcomeInv
  <2>3. FinalOK(t, res[t])
    BY DEF VerifyInv, PoolInv
  <2> QED
    BY <2>1, <2>2, <2>3 DEF FinalOK
<1>2. VerifyInv => DivergedNamesRow
  <2> SUFFICES ASSUME VerifyInv, outcome \in {"diverged", "converged"}
               PROVE  /\ \A t \in Tables : res[t].pending = {}
                      /\ outcome = "diverged" => \E u \in Reports : u.row \notin Ignored
    BY DEF DivergedNamesRow
  <2>1. \A t \in Tables : res[t].complete
    BY DEF VerifyInv, OutcomeInv
  <2>2. \A t \in Tables : FinalOK(t, res[t])
    BY DEF VerifyInv, PoolInv
  <2>3. \A t \in Tables : res[t].pending = {}
    BY <2>1, <2>2 DEF FinalOK
  <2>4. ASSUME outcome = "diverged" PROVE \E u \in Reports : u.row \notin Ignored
    <3>1. PICK t \in Tables : ~res[t].converged
      BY <2>4 DEF VerifyInv, OutcomeInv
    <3>2. PICK u : u \in res[t].unresolved
      BY <2>1, <2>2, <3>1 DEF FinalOK
    <3>3. u.row \notin Ignored
      BY <2>2, <3>2 DEF FinalOK, ReportOK
    <3>4. u \in Reports
      BY <3>2 DEF Reports
    <3> QED
      BY <3>3, <3>4
  <2> QED
    BY <2>3, <2>4
<1> QED
  BY <1>1, <1>2, VerifyInvariant, PTL DEF VerdictIsSound
=============================================================================
