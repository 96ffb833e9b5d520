---------------------------- MODULE Verification ----------------------------
(***************************************************************************)
(* `pgmigrate verify` against a source that is written and a target that   *)
(* follows: the table workers with their heap sample and its rechecks, the *)
(* rows the applier recorded, the single deferred recheck of those, and    *)
(* the verdict of the run.                                                 *)
(*                                                                         *)
(* The source is the log of its row changes and a read of it is the        *)
(* position it was made at; the target holds the changes up to `applied`.  *)
(* What is wrong on the target is fixed per row by `fault`.                *)
(***************************************************************************)
EXTENDS Integers, Sequences, FiniteSets, FiniteSetsExt, Functions

CONSTANTS
  T,          \* number of tables, in inventory order
  Keyless,    \* those without a usable key
  Windows,    \* heap sample: the rows of each window of each table
  Recorded,   \* rows the applier recorded, per table
  Exists,     \* rows the source has at the start
  Ignored,    \* rows of ignored applications
  MayBe,      \* what the target may have of a row
  Hot,        \* rows the applications write
  W,          \* --verify-workers
  Threshold,  \* RowThreshold
  MaxWrite,   \* bound on source writes
  Phases      \* phases the migration may be in when the run reads it

Tables == 1..T
Heap(t) == UNION {Windows[t][i] : i \in DOMAIN Windows[t]}
Rows == UNION {Heap(t) \cup Recorded[t] : t \in Tables}

ASSUME VerificationAssumption ==
  /\ T \in Nat \ {0} /\ W \in Nat \ {0} /\ Threshold \in Nat \ {0}
  /\ MaxWrite \in Nat /\ Keyless \subseteq Tables
  /\ \A t \in Tables : Windows[t] \in Seq(SUBSET Rows)
  /\ Rows \subseteq Nat /\ IsFiniteSet(Rows) /\ Exists \subseteq Rows /\ Ignored \subseteq Rows
  /\ MayBe \in [Rows -> SUBSET {"none", "missing", "stale", "garbled"}]
  /\ Hot \subseteq Rows
  /\ Phases \subseteq {"catchup", "follow", "drained"}

VARIABLES
  wal,       \* source: the row changes, in commit order
  fault,     \* target: what is wrong with a row
  applied,   \* target: how many changes it has
  applying,  \* the run process is applying
  phase,     \* the migration's phase when the run read it
  next,      \* feeder: the next table to hand out
  wk,        \* table workers
  rk,        \* the rechecker
  deferred,  \* results waiting for their recheck
  res,       \* results, by table
  failed,    \* some table's check returned an error
  stopped,   \* the caller canceled the run
  outcome    \* what the command returns

world == <<wal, fault, applied, applying, phase>>
pool  == <<next, wk, rk, deferred, res, failed, stopped, outcome>>
vars  == <<world, pool>>

Absent == 0
Wrong  == 3
Values == {1, 2}

-----------------------------------------------------------------------------
(***************************************************************************)
(* Rows at a position.  A version (xmin) is the position of the last       *)
(* change, on either side.                                                 *)
(***************************************************************************)

LastWrite(r, p) == Max({0} \cup {i \in 1..p : wal[i].row = r})

SourceRow(r, p) ==
  LET i == LastWrite(r, p) IN
  [val |-> IF i > 0 THEN wal[i].val ELSE IF r \in Exists THEN 1 ELSE Absent,
   version |-> i]

\* A missing row was never copied and its changes have no effect; a stale one
\* keeps its first contents; a garbled one is written, with wrong contents.
TargetRow(r, a) ==
  LET row == SourceRow(r, a) IN
  CASE fault[r] = "none"    -> row
    [] fault[r] = "missing" -> [val |-> Absent, version |-> 0]
    [] fault[r] = "stale"   -> [val |-> Wrong, version |-> 0]
    [] fault[r] = "garbled" -> IF row.val = Absent THEN row ELSE [row EXCEPT !.val = Wrong]

\* compareRows: source rows that the target lacks or has with other contents.
CompareRows(rows, p, a) ==
  {r \in rows : SourceRow(r, p).val \notin {Absent, TargetRow(r, a).val}}

\* excludeDiffs: a mismatch of an ignored application has no part in the verdict.
ExcludeDiffs(rows) == rows \ Ignored

\* candidateKeys: heap rechecks are bounded.
CandidateKeys(rows) ==
  {r \in rows : Cardinality({q \in rows : q < r}) < Threshold}

-----------------------------------------------------------------------------
Idle == [pc |-> "idle"]
Exit == [pc |-> "exit"]
NoResult == [complete |-> FALSE, converged |-> FALSE, cut |-> FALSE,
             candidates |-> 0, unresolved |-> {}, pending |-> {},
             base |-> 0, tbase |-> 0]

Hooks == phase = "follow"

\* runCtx
canceled == failed \/ stopped

Init ==
  /\ wal = <<>> /\ applied = 0
  /\ fault \in {f \in [Rows -> UNION Range(MayBe)] : \A r \in Rows : f[r] \in MayBe[r]}
  /\ phase \in Phases
  /\ applying = (phase # "drained")
  /\ next = 1 /\ wk = [w \in 1..W |-> Idle] /\ rk = Idle
  /\ deferred = <<>> /\ res = [t \in Tables |-> NoResult]
  /\ failed = FALSE /\ stopped = FALSE
  /\ outcome = "running"

-----------------------------------------------------------------------------
(***************************************************************************)
(* The servers and the run process, for as long as the outcome is open.    *)
(***************************************************************************)

Open == outcome = "running" /\ ~canceled

Write(r) ==
  /\ Open /\ Len(wal) < MaxWrite
  /\ \E v \in (Values \cup {Absent}) \ {SourceRow(r, Len(wal)).val} :
       wal' = Append(wal, [row |-> r, val |-> v])
  /\ UNCHANGED <<fault, applied, applying, phase, pool>>

Apply ==
  /\ Open /\ applying
  /\ \E a \in (applied + 1)..Len(wal) : applied' = a
  /\ UNCHANGED <<wal, fault, applying, phase, pool>>

\* The run process stops, or has drained.
ApplierStops ==
  /\ Open /\ applying /\ applying' = FALSE
  /\ UNCHANGED <<wal, fault, applied, phase, pool>>

-----------------------------------------------------------------------------
(***************************************************************************)
(* verifyTable.                                                            *)
(***************************************************************************)

\* finish
Finish(r, cut) ==
  LET open == r.pending # {} \/ cut IN
  [r EXCEPT !.complete = @ /\ ~open, !.cut = cut, !.converged = @ /\ ~open]

Start(t) == [pc |-> IF Windows[t] = <<>> THEN "recorded" ELSE "sample", t |-> t, window |-> 1, at |-> 0, mark |-> 0, late |-> FALSE,
             keys |-> {}, candidates |-> {}, unresolved |-> {}]

Fresh == [NoResult EXCEPT !.complete = TRUE, !.converged = TRUE]

Take(w) ==
  /\ wk[w].pc = "idle" /\ next <= T
  /\ next' = next + 1
  /\ IF next \in Keyless
       THEN res' = [res EXCEPT ![next] = Finish(Fresh, FALSE)] /\ UNCHANGED wk
       ELSE wk' = [wk EXCEPT ![w] = Start(next)] /\ UNCHANGED res
  /\ UNCHANGED <<world, rk, deferred, failed, stopped, outcome>>

\* Every statement of a canceled run fails.
At(w, pc) == wk[w].pc = pc /\ ~canceled
Goes(w, s) == wk' = [wk EXCEPT ![w] = s]
Works == UNCHANGED <<world, next, rk, deferred, res, failed, stopped, outcome>>

SampleWindow(w) ==
  /\ At(w, "sample")
  /\ Goes(w, [wk[w] EXCEPT !.pc = "probe", !.at = Len(wal)])
  /\ Works

Probe(w) ==
  LET s == wk[w]
      found == s.candidates \cup ExcludeDiffs(
                 CompareRows(Windows[s.t][s.window], s.at, applied)) IN
  /\ At(w, "probe")
  /\ Goes(w, [s EXCEPT
       !.candidates = found, !.at = 0,
       !.window = @ + 1,
       !.pc = IF s.window < Len(Windows[s.t]) THEN "sample"
              ELSE IF found = {} THEN "recorded" ELSE "source",
       !.keys = IF s.window < Len(Windows[s.t]) THEN {} ELSE CandidateKeys(found)])
  /\ Works

\* resolve reads the source rows, emits the marker, waits until apply has passed
\* it and reads the target rows.
RecheckSource(w) ==
  /\ At(w, "source")
  /\ Goes(w, [wk[w] EXCEPT !.pc = IF Hooks THEN "mark" ELSE "target", !.at = Len(wal)])
  /\ Works

\* Boundary: the marker is after everything the source has committed.
Boundary == Len(wal)

Mark(w) ==
  /\ At(w, "mark")
  /\ Goes(w, [wk[w] EXCEPT !.pc = "wait", !.mark = Boundary])
  /\ Works

\* The wait ends with the marker emitted, not applied.
BugPassed(mark) == mark <= Len(wal)

\* waitTargetProgress
Passed(mark) == applied >= mark

WaitApplied(w) ==
  /\ At(w, "wait") /\ Passed(wk[w].mark)
  /\ Goes(w, [wk[w] EXCEPT !.pc = "target", !.mark = 0])
  /\ Works

\* Rechecked until it agrees.
BugOutOfTime(s) == ~Hooks

\* Without an applier one pass has to do.
OutOfTime(s) == s.late \/ ~Hooks

Report(rows, by, from, to) == {[row |-> r, by |-> by, from |-> from, to |-> to] : r \in rows}

RecheckTarget(w) ==
  LET s == wk[w]
      diffs == ExcludeDiffs(CompareRows(s.keys, s.at, applied)) IN
  /\ At(w, "target")
  /\ IF diffs = {} \/ OutOfTime(s)
       THEN Goes(w, [s EXCEPT !.pc = "recorded", !.keys = {}, !.at = 0, !.late = FALSE,
                              !.unresolved = Report(diffs, "heap", s.at, applied)])
       ELSE Goes(w, [s EXCEPT !.pc = "source", !.keys = diffs, !.at = 0])
  /\ Works

\* The budget is looked at after a recheck, and ends none that is under way.
Deadline(w) ==
  /\ \E pc \in {"source", "mark", "wait", "target"} : At(w, pc)
  /\ Hooks /\ ~wk[w].late
  /\ Goes(w, [wk[w] EXCEPT !.late = TRUE])
  /\ Works

Result(s, pend) ==
  [Fresh EXCEPT !.candidates = Cardinality(s.candidates), !.unresolved = s.unresolved,
                !.pending = pend, !.base = s.at, !.tbase = applied,
                !.converged = s.unresolved = {} /\ pend = {}]

\* The result of a table goes to the rechecker when rows of it are pending.
Hand(w, pend) ==
  LET s == wk[w]
      r == Finish(Result(s, pend), FALSE) IN
  /\ Goes(w, Idle)
  /\ IF pend # {}
       THEN deferred' = Append(deferred, [t |-> s.t, r |-> r]) /\ UNCHANGED res
       ELSE res' = [res EXCEPT ![s.t] = r] /\ UNCHANGED deferred
  /\ UNCHANGED <<world, next, rk, failed, stopped, outcome>>

\* verifyCDC: the recorded rows, read once on either side.
RecordedSource(w) ==
  /\ At(w, "recorded") /\ Recorded[wk[w].t] # {}
  /\ Goes(w, [wk[w] EXCEPT !.pc = "versions", !.at = Len(wal)])
  /\ Works

RecordedTarget(w) ==
  /\ At(w, "versions")
  /\ Hand(w, ExcludeDiffs(CompareRows(Recorded[wk[w].t], wk[w].at, applied)))

NoneRecorded(w) ==
  /\ At(w, "recorded") /\ Recorded[wk[w].t] = {}
  /\ Hand(w, {})

Busy(w) == wk[w].pc \notin {"idle", "exit"}

\* cutShort: the table's timeout, whatever the check is doing.
TableTimeout(w) ==
  /\ Busy(w) /\ ~canceled
  /\ res' = [res EXCEPT ![wk[w].t] = Finish(Fresh, TRUE)]
  /\ Goes(w, Idle)
  /\ UNCHANGED <<world, next, rk, deferred, failed, stopped, outcome>>

\* Any other error, and a canceled run: the worker ends and stops the others.
Fails(w) ==
  /\ Busy(w)
  /\ Goes(w, Exit) /\ failed' = TRUE
  /\ UNCHANGED <<world, next, rk, deferred, res, stopped, outcome>>

-----------------------------------------------------------------------------
(***************************************************************************)
(* recheckCDC: one worker, one decision a row.                             *)
(***************************************************************************)

RAt(pc) == rk.pc = pc /\ ~canceled
Rechecks == UNCHANGED <<world, next, wk, deferred, res, failed, stopped, outcome>>

\* After the delay; the queue is served in order.
TakeDeferred ==
  /\ rk.pc = "idle" /\ deferred # <<>>
  /\ rk' = [pc |-> "before", t |-> Head(deferred).t, r |-> Head(deferred).r,
            before |-> 0, mark |-> 0, to |-> 0]
  /\ deferred' = Tail(deferred)
  /\ UNCHANGED <<world, next, wk, res, failed, stopped, outcome>>

Before ==
  /\ RAt("before")
  /\ rk' = [rk EXCEPT !.pc = IF Hooks THEN "mark" ELSE "target", !.before = Len(wal)]
  /\ Rechecks

ConfirmMark ==
  /\ RAt("mark")
  /\ rk' = [rk EXCEPT !.pc = "wait", !.mark = Boundary]
  /\ Rechecks

Confirm ==
  /\ RAt("wait") /\ Passed(rk.mark)
  /\ rk' = [rk EXCEPT !.pc = "target", !.mark = 0]
  /\ Rechecks

Target ==
  /\ RAt("target")
  /\ rk' = [rk EXCEPT !.pc = "after", !.to = applied]
  /\ Rechecks

\* unchangedSource
Unchanged(r, p, q) ==
  SourceRow(r, q).val # Absent /\ SourceRow(r, q) = SourceRow(r, p)

SourceChanged(r, k) ==
  ~Unchanged(r, k.r.base, k.before) \/ ~Unchanged(r, k.r.base, Len(wal))

\* A change on either side is progress.
BugAdvanced(r, k) == SourceChanged(r, k) \/ TargetRow(r, k.to) # TargetRow(r, k.r.tbase)

\* advancedTarget, and a deletion on both sides.
Advanced(r, k) ==
  LET old == TargetRow(r, k.r.tbase)
      new == TargetRow(r, k.to) IN
  IF new.val # Absent THEN new # old
  ELSE SourceChanged(r, k) /\ SourceRow(r, Len(wal)).val = Absent /\ old.val # Absent

\* A match counts only for a row that is still the one first seen.
BugMatched(r, k) ==
  /\ ~SourceChanged(r, k)
  /\ TargetRow(r, k.to).val = SourceRow(r, Len(wal)).val

\* A match counts while the source stood still across the target read.
Matched(r, k) ==
  /\ Unchanged(r, k.before, Len(wal))
  /\ TargetRow(r, k.to).val = SourceRow(r, Len(wal)).val

\* An ignored application is known from the source row, when there still is one.
IgnoredNow(r) == r \in Ignored /\ SourceRow(r, Len(wal)).val # Absent

\* The second source read, and the outcome of every pending row.
Judge ==
  LET bad == {r \in rk.r.pending : ~Matched(r, rk) /\ ~IgnoredNow(r) /\ ~Advanced(r, rk)}
      all == rk.r.unresolved \cup Report(bad, "recorded", rk.before, Len(wal)) IN
  /\ RAt("after")
  /\ res' = [res EXCEPT ![rk.t] =
       Finish([rk.r EXCEPT !.pending = {}, !.unresolved = all,
                           !.complete = TRUE, !.converged = all = {}], FALSE)]
  /\ rk' = Idle
  /\ UNCHANGED <<world, next, wk, deferred, failed, stopped, outcome>>

\* The table's timeout, or the bound on the confirmation.
RecheckTimeout ==
  /\ rk.pc # "idle" /\ ~canceled
  /\ res' = [res EXCEPT ![rk.t] = Finish(rk.r, TRUE)]
  /\ rk' = Idle
  /\ UNCHANGED <<world, next, wk, deferred, failed, stopped, outcome>>

\* An error stops the workers; the queue is drained all the same.
RecheckFails ==
  /\ rk.pc # "idle"
  /\ rk' = Idle /\ failed' = TRUE
  /\ UNCHANGED <<world, next, wk, deferred, res, stopped, outcome>>

-----------------------------------------------------------------------------
(***************************************************************************)
(* Run and the command.                                                    *)
(***************************************************************************)

\* The feeder may see the cancellation first.
FeederStops ==
  /\ canceled /\ next <= T /\ next' = T + 1
  /\ UNCHANGED <<world, wk, rk, deferred, res, failed, stopped, outcome>>

Interrupt ==
  /\ ~canceled /\ outcome = "running"
  /\ stopped' = TRUE
  /\ UNCHANGED <<world, next, wk, rk, deferred, res, failed, outcome>>

\* An unfinished comparison is not a divergence.
Verdict ==
  IF failed \/ stopped THEN "error"
  ELSE IF \E t \in Tables : ~res[t].complete THEN "incomplete"
  ELSE IF \E t \in Tables : ~res[t].converged THEN "diverged"
  ELSE "converged"

Ended(w) == wk[w].pc = "exit" \/ (wk[w].pc = "idle" /\ next > T)

\* Workers first, then the rechecker, then the results.
Return ==
  /\ outcome = "running"
  /\ \A w \in 1..W : Ended(w)
  /\ deferred = <<>> /\ rk.pc = "idle"
  /\ outcome' = Verdict
  /\ UNCHANGED <<world, next, wk, rk, deferred, res, failed, stopped>>

Work(w) ==
  \/ Take(w) \/ SampleWindow(w) \/ Probe(w)
  \/ RecheckSource(w) \/ Mark(w) \/ WaitApplied(w) \/ RecheckTarget(w)
  \/ RecordedSource(w) \/ RecordedTarget(w) \/ NoneRecorded(w)

Recheck == TakeDeferred \/ Before \/ ConfirmMark \/ Confirm \/ Target \/ Judge

Next ==
  \/ \E r \in Hot : Write(r)
  \/ Apply \/ ApplierStops
  \/ \E w \in 1..W : Work(w) \/ Deadline(w) \/ TableTimeout(w) \/ Fails(w)
  \/ Recheck \/ RecheckTimeout \/ RecheckFails
  \/ FeederStops \/ Interrupt \/ Return

Spec == Init /\ [][Next]_vars

\* Goroutines run, deadlines pass, and a wait for apply ends in one of the two
\* ways; whether anything is applied is left open.
FairSpec ==
  /\ Spec
  /\ \A w \in 1..W :
       /\ WF_vars(Work(w)) /\ WF_vars(Deadline(w))
       /\ WF_vars((canceled \/ At(w, "wait")) /\ Fails(w))
  /\ WF_vars(Recheck)
  /\ WF_vars((canceled \/ RAt("wait")) /\ (RecheckTimeout \/ RecheckFails))
  /\ WF_vars(FeederStops) /\ WF_vars(Return)

-----------------------------------------------------------------------------
Reports == UNION {res[t].unresolved : t \in Tables}

Written(r, p, q) == \E i \in (p + 1)..q : wal[i].row = r

\* Replication latency is never reported as divergence by the heap check while
\* apply can be waited for: a row whose target copy is right is reported only
\* when it was written again after the recheck had read the source.
LagIsNotDivergence ==
  Hooks => \A u \in Reports :
    u.by = "heap" /\ fault[u.row] = "none" => Written(u.row, u.from, u.to)

\* The deferred recheck reports a row whose target copy is right only when the
\* source changed while the target was read, or had deleted the row.
StalledForCause ==
  Hooks => \A u \in Reports :
    u.by = "recorded" /\ fault[u.row] = "none" =>
      \/ Written(u.row, u.from, u.to)
      \/ SourceRow(u.row, u.from).val = Absent

Steady(r) == r \in Exists /\ \A i \in 1..Len(wal) : wal[i].row = r => wal[i].val # Absent

\* A run that says converged has missed no faulty row that it looked at and the
\* source kept: of the heap sample, up to the bound on rechecks; of the recorded
\* rows, unless replication wrote the row while it was watched.
ConvergedIsSound ==
  outcome = "converged" =>
    \A t \in Tables \ Keyless : \A r \in Rows \ Ignored :
      fault[r] # "none" /\ Steady(r) =>
        /\ r \in Heap(t) => res[t].candidates > Threshold
        /\ r \in Recorded[t] =>
             fault[r] = "garbled" /\ Written(r, res[t].tbase, Len(wal))

\* A run that says diverged names a row: a timeout, an error and an
\* interruption are not divergence, no pending row is left behind, and a row of
\* an ignored application decides nothing.
DivergedNamesRow ==
  outcome \in {"diverged", "converged"} =>
    /\ \A t \in Tables : res[t].pending = {}
    /\ outcome = "diverged" => \E u \in Reports : u.row \notin Ignored

\* Neither verdict is wrong.
VerdictIsSound == ConvergedIsSound /\ DivergedNamesRow

\* The run ends, whatever the applier does: a hot or faulty row is rechecked
\* no longer than the budget, and no worker waits for another.
Ends == <>(outcome # "running")
=============================================================================
