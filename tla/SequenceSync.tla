---------------------------- MODULE SequenceSync ----------------------------
(***************************************************************************)
(* SynchronizeSequences, run by `pgmigrate sequences` and again by the     *)
(* cutover, while the source and the target both hand out values.  Each    *)
(* sequence is read on the source and set on the target by two statements, *)
(* with the applications of both servers between them.                     *)
(*                                                                         *)
(* The offset is a distance between values: a sequence that counts by more *)
(* than one has room for fewer calls of nextval.                           *)
(***************************************************************************)
EXTENDS Integers

CONSTANTS
  K,          \* number of selected sequences, in inventory order
  Increment,  \* what each counts by
  First,      \* the value they start from
  Offset,     \* --sequence-offset
  Limit,      \* math.MaxInt64, scaled down; math.MinInt64 is -Limit - 1
  MaxSync     \* bound on synchronizations

ASSUME SyncAssumption ==
  /\ K \in Nat /\ Limit \in Nat /\ Offset \in Nat /\ MaxSync \in Nat
  /\ First \in (-Limit - 1)..Limit
  /\ Increment \in [1..K -> Int \ {0}]

VARIABLES
  src,     \* source sequences: [last, called]
  tgt,     \* target sequences: [last, called]
  given,   \* values the source has handed out
  used,    \* how far they reach from where the sequence started
  fresh,   \* values the target has handed out since it was set
  set,     \* sequences the command has set on the target
  base,    \* used when the value the target has was read
  read,    \* command: what it read, and used at the time
  at,      \* command: the sequence it is at, 0 when not running
  syncs    \* synchronizations so far

syncVars == <<src, tgt, given, used, fresh, set, base, read, at, syncs>>

Seqs   == 1..K
Bigint == (-Limit - 1)..Limit
Value  == [last : Bigint, called : BOOLEAN]
NoRead == [at |-> 0]

Step(s) == IF Increment[s] < 0 THEN -Increment[s] ELSE Increment[s]

SyncInit ==
  /\ src = [s \in Seqs |-> [last |-> First, called |-> FALSE]]
  /\ tgt = src
  /\ given = [s \in Seqs |-> {}] /\ fresh = given
  /\ used = [s \in Seqs |-> 0] /\ base = used
  /\ set = {} /\ read = NoRead /\ at = 0 /\ syncs = 0

\* nextval: the first call returns last_value itself.
NextVal(q, s) == IF q.called THEN q.last + Increment[s] ELSE q.last

SourceNext(s) ==
  LET v == NextVal(src[s], s) IN
  /\ v \in Bigint
  /\ src' = [src EXCEPT ![s] = [last |-> v, called |-> TRUE]]
  /\ given' = [given EXCEPT ![s] = @ \cup {v}]
  /\ used' = [used EXCEPT ![s] = @ + Step(s)]
  /\ UNCHANGED <<tgt, fresh, set, base, read, at, syncs>>

\* The target takes writes that need a sequence once it was set.
TargetNext(s) ==
  LET v == NextVal(tgt[s], s) IN
  /\ s \in set /\ v \in Bigint
  /\ tgt' = [tgt EXCEPT ![s] = [last |-> v, called |-> TRUE]]
  /\ fresh' = [fresh EXCEPT ![s] = @ \cup {v}]
  /\ UNCHANGED <<src, given, used, set, base, read, at, syncs>>

SyncStart ==
  /\ at = 0 /\ syncs < MaxSync
  /\ at' = IF K = 0 THEN 0 ELSE 1
  /\ syncs' = syncs + 1
  /\ UNCHANGED <<src, tgt, given, used, fresh, set, base, read>>

\* The offset is added whatever the direction.
BugDelta(s) == Offset

\* The offset, in the direction of the sequence.
Delta(s) == IF Increment[s] < 0 THEN -Offset ELSE Offset

\* The overflow check, written without an overflow.
Fits(last, d) ==
  /\ d > 0 => last <= Limit - d
  /\ d < 0 => last >= -Limit - 1 - d

\* SELECT last_value, is_called; an offset out of range ends the command with
\* the sequences before this one set.
SyncRead ==
  /\ at \in Seqs /\ read = NoRead
  /\ IF Fits(src[at].last, Delta(at))
       THEN /\ read' = [at |-> at, value |-> src[at].last + Delta(at),
                        called |-> src[at].called, used |-> used[at]]
            /\ UNCHANGED at
       ELSE at' = 0 /\ UNCHANGED read
  /\ UNCHANGED <<src, tgt, given, used, fresh, set, base, syncs>>

\* SELECT setval(...) on the target.
SyncSet ==
  /\ read # NoRead
  /\ tgt' = [tgt EXCEPT ![at] = [last |-> read.value, called |-> read.called]]
  /\ base' = [base EXCEPT ![at] = read.used]
  /\ fresh' = [fresh EXCEPT ![at] = {}] /\ set' = set \cup {at}
  /\ read' = NoRead /\ at' = IF at = K THEN 0 ELSE at + 1
  /\ UNCHANGED <<src, given, used, syncs>>

\* The command stops: a connection is lost or it is killed.
SyncStop ==
  /\ at # 0 /\ at' = 0 /\ read' = NoRead
  /\ UNCHANGED <<src, tgt, given, used, fresh, set, base, syncs>>

SyncNext ==
  \/ \E s \in Seqs : SourceNext(s) \/ TargetNext(s)
  \/ SyncStart \/ SyncRead \/ SyncSet \/ SyncStop

SyncSpec == SyncInit /\ [][SyncNext]_syncVars

-----------------------------------------------------------------------------
\* Every variable has its type; the target's values fit a bigint.
SyncTypeOK ==
  /\ src \in [Seqs -> Value] /\ tgt \in [Seqs -> Value]
  /\ given \in [Seqs -> SUBSET Bigint]
  /\ fresh \in [Seqs -> SUBSET Bigint]
  /\ set \subseteq Seqs
  /\ used \in [Seqs -> Nat] /\ base \in [Seqs -> Nat]
  /\ at \in 0..K /\ syncs \in 0..MaxSync
  /\ read \in {NoRead} \cup [at : Seqs, value : Bigint, called : BOOLEAN, used : Nat]

\* As long as the source has moved no further than the offset since its value
\* was read, what the target handed out since it was set collides with nothing the
\* source ever handed out, allocations between the read and the set included.
OffsetIsRoom ==
  \A s \in Seqs :
    s \in set /\ used[s] - base[s] <= Offset
      => fresh[s] \cap given[s] = {}

=============================================================================
