----------------------------- MODULE RowReplay -----------------------------
(***************************************************************************)
(* How the applier turns the changes of a batch of source transactions     *)
(* into statements: which changes share a statement, which form it takes   *)
(* (insert, upsert by primary key, batched, selective or single update,    *)
(* delete, truncate), and what each does to the rows of the target.        *)
(*                                                                         *)
(* A relation has the columns id, u and w.  Its kind says which of them    *)
(* are unique, which identify a row in the stream, and what the target's   *)
(* catalog admits; a large w is stored out of line, and the stream leaves  *)
(* it out of an update that does not change it.  The transports of one     *)
(* statement (COPY, staging table, arrays, VALUES) have the same effect    *)
(* and are not told apart, nor are the options of a TRUNCATE.              *)
(*                                                                         *)
(* This is replay outside of claims: a batch of transactions in one target *)
(* transaction, or one transaction alone.  The lanes of a claim first run  *)
(* through queueParallelReplayLane, which groups their changes by relation *)
(* and keeps only the newest full update of a key; that is not modelled.   *)
(***************************************************************************)
EXTENDS Integers, Sequences

CONSTANTS
  Rel,         \* published relations
  Schemas,     \* the kinds that the relations may be of
  Id, U, W,    \* values of the columns
  Big,         \* values of w stored out of line
  Start,       \* rows of each relation when the stream begins
  Fresh,       \* rows that the application may insert into each
  ChunkRows,   \* most rows of a statement
  MaxTx, MaxChange   \* bounds on source transactions and changes

Col == {"id", "u", "w"}
Row == [id : Id, u : U, w : W]

ASSUME KindAssumption ==
  \A k \in {schema[r] : schema \in Schemas, r \in Rel} :
    /\ k.identity \in {"default", "index", "full"}
    /\ {k.pk, k.unique, k.arbiter, k.setDML, k.lane, k.selective} \subseteq BOOLEAN
    /\ k.identity = "default" => k.pk
    /\ k.identity = "index" => k.unique
    /\ k.arbiter => k.pk
    /\ k.lane => k.pk /\ k.setDML
    /\ k.selective => k.setDML

ASSUME BoundAssumption ==
  /\ Start \in [Rel -> SUBSET Row] /\ Fresh \in [Rel -> SUBSET Row] /\ Big \subseteq W
  /\ ChunkRows \in Nat \ {0} /\ MaxTx \in Nat /\ MaxChange \in Nat

VARIABLES
  kind,     \* kind of each relation, the same on both sides
  source,   \* source: rows of each relation
  log,      \* stream: the changes, those of an open transaction last
  ends,     \* stream: where each committed transaction ends in it
  states,   \* the source's rows after each change
  target,   \* target: committed rows
  applied,  \* target: recorded progress, a number of transactions
  pc,       \* applier: "idle", "run" or "failed"
  work,     \* applier: rows as its open transaction sees them
  batch,    \* applier: transactions in it
  path,     \* applier: how they are replayed: "batch", "serial" or "spilled"
  plan,     \* applier: changes still to replay, positions of the stream
  stretch,  \* applier: updates left of the call of applyLegacyUpdates
  alone,    \* applier: that call had a single update
  masks     \* applier: columns to write of the updates it has inspected

srcVars == <<kind, source, log, ends, states>>
vars == <<srcVars, target, applied, pc, work, batch, path, plan, stretch, alone, masks>>

Toast == -1
Null == -2

ASSUME TupleAssumption == {Toast, Null} \cap (Id \cup U \cup W) = {}

Init ==
  /\ kind \in Schemas
  /\ source = Start /\ target = source
  /\ log = << >> /\ ends = << >> /\ states = << >>
  /\ applied = 0 /\ pc = "idle" /\ work = source /\ batch = 0 /\ path = "serial"
  /\ plan = << >> /\ stretch = 0 /\ alone = FALSE /\ masks = << >>

-----------------------------------------------------------------------------
(***************************************************************************)
(* Relations.                                                              *)
(***************************************************************************)

\* The constraints of a relation: the primary key and the unique index.
Legal(k, T) ==
  \A a, b \in T :
    a # b => (k.pk => a.id # b.id) /\ (k.unique => a.u # b.u)

ASSUME StartAssumption ==
  \A schema \in Schemas, r \in Rel : Legal(schema[r], Start[r])

\* The columns the stream flags as parts of the replica identity.
Key(k) ==
  CASE k.identity = "default" -> {"id"}
    [] k.identity = "index"   -> {"u"}
    [] k.identity = "full"    -> Col

\* Columns of a unique or exclusion index, which is what conflicting records.
Conflicting(k) ==
  (IF k.pk THEN {"id"} ELSE {}) \cup (IF k.unique THEN {"u"} ELSE {})

\* batchUpdateIdentityColumns: none where rows are matched on all columns.
IdentityColumns(k) ==
  IF ~k.setDML \/ k.identity = "full" THEN {} ELSE Key(k)

\* primaryKeyDeleteColumns: the stream identifies rows by the primary key.
DeletesByKey(k) == k.setDML /\ k.pk /\ "id" \in Key(k)

Agrees(row, tuple, cols) == \A c \in cols : row[c] = tuple[c]

One(S) == \E x \in S : S = {x}

-----------------------------------------------------------------------------
(***************************************************************************)
(* The source and its stream.                                              *)
(***************************************************************************)

KeyTuple(k, row) == [c \in Col |-> IF c \in Key(k) THEN row[c] ELSE Null]

\* What the stream says of an update: the old identity where it changed.
OldOf(k, row, new) ==
  IF k.identity = "full" \/ ~Agrees(row, new, Key(k))
    THEN <<KeyTuple(k, row)>> ELSE << >>

NewOf(row, new) ==
  [new EXCEPT !.w = IF row.w = new.w /\ row.w \in Big THEN Toast ELSE @]

\* from and to are the source's rows, which the applier does not see.
Changed(op, r, old, new, from, to) ==
  [op |-> op, rel |-> r, tx |-> Len(ends) + 1, old |-> old, new |-> new,
   from |-> from, to |-> to]

\* Where the first t transactions of the stream end.
End(t) == IF t = 0 THEN 0 ELSE ends[t]

InTransaction == Len(log) > End(Len(ends))

Writes(r, T, change) ==
  /\ Legal(kind[r], T)
  /\ source' = [source EXCEPT ![r] = T]
  /\ log' = Append(log, change) /\ states' = Append(states, source')
  /\ UNCHANGED <<kind, ends, target, applied, pc, work, batch, path, plan, stretch,
                 alone, masks>>

SourceInsert(r, row) ==
  /\ row \notin source[r]
  /\ Writes(r, source[r] \cup {row},
            Changed("insert", r, << >>, row, row, row))

\* A column at a time; two columns are two updates.
SourceUpdate(r, row, new) ==
  /\ row \in source[r] /\ new \notin source[r]
  /\ One({c \in Col : row[c] # new[c]})
  /\ Writes(r, (source[r] \ {row}) \cup {new},
            Changed("update", r, OldOf(kind[r], row, new), NewOf(row, new),
                    row, new))

SourceDelete(r, row) ==
  /\ row \in source[r]
  /\ Writes(r, source[r] \ {row},
            Changed("delete", r, <<KeyTuple(kind[r], row)>>, row, row, row))

SourceTruncate(r) ==
  /\ source[r] # {}
  /\ LET any == CHOOSE row \in source[r] : TRUE IN
       Writes(r, {}, Changed("truncate", r, << >>, any, any, any))

SourceCommit ==
  /\ pc = "idle" /\ InTransaction
  /\ ends' = Append(ends, Len(log))
  /\ UNCHANGED <<kind, source, log, states, target, applied, pc, work, batch, path,
                 plan, stretch, alone, masks>>

-----------------------------------------------------------------------------
(***************************************************************************)
(* Planning: in which order the changes are replayed, and which neighbours *)
(* in that order share a statement.                                        *)
(***************************************************************************)

\* The positions of the next n source transactions.
Pending(n) == (End(applied) + 1) .. End(applied + n)

LaneSafe(c) == kind[c.rel].lane /\ c.op # "truncate"

\* planRelationBatchedChanges: safe epochs and ordered barriers in turn; what is
\* replayed together is a barrier, or the changes of a relation in a safe epoch.
InLane(h, g) ==
  /\ \A i \in h..g : LaneSafe(log[i]) = LaneSafe(log[g])
  /\ LaneSafe(log[g]) => log[h].rel = log[g].rel

\* The first change of the lane of g.
Lane(n, g) ==
  LET lane == {h \in Pending(n) : h <= g /\ InLane(h, g)}
  IN CHOOSE h \in lane : \A i \in lane : h <= i

Orders(n) == [1 .. (End(applied + n) - End(applied)) -> Pending(n)]

\* Lane by lane, and in a lane as in the stream.
LaneOrder(n, order) ==
  LET lane == [g \in Pending(n) |-> Lane(n, g)] IN
    /\ \A g \in Pending(n) : \E i \in DOMAIN order : order[i] = g
    /\ \A i, j \in DOMAIN order :
         i < j => \/ lane[order[i]] < lane[order[j]]
                  \/ lane[order[i]] = lane[order[j]] /\ order[i] < order[j]

StreamOrder(n) == [i \in 1 .. (End(applied + n) - End(applied)) |-> End(applied) + i]

\* orderedReplayItemsShareStatement, for truncates of like options.
ShareStatement(a, b) ==
  /\ a.tx = b.tx /\ a.op = b.op
  /\ a.op # "truncate" => a.rel = b.rel

\* queueRelationBatchedChanges: the lanes of an epoch run by run.
BatchRun(a, b) ==
  IF LaneSafe(a) THEN a.rel = b.rel /\ a.op = b.op ELSE ShareStatement(a, b)

\* queueTransactionChanges: deletes one by one.
SerialRun(a, b) == ShareStatement(a, b) /\ a.op # "delete"

\* applySpilledChanges: updates one by one as well.
SpillRun(a, b) == ShareStatement(a, b) /\ a.op \notin {"delete", "update"}

\* A target transaction for the next n source transactions, of which a spilled
\* one is streamed from its file.
Begin(n, order, how) ==
  /\ batch' = n /\ path' = how
  /\ plan' = order
  /\ work' = target /\ pc' = "run"
  /\ UNCHANGED <<srcVars, target, applied, stretch, alone, masks>>

Waiting == pc = "idle" /\ ~InTransaction /\ applied < Len(ends)

BeginBatch ==
  /\ Waiting
  /\ \E n \in 1 .. (Len(ends) - applied) : \E order \in Orders(n) :
       LaneOrder(n, order) /\ Begin(n, order, "batch")

BeginSerial == Waiting /\ Begin(1, StreamOrder(1), "serial")
BeginSpilled == Waiting /\ Begin(1, StreamOrder(1), "spilled")

-----------------------------------------------------------------------------
(***************************************************************************)
(* What a statement does: the tables that it may leave, none if it fails   *)
(* or affects another number of rows than expected.                        *)
(***************************************************************************)
If(ok, T) == IF ok THEN {T} ELSE {}

Predicate(c) == IF c.old = << >> THEN c.new ELSE c.old[1]

\* appendPredicate: the rows that a single UPDATE or DELETE finds.
Matched(k, T, c) == {row \in T : Agrees(row, Predicate(c), Key(k))}

Assigned(row, tuple, cols) ==
  [c \in Col |-> IF c \in cols /\ tuple[c] # Toast THEN tuple[c] ELSE row[c]]

InsertRows(k, T, s) ==
  LET new == {s[i].new : i \in DOMAIN s} IN
    If(/\ \A i, j \in DOMAIN s : i # j => s[i].new # s[j].new
       /\ new \cap T = {} /\ Legal(k, T \cup new),
       T \cup new)

\* The table once the first n rows of an upsert are in it, each inserted or in
\* the place of the row with its key.
Upserted(T, s, n) ==
  {row \in T : \A i \in 1..n : row.id # s[i].new.id} \cup {s[i].new : i \in 1..n}

\* INSERT ... ON CONFLICT on the primary key, the rows in their order.
UpsertRows(k, T, s) ==
  If(/\ \A i, j \in DOMAIN s : i # j => s[i].new.id # s[j].new.id
     /\ \A n \in DOMAIN s : Legal(k, Upserted(T, s, n)),
     Upserted(T, s, Len(s)))

\* applyUpdate on the columns that the tuple has.
UpdateRow(k, T, c, cols) ==
  LET M == Matched(k, T, c)
      new == (T \ M) \cup {Assigned(row, c.new, cols) : row \in M}
  IN If(One(M) /\ Legal(k, new), new)

\* UPDATE ... FROM a batch: one match for each row of it, looked up in the table
\* as it was, and the rows updated in any order.
UpdateRows(k, T, s, cols) ==
  LET M(i) == Matched(k, T, s[i])
      After(I) == (T \ UNION {M(i) : i \in I})
                    \cup UNION {{Assigned(row, s[i].new, cols) : row \in M(i)} : i \in I}
  IN If(/\ \A i \in DOMAIN s : One(M(i))
        /\ \A I \in SUBSET DOMAIN s : Legal(k, After(I)),
        After(DOMAIN s))

\* The rows that a change of a DELETE names.
Deleted(k, T, c) ==
  IF DeletesByKey(k) THEN {row \in T : row.id = c.old[1].id} ELSE Matched(k, T, c)

\* A row that is gone already is no divergence where the key is the primary key.
DeleteRows(k, T, s) ==
  If(\A i \in DOMAIN s :
       \/ One(Deleted(k, T, s[i]))
       \/ DeletesByKey(k) /\ Deleted(k, T, s[i]) = {},
     T \ UNION {Deleted(k, T, s[i]) : i \in DOMAIN s})

-----------------------------------------------------------------------------
(***************************************************************************)
(* Building the statements of a run.                                       *)
(***************************************************************************)

\* Out-of-line values that the stream left out are upserted.
BugCanUpsert(k, c) ==
  /\ path # "spilled" /\ k.setDML /\ k.arbiter
  /\ c.old # << >> => c.old[1].id = c.new.id

\* canPrimaryKeyUpsert: the whole row, and a primary key that did not change as
\* far as the tuples tell.
CanUpsert(k, c) ==
  /\ path # "spilled" /\ k.setDML /\ k.arbiter
  /\ \A col \in Col : c.new[col] # Toast
  /\ c.old # << >> => c.old[1].id = c.new.id

\* updateSetColumnIndexes: the columns sent, less an unchanged identity.
SetColumns(k, c) ==
  {col \in Col : c.new[col] # Toast
                   /\ (col \in Key(k) => c.new[col] # Predicate(c)[col])}

\* Updates of unique columns go into a batch like the others.
BugBatchSafe(k, cols) == TRUE

\* updateSetColumnsBatchSafe.
BatchSafe(k, cols) == cols \cap Conflicting(k) = {}

SameIdentity(k, a, b) ==
  Agrees(Predicate(a), Predicate(b), IdentityColumns(k))

Change(i) == log[plan[i]]
Changes(n) == [i \in 1..n |-> Change(i)]
K == kind[Change(1).rel]
Rows == work[Change(1).rel]

Longest(lens) == CHOOSE n \in lens : \A m \in lens : m <= n

\* Neighbours in the plan that go into one statement, as far as its size and
\* the rows it has already allow.
Shares(a, b) ==
  CASE path = "batch"   -> BatchRun(a, b)
    [] path = "serial"  -> SerialRun(a, b)
    [] path = "spilled" -> SpillRun(a, b)

\* How many changes the run at the head of the plan has.
Run ==
  Longest({n \in 1..Len(plan) : \A i \in 2..n : Shares(Change(i - 1), Change(i))})

Pairs(n) == {p \in (1..n) \X (1..n) : p[1] < p[2]}

\* How many of the next n changes one statement takes: no more rows than it may
\* have, and no two changes that clash.
Chunk(n, clashes) ==
  Longest({l \in 1..n : l <= ChunkRows /\ \A p \in clashes : p[2] > l})

\* The next n changes are replayed.
Takes(n) == plan' = SubSeq(plan, n + 1, Len(plan))

\* The statement leaves one of the tables, or the target transaction fails.
Executes(tables) ==
  IF tables = {} THEN pc' = "failed" /\ UNCHANGED work
  ELSE /\ \E T \in tables : work' = [work EXCEPT ![Change(1).rel] = T]
       /\ UNCHANGED pc

Building(op) == pc = "run" /\ plan # << >> /\ stretch = 0 /\ Change(1).op = op

applyInserts ==
  /\ Building("insert")
  /\ LET n == Chunk(Run, {}) IN
       Executes(InsertRows(K, Rows, Changes(n))) /\ Takes(n)
  /\ UNCHANGED <<srcVars, target, applied, batch, path, stretch, alone, masks>>

applyUpserts ==
  /\ Building("update") /\ CanUpsert(K, Change(1))
  /\ LET n == Chunk(Run, {p \in Pairs(Run) : \/ ~CanUpsert(K, Change(p[2]))
                                            \/ Change(p[1]).new.id = Change(p[2]).new.id})
     IN Executes(UpsertRows(K, Rows, Changes(n))) /\ Takes(n)
  /\ UNCHANGED <<srcVars, target, applied, batch, path, stretch, alone, masks>>

\* applyLegacyUpdates takes the updates up to the next that can be upserted.
applyLegacyUpdates ==
  /\ Building("update") /\ ~CanUpsert(K, Change(1))
  /\ stretch' = Longest({n \in 1..Run : \A i \in 1..n : ~CanUpsert(K, Change(i))})
  /\ alone' = (stretch' = 1)
  /\ UNCHANGED <<srcVars, target, applied, pc, work, batch, path, plan, masks>>

Legacy == pc = "run" /\ stretch > 0 /\ masks = << >>

Singly == alone \/ IdentityColumns(K) = {}

applyUpdate ==
  /\ Legacy
  /\ Singly \/ (~K.selective /\ ~BatchSafe(K, SetColumns(K, Change(1))))
  /\ Executes(UpdateRow(K, Rows, Change(1), Col))
  /\ Takes(1) /\ stretch' = stretch - 1
  /\ UNCHANGED <<srcVars, target, applied, batch, path, alone, masks>>

\* Updates of the same columns of distinct rows.
LegacyChunk ==
  Chunk(stretch, {p \in Pairs(stretch) :
                    \/ SetColumns(K, Change(p[2])) # SetColumns(K, Change(1))
                    \/ SameIdentity(K, Change(p[1]), Change(p[2]))})

applyUpdateChunk ==
  /\ Legacy /\ ~Singly /\ ~K.selective
  /\ BatchSafe(K, SetColumns(K, Change(1)))
  /\ Executes(UpdateRows(K, Rows, Changes(LegacyChunk), SetColumns(K, Change(1))))
  /\ Takes(LegacyChunk) /\ stretch' = stretch - LegacyChunk
  /\ UNCHANGED <<srcVars, target, applied, batch, path, alone, masks>>

\* inspectSelectiveUpdateMasks: the columns in which the target differs from
\* the tuple, as the table is now; every row of the chunk has to be there.
Mask(c) ==
  LET row == CHOOSE x \in Matched(K, Rows, c) : TRUE
  IN {col \in SetColumns(K, c) : row[col] # c.new[col]}

inspectSelectiveUpdateMasks ==
  /\ Legacy /\ ~Singly /\ K.selective
  /\ IF \A i \in 1..LegacyChunk : One(Matched(K, Rows, Change(i)))
       THEN masks' = [i \in 1..LegacyChunk |-> Mask(Change(i))] /\ UNCHANGED pc
       ELSE pc' = "failed" /\ UNCHANGED masks
  /\ UNCHANGED <<srcVars, target, applied, work, batch, path, plan, stretch, alone>>

\* The inspected updates that go with the first: the same columns, distinct rows.
MaskedChunk ==
  IF masks[1] = {} \/ ~BatchSafe(K, masks[1]) THEN 1
  ELSE Chunk(Len(masks), {p \in Pairs(Len(masks)) :
                            \/ masks[p[2]] # masks[1]
                            \/ SameIdentity(K, Change(p[1]), Change(p[2]))})

\* selectiveChange: the columns of the mask only, none where the row has the
\* values already.
MaskedRows(n) ==
  IF masks[1] = {} THEN {Rows}
  ELSE IF n = 1 THEN UpdateRow(K, Rows, Change(1), masks[1])
  ELSE UpdateRows(K, Rows, Changes(n), masks[1])

applySelectiveUpdateChunk ==
  /\ pc = "run" /\ masks # << >>
  /\ LET n == MaskedChunk IN
       /\ Executes(MaskedRows(n)) /\ Takes(n)
       /\ stretch' = stretch - n /\ masks' = SubSeq(masks, n + 1, Len(masks))
  /\ UNCHANGED <<srcVars, target, applied, batch, path, alone>>

\* Without columns to look the rows up by, they are deleted one by one.
DeleteChunk ==
  LET by == IF DeletesByKey(K) THEN {"id"} ELSE IdentityColumns(K)
  IN IF by = {} THEN 1
     ELSE Chunk(Run, {p \in Pairs(Run) :
                        Agrees(Change(p[1]).old[1], Change(p[2]).old[1], by)})

applyDeletes ==
  /\ Building("delete")
  /\ Executes(DeleteRows(K, Rows, Changes(DeleteChunk))) /\ Takes(DeleteChunk)
  /\ UNCHANGED <<srcVars, target, applied, batch, path, stretch, alone, masks>>

applyTruncates ==
  /\ Building("truncate")
  /\ work' = [r \in Rel |-> IF \E i \in 1..Run : Change(i).rel = r THEN {} ELSE work[r]]
  /\ Takes(Run)
  /\ UNCHANGED <<srcVars, target, applied, pc, batch, path, stretch, alone, masks>>

-----------------------------------------------------------------------------
(***************************************************************************)
(* The end of a target transaction.                                        *)
(***************************************************************************)
Reset ==
  /\ pc' = "idle" /\ batch' = 0 /\ path' = "serial"
  /\ plan' = << >> /\ stretch' = 0 /\ alone' = FALSE /\ masks' = << >>

\* Rows and progress in one transaction.
Commit ==
  /\ pc = "run" /\ plan = << >>
  /\ target' = work /\ applied' = applied + batch
  /\ Reset
  /\ UNCHANGED <<srcVars, work>>

\* The connection is lost, or the run was ended by a failure and is started
\* again: the target rolls back and the batch is cut anew.
Abort ==
  /\ pc # "idle"
  /\ work' = target /\ Reset
  /\ UNCHANGED <<srcVars, target, applied>>

-----------------------------------------------------------------------------
SourceWrites ==
  /\ pc = "idle" /\ Len(ends) < MaxTx /\ Len(log) < MaxChange
  /\ \E r \in Rel :
       \/ \E row \in Fresh[r] : SourceInsert(r, row)
       \/ \E row \in source[r], new \in Row : SourceUpdate(r, row, new)
       \/ \E row \in source[r] : SourceDelete(r, row)
       \/ SourceTruncate(r)

Replays ==
  \/ BeginBatch \/ BeginSerial \/ BeginSpilled
  \/ applyInserts \/ applyUpserts \/ applyLegacyUpdates \/ applyUpdate
  \/ applyUpdateChunk \/ inspectSelectiveUpdateMasks
  \/ applySelectiveUpdateChunk \/ applyDeletes \/ applyTruncates \/ Commit

Next == SourceWrites \/ SourceCommit \/ Replays \/ Abort

Spec == Init /\ [][Next]_vars
-----------------------------------------------------------------------------
(***************************************************************************)
(* Properties.                                                             *)
(***************************************************************************)
History(n) == IF End(n) = 0 THEN Start ELSE states[End(n)]

\* Outside of claims, the target holds the source's rows as of the transaction
\* that its progress names: whichever changes shared a statement, whichever form it took and
\* wherever the batches were cut.
ReplayExact == target = History(applied)

\* A legal update history that replays by a path whose premises it breaks: a
\* changed primary key that the stream's identity does not show, or a row
\* updated twice under two keys and looked up by the second before the first
\* update was made.
HiddenKeyChange(k, c) ==
  /\ k.identity = "index" /\ k.pk
  /\ c.op = "update" /\ c.from.id # c.to.id
Relooked(k, a, b) ==
  /\ k.selective /\ a.op = "update" /\ b.op = "update" /\ a.rel = b.rel
  /\ ~Agrees(a.from, a.to, Key(k)) /\ Agrees(a.to, b.from, Key(k))

KnownCase ==
  \E g \in Pending(batch) :
    \/ HiddenKeyChange(kind[log[g].rel], log[g])
    \/ \E h \in Pending(batch) : h < g /\ Relooked(kind[log[h].rel], log[h], log[g])

\* A statement that fails, or finds another number of rows than it expects,
\* ends the migration; outside of claims, and on a target that holds what its
\* progress says, this happens in the two known cases only.
DivergesOnlyWhere == pc = "failed" => KnownCase

=============================================================================
