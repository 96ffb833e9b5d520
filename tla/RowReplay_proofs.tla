------------------------ MODULE RowReplay_proofs ------------------------
(***************************************************************************)
(* Outside of replay claims, the statements built from a batch of changes  *)
(* leave the rows that the source had, for every schema, every history of  *)
(* legal changes, every cutting of it into batches and every limit on the  *)
(* rows of a statement.                                                    *)
(***************************************************************************)
EXTENDS RowReplay, NaturalsInduction, WellFoundedInduction, TLAPS

-----------------------------------------------------------------------------
(***************************************************************************)
(* Numbers.                                                                *)
(***************************************************************************)

\* A set of naturals has a least element.
LEMMA LeastOf ==
  ASSUME NEW S, S \subseteq Nat, S # {} PROVE \E x \in S : \A y \in S : x <= y
<1>1. PICK x \in S : \A y \in S : ~(<<y, x>> \in OpToRel(<, Nat))
  BY NatLessThanWellFounded, WFMin, Zenon
<1>2. \A y \in S : <<y, x>> \in OpToRel(<, Nat) <=> y < x
  BY DEF OpToRel
<1>3. \A y \in S : ~(y < x)
  BY <1>1, <1>2, Zenon
<1> QED
  BY <1>3

\* A set that holds 0, and with each number below n the next, holds all up to n.
LEMMA UpTo ==
  ASSUME NEW n \in Nat, NEW S, 0 \in S, \A i \in 1..n : i - 1 \in S => i \in S
  PROVE  \A i \in 0..n : i \in S
<1> DEFINE D == {i \in 0..n : i \notin S}
<1> SUFFICES ASSUME D # {} PROVE FALSE
  OBVIOUS
<1>0. D \subseteq Nat
  OBVIOUS
<1> HIDE DEF D
<1>1. PICK x \in D : \A y \in D : x <= y
  BY <1>0, LeastOf, Zenon
<1>2. x \in 1..n /\ x - 1 \in 0..n /\ x \notin S
  BY <1>1 DEF D
<1>3. x - 1 \in S
  BY <1>1, <1>2 DEF D
<1> QED
  BY <1>2, <1>3

\* The greatest of some numbers up to n.
LEMMA LongestIs ==
  ASSUME NEW n \in Nat, NEW S, S \subseteq 0..n, S # {}
  PROVE  Longest(S) \in S /\ \A m \in S : m <= Longest(S)
<1> DEFINE D == {d \in 0..n : n - d \in S}
<1>1. D # {}
  <2>1. PICK m \in S : TRUE
    OBVIOUS
  <2>2. n - m \in D
    BY <2>1
  <2> QED
    BY <2>2
<1>a. D \subseteq Nat
  OBVIOUS
<1> HIDE DEF D
<1>2. PICK d \in D : \A e \in D : d <= e
  BY <1>1, <1>a, LeastOf, Zenon
<1>3. n - d \in S /\ d \in 0..n
  BY <1>2 DEF D
<1>4. \A m \in S : m <= n - d
  <2> SUFFICES ASSUME NEW m \in S PROVE m <= n - d
    OBVIOUS
  <2>0. m \in 0..n /\ n - m \in 0..n /\ n - (n - m) = m
    OBVIOUS
  <2>1. n - m \in D
    BY <2>0 DEF D
  <2>2. d <= n - m
    BY <1>2, <2>1
  <2> QED
    BY <2>0, <2>2, <1>3
<1> QED
  BY <1>3, <1>4, Zenon DEF Longest

-----------------------------------------------------------------------------
(***************************************************************************)
(* Rows and kinds.                                                         *)
(***************************************************************************)
IsKind(k) == k \in {schema[r] : schema \in Schemas, r \in Rel}

LEMMA KindIs ==
  ASSUME NEW k, IsKind(k)
  PROVE  /\ k.identity = "default" => k.pk /\ Key(k) = {"id"}
         /\ k.identity = "index" => k.unique /\ Key(k) = {"u"}
         /\ k.identity = "full" => Key(k) = Col
         /\ k.identity \in {"default", "index", "full"}
         /\ Key(k) \subseteq Col
         /\ k.arbiter => k.pk
BY KindAssumption DEF IsKind, Key, Col

LEMMA RowIs ==
  ASSUME NEW x \in Row, NEW y \in Row
  PROVE  /\ x.id = x["id"] /\ x.u = x["u"] /\ x.w = x["w"]
         /\ Agrees(x, y, Col) => x = y
         /\ \A c \in Col : x[c] # Toast /\ x[c] # Null
<1>1. x.id = x["id"] /\ x.u = x["u"] /\ x.w = x["w"]
  BY DEF Row
<1>2. Agrees(x, y, Col) => x = y
  BY DEF Row, Col, Agrees
<1>3. x.id \in Id /\ x.u \in U /\ x.w \in W
  BY DEF Row
<1>4. \A c \in Col : x[c] # Toast /\ x[c] # Null
  BY <1>1, <1>3, TupleAssumption DEF Col
<1> QED
  BY <1>1, <1>2, <1>4

\* Rows of a legal table are told apart by the replica identity.
LEMMA KeyUnique ==
  ASSUME NEW k, IsKind(k), NEW T, T \subseteq Row, Legal(k, T),
         NEW a \in T, NEW b \in T, Agrees(a, b, Key(k))
  PROVE  a = b
<1>0. a \in Row /\ b \in Row
  OBVIOUS
<1>1. CASE k.identity = "default"
  <2>1. a["id"] = b["id"] /\ k.pk
    BY <1>1, KindIs DEF Agrees
  <2>2. a.id = b.id
    BY <1>0, <2>1, RowIs
  <2> QED
    BY <2>1, <2>2 DEF Legal
<1>2. CASE k.identity = "index"
  <2>1. a["u"] = b["u"] /\ k.unique
    BY <1>2, KindIs DEF Agrees
  <2>2. a.u = b.u
    BY <1>0, <2>1, RowIs
  <2> QED
    BY <2>1, <2>2 DEF Legal
<1>3. CASE k.identity = "full"
  BY <1>0, <1>3, KindIs, RowIs
<1> QED
  BY <1>1, <1>2, <1>3, KindIs

-----------------------------------------------------------------------------
(***************************************************************************)
(* A change of the stream: what its tuples say of the source's rows, and   *)
(* what it did to them.                                                    *)
(***************************************************************************)
Sent(c) ==
  /\ c.new = [col \in Col |-> c.new[col]]
  /\ \A col \in Col : \/ c.new[col] = c.to[col] /\ c.new[col] # Toast
                      \/ c.new[col] = Toast /\ c.from[col] = c.to[col]

\* A new primary key that the tuples do not show.
Shown(k, c) ==
  (/\ k.pk /\ c.from.id # c.to.id
   /\ \A col \in Col : c.new[col] # Toast
   /\ c.old # << >> => c.old[1].id = c.new.id) =>
    HiddenKeyChange(k, c) /\ c.from.u = c.to.u

Entry(k, c) ==
  /\ c.from \in Row /\ c.to \in Row
  /\ c.op = "insert" => c.new = c.to
  /\ c.op = "delete" => Predicate(c) = c.old[1]
  /\ c.op \in {"update", "delete"} => Agrees(c.from, Predicate(c), Key(k))
  /\ c.op = "update" => Sent(c) /\ Shown(k, c)

Step(c, T, T2) ==
  /\ c.op \in {"insert", "update", "delete", "truncate"}
  /\ c.op = "insert" => c.to \notin T /\ T2 = T \cup {c.to}
  /\ c.op = "update" => c.from \in T /\ c.to \notin T /\ T2 = (T \ {c.from}) \cup {c.to}
  /\ c.op = "delete" => c.from \in T /\ T2 = T \ {c.from}
  /\ c.op = "truncate" => T2 = {}

\* The changes s lead from one table to the next.
Trace(k, s, tab, n) ==
  /\ IsKind(k) /\ n \in Nat
  /\ DOMAIN s = 1..n /\ Len(s) = n
  /\ \A i \in 0..n : tab[i] \subseteq Row /\ Legal(k, tab[i])
  /\ \A i \in 1..n : Entry(k, s[i]) /\ Step(s[i], tab[i - 1], tab[i])

Diff(c) == {col \in Col : c.from[col] # c.to[col]}

\* The columns that changed are among those of the SET list, and what a target
\* row lacks of them is what changed.
LEMMA DiffIs ==
  ASSUME NEW k, IsKind(k), NEW c, Entry(k, c), c.op = "update"
  PROVE  /\ Diff(c) \subseteq SetColumns(k, c)
         /\ {col \in SetColumns(k, c) : c.from[col] # c.new[col]} = Diff(c)
         /\ SetColumns(k, c) \subseteq Col
<1>1. \A col \in Key(k) : c.from[col] = Predicate(c)[col]
  BY DEF Entry, Agrees
<1>2. Sent(c)
  BY DEF Entry
<1> QED
  BY <1>1, <1>2 DEF Sent, Diff, SetColumns

\* The SET list makes the new row of the old one.
LEMMA AssignedIs ==
  ASSUME NEW k, NEW c, Entry(k, c), c.op = "update", NEW cols, Diff(c) \subseteq cols
  PROVE  Assigned(c.from, c.new, cols) = c.to
<1> DEFINE row == Assigned(c.from, c.new, cols)
<1>1. Sent(c)
  BY DEF Entry
<1>2. \A col \in Col : row[col] = c.to[col]
  BY <1>1 DEF Sent, Assigned, Diff
<1>3. row = [col \in Col |-> row[col]]
  BY DEF Assigned
<1>4. c.to = [col \in Col |-> c.to[col]]
  BY DEF Entry, Row, Col
<1> QED
  BY <1>2, <1>3, <1>4

\* A statement finds the row of the source, where the table has it.
LEMMA MatchedIs ==
  ASSUME NEW k, IsKind(k), NEW c, Entry(k, c), c.op \in {"update", "delete"},
         NEW T, T \subseteq Row, Legal(k, T), c.from \in T
  PROVE  Matched(k, T, c) = {c.from}
<1>1. Agrees(c.from, Predicate(c), Key(k))
  BY DEF Entry
<1>2. c.from \in Matched(k, T, c)
  BY <1>1 DEF Matched
<1>3. ASSUME NEW row \in Matched(k, T, c) PROVE row = c.from
  <2>1. row \in T /\ Agrees(row, c.from, Key(k))
    BY <1>1, <1>3 DEF Matched, Agrees
  <2> QED
    BY <2>1, KeyUnique
<1> QED
  BY <1>2, <1>3

LEMMA OneIs == ASSUME NEW x PROVE One({x})
BY DEF One

LEMMA TraceIs ==
  ASSUME NEW k, NEW s, NEW tab, NEW n, Trace(k, s, tab, n), NEW i \in 1..n
  PROVE  /\ IsKind(k) /\ n \in Nat /\ i - 1 \in 0..n /\ i \in 0..n
         /\ Entry(k, s[i]) /\ Step(s[i], tab[i - 1], tab[i])
         /\ tab[i - 1] \subseteq Row /\ tab[i] \subseteq Row
         /\ Legal(k, tab[i - 1]) /\ Legal(k, tab[i])
         /\ s[i].from \in Row /\ s[i].to \in Row
BY DEF Trace, Entry

-----------------------------------------------------------------------------
(***************************************************************************)
(* What each statement does with the changes of a trace.                   *)
(***************************************************************************)
AllOf(s, op) == \A i \in DOMAIN s : s[i].op = op

LEMMA InsertsAre ==
  ASSUME NEW k, NEW s, NEW tab, NEW n, Trace(k, s, tab, n), AllOf(s, "insert")
  PROVE  InsertRows(k, tab[0], s) = {tab[n]}
<1> DEFINE New(i) == {s[j].new : j \in 1..i}
           Good == {i \in 0..n : tab[i] = tab[0] \cup New(i)}
<1>0. n \in Nat /\ DOMAIN s = 1..n /\ Legal(k, tab[n])
  BY DEF Trace
<1>1. ASSUME NEW i \in 1..n
      PROVE  /\ s[i].new \notin tab[i - 1] /\ tab[i] = tab[i - 1] \cup {s[i].new}
             /\ i \in 0..n /\ i - 1 \in 0..n
  <2>1. s[i].op = "insert"
    BY <1>0 DEF AllOf
  <2>2. Entry(k, s[i]) /\ Step(s[i], tab[i - 1], tab[i])
    BY DEF Trace
  <2>3. s[i].new = s[i].to
    BY <2>1, <2>2 DEF Entry
  <2>4. s[i].to \notin tab[i - 1] /\ tab[i] = tab[i - 1] \cup {s[i].to}
    BY <2>1, <2>2 DEF Step
  <2> QED
    BY <2>3, <2>4, <1>0
<1>2. ASSUME NEW i \in 1..n, i - 1 \in Good PROVE i \in Good
  <2>1. New(i) = New(i - 1) \cup {s[i].new}
    BY <1>0
  <2> QED
    BY <1>1, <1>2, <2>1
<1>3. \A i \in 0..n : i \in Good
  <2>1. 0 \in Good
    BY <1>0
  <2> HIDE DEF Good
  <2> QED
    BY <2>1, <1>0, <1>2, UpTo
<1>4. \A i \in 0..n : tab[i] = tab[0] \cup New(i)
  BY <1>3
<1>5. ASSUME NEW i \in 1..n PROVE s[i].new \notin tab[0] /\ s[i].new \notin New(i - 1)
  BY <1>1, <1>4
<1>6. ASSUME NEW i \in 1..n, NEW j \in 1..n, i < j PROVE s[i].new # s[j].new
  <2>1. s[i].new \in New(j - 1)
    BY <1>0, <1>6
  <2> QED
    BY <2>1, <1>5
<1>7. \A i, j \in 1..n : i # j => s[i].new # s[j].new
  <2> SUFFICES ASSUME NEW i \in 1..n, NEW j \in 1..n, i # j PROVE s[i].new # s[j].new
    OBVIOUS
  <2>1. i < j \/ j < i
    BY <1>0
  <2> QED
    BY <2>1, <1>6
<1>8. New(n) \cap tab[0] = {}
  BY <1>5
<1>9. tab[n] = tab[0] \cup New(n)
  BY <1>0, <1>4
<1> QED
  BY <1>0, <1>7, <1>8, <1>9 DEF InsertRows, If

\* A legal table has one row of each primary key.
LEMMA UpsertedIs ==
  ASSUME NEW k, IsKind(k), k.pk, NEW T, T \subseteq Row, Legal(k, T), NEW c, Entry(k, c),
         c.from \in T, c.from.id = c.to.id
  PROVE  {row \in T : row.id # c.to.id} = T \ {c.from}
BY DEF Legal

\* The rows that an upsert names, one after the other.
LEMMA UpsertStep ==
  ASSUME NEW T, NEW s, NEW i \in Nat \ {0}, \A j \in 1..(i - 1) : s[j].new.id # s[i].new.id
  PROVE  Upserted(T, s, i) =
           {row \in Upserted(T, s, i - 1) : row.id # s[i].new.id} \cup {s[i].new}
<1>1. \A j : j \in 1..i <=> j \in 1..(i - 1) \/ j = i
  OBVIOUS
<1> HIDE <1>1
<1> QED
  BY <1>1, Zenon DEF Upserted

LEMMA UpsertsAre ==
  ASSUME NEW k, NEW s, NEW tab, NEW n, Trace(k, s, tab, n), AllOf(s, "update"), k.pk,
         \A i \in 1..n : /\ \A col \in Col : s[i].new[col] # Toast
                         /\ s[i].old # << >> => s[i].old[1].id = s[i].new.id,
         \A i, j \in 1..n : i < j => s[i].new.id # s[j].new.id
  PROVE  \/ UpsertRows(k, tab[0], s) = {tab[n]}
         \/ /\ UpsertRows(k, tab[0], s) = {}
            /\ \E i \in 1..n : HiddenKeyChange(k, s[i])
<1> DEFINE Bad == {i \in 1..n : s[i].from.id # s[i].to.id}
           Good == {i \in 0..n : tab[i] = Upserted(tab[0], s, i)}
<1>0. n \in Nat /\ DOMAIN s = 1..n /\ Len(s) = n /\ IsKind(k)
  BY DEF Trace
<1>1. ASSUME NEW i \in 1..n
      PROVE  /\ s[i].op = "update" /\ s[i].new = s[i].to
             /\ s[i].from \in tab[i - 1] /\ tab[i] = (tab[i - 1] \ {s[i].from}) \cup {s[i].to}
             /\ i \in 0..n /\ i - 1 \in 0..n
  <2>1. s[i].op = "update"
    BY <1>0 DEF AllOf
  <2>2. Sent(s[i]) /\ s[i].to \in Row
    BY <2>1, TraceIs DEF Entry
  <2>3. \A col \in Col : s[i].new[col] = s[i].to[col]
    BY <2>2 DEF Sent
  <2>4. s[i].to = [col \in Col |-> s[i].to[col]]
    BY <2>2 DEF Row, Col
  <2>5. s[i].new = s[i].to
    BY <2>2, <2>3, <2>4 DEF Sent
  <2> QED
    BY <2>1, <2>5, <1>0, TraceIs DEF Entry, Step
<1>2. ASSUME NEW i \in Bad PROVE HiddenKeyChange(k, s[i]) /\ s[i].from.u = s[i].to.u
  <2>1. Shown(k, s[i])
    BY <1>1, TraceIs DEF Entry
  <2> QED
    BY <2>1 DEF Shown
<1>3. ASSUME NEW i \in 1..n, i - 1 \in Good
      PROVE  Upserted(tab[0], s, i) =
               {row \in tab[i - 1] : row.id # s[i].to.id} \cup {s[i].to}
  <2>1. \A j \in 1..(i - 1) : s[j].new.id # s[i].new.id
    BY <1>0
  <2>2. i \in Nat \ {0} /\ s[i].new = s[i].to /\ tab[i - 1] = Upserted(tab[0], s, i - 1)
    BY <1>0, <1>1, <1>3
  <2>3. Upserted(tab[0], s, i) =
          {row \in Upserted(tab[0], s, i - 1) : row.id # s[i].new.id} \cup {s[i].new}
    BY <2>1, <2>2, UpsertStep
  <2> QED
    BY <2>2, <2>3
<1>4. ASSUME NEW i \in 1..n, i - 1 \in Good, i \notin Bad PROVE i \in Good
  <2>1. {row \in tab[i - 1] : row.id # s[i].to.id} = tab[i - 1] \ {s[i].from}
    <3>1. s[i].from.id = s[i].to.id /\ s[i].from \in tab[i - 1]
      BY <1>1, <1>4
    <3>2. Entry(k, s[i]) /\ tab[i - 1] \subseteq Row /\ Legal(k, tab[i - 1])
      BY TraceIs
    <3> QED
      BY <1>0, <3>1, <3>2, UpsertedIs
  <2>2. Upserted(tab[0], s, i) = {row \in tab[i - 1] : row.id # s[i].to.id} \cup {s[i].to}
    BY <1>3, <1>4
  <2>3. tab[i] = (tab[i - 1] \ {s[i].from}) \cup {s[i].to} /\ i \in 0..n
    BY <1>1
  <2>4. tab[i] = Upserted(tab[0], s, i)
    BY <2>1, <2>2, <2>3, Zenon
  <2> QED
    BY <2>3, <2>4
<1>5. 0 \in Good
  BY <1>0 DEF Upserted
<1>6. \A i, j \in DOMAIN s : i # j => s[i].new.id # s[j].new.id
  <2> SUFFICES ASSUME NEW i \in 1..n, NEW j \in 1..n, i # j PROVE s[i].new.id # s[j].new.id
    BY <1>0
  <2>1. i < j \/ j < i
    BY <1>0
  <2> QED
    BY <2>1
<1>7. CASE Bad = {}
  <2>1. \A i \in 1..n : i - 1 \in Good => i \in Good
    BY <1>4, <1>7
  <2>2. \A i \in 0..n : i \in Good
    <3> HIDE DEF Good
    <3> QED
      BY <2>1, <1>0, <1>5, UpTo
  <2>3. \A i \in 0..n : tab[i] = Upserted(tab[0], s, i) /\ Legal(k, tab[i])
    BY <2>2 DEF Trace
  <2>4. n \in 0..n /\ \A i \in 1..n : i \in 0..n
    BY <1>0
  <2>5. \A i \in DOMAIN s : Legal(k, Upserted(tab[0], s, i))
    BY <1>0, <2>3, <2>4
  <2> QED
    BY <1>0, <1>6, <2>3, <2>4, <2>5 DEF UpsertRows, If
<1>8. CASE Bad # {}
  <2>0. Bad \subseteq Nat
    OBVIOUS
  <2>1. PICK b \in Bad : \A i \in Bad : b <= i
    <3> HIDE DEF Bad
    <3> QED
      BY <2>0, <1>8, LeastOf, Zenon
  <2>2. b \in 1..n /\ b - 1 \in Nat /\ s[b].from.id # s[b].to.id
    BY <1>0
  <2>3. \A i \in 1..(b - 1) : i - 1 \in Good => i \in Good
    <3> SUFFICES ASSUME NEW i \in 1..(b - 1), i - 1 \in Good PROVE i \in Good
      OBVIOUS
    <3>1. i \in 1..n /\ ~(b <= i)
      BY <1>0, <2>2
    <3>2. i \notin Bad
      BY <2>1, <3>1, Zenon
    <3> QED
      BY <3>1, <3>2, <1>4
  <2>4. b - 1 \in Good
    <3> HIDE DEF Good
    <3>1. \A i \in 0..(b - 1) : i \in Good
      BY <2>2, <2>3, <1>5, UpTo
    <3> QED
      BY <3>1, <2>2
  <2>5. Upserted(tab[0], s, b) =
          {row \in tab[b - 1] : row.id # s[b].to.id} \cup {s[b].to}
    BY <2>2, <2>4, <1>3
  <2>6. HiddenKeyChange(k, s[b]) /\ s[b].from.u = s[b].to.u
    BY <1>2
  <2>7. k.unique
    BY <2>6, <1>0, KindIs DEF HiddenKeyChange
  <2>8. s[b].from \in Upserted(tab[0], s, b) /\ s[b].to \in Upserted(tab[0], s, b)
    BY <2>2, <2>5, <1>1
  <2>9. ~Legal(k, Upserted(tab[0], s, b))
    BY <2>2, <2>6, <2>7, <2>8 DEF Legal
  <2> QED
    BY <1>0, <2>2, <2>6, <2>9 DEF UpsertRows, If
<1> QED
  BY <1>7, <1>8

\* One update, of the row that it finds.
LEMMA UpdateIs ==
  ASSUME NEW k, IsKind(k), NEW c, Entry(k, c), c.op = "update", NEW T, T \subseteq Row,
         NEW T2, Legal(k, T), Legal(k, T2), Step(c, T, T2), NEW cols, Diff(c) \subseteq cols
  PROVE  UpdateRow(k, T, c, cols) = {T2}
<1>2. c.from \in T /\ T2 = (T \ {c.from}) \cup {c.to}
  BY DEF Step
<1>3. Matched(k, T, c) = {c.from}
  BY <1>2, MatchedIs
<1>4. Assigned(c.from, c.new, cols) = c.to
  BY AssignedIs
<1>5. {Assigned(row, c.new, cols) : row \in {c.from}} = {c.to}
  BY <1>4
<1> QED
  BY <1>2, <1>3, <1>5, OneIs DEF UpdateRow, If

\* Rows that a statement of the applier tells apart are distinct.
LEMMA IdentityIs ==
  ASSUME NEW k, IsKind(k), IdentityColumns(k) # {}, NEW a, NEW b, Entry(k, a), Entry(k, b),
         a.op = "update", b.op = "update"
  PROVE  /\ k.identity # "full" /\ IdentityColumns(k) = Key(k)
         /\ SameIdentity(k, a, b) <=> Agrees(a.from, b.from, Key(k))
<1>1. k.identity # "full" /\ IdentityColumns(k) = Key(k)
  BY DEF IdentityColumns
<1>2. Agrees(a.from, Predicate(a), Key(k)) /\ Agrees(b.from, Predicate(b), Key(k))
  BY DEF Entry
<1> QED
  BY <1>1, <1>2 DEF SameIdentity, Agrees

DistinctRows(k, s, n) ==
  /\ IdentityColumns(k) # {}
  /\ \A i, j \in 1..n : i < j => ~SameIdentity(k, s[i], s[j])

LEMMA DistinctIs ==
  ASSUME NEW k, NEW s, NEW tab, NEW n, Trace(k, s, tab, n), AllOf(s, "update"),
         DistinctRows(k, s, n)
  PROVE  /\ n \in Nat /\ IsKind(k) /\ k.identity # "full" /\ DOMAIN s = 1..n
         /\ \A i \in 1..n :
              /\ s[i].op = "update" /\ Entry(k, s[i]) /\ s[i].from \in tab[i - 1]
              /\ tab[i] = (tab[i - 1] \ {s[i].from}) \cup {s[i].to}
              /\ i \in 0..n /\ i - 1 \in 0..n
         /\ \A i, j \in 1..n : i # j => ~Agrees(s[i].from, s[j].from, Key(k))
<1>0. n \in Nat /\ DOMAIN s = 1..n /\ IsKind(k)
  BY DEF Trace
<1>1. \A i \in 1..n : s[i].op = "update" /\ Entry(k, s[i])
  BY <1>0, TraceIs DEF AllOf
<1>2. \A i \in 1..n : /\ s[i].from \in tab[i - 1]
                      /\ tab[i] = (tab[i - 1] \ {s[i].from}) \cup {s[i].to}
                      /\ i \in 0..n /\ i - 1 \in 0..n
  BY <1>1, TraceIs DEF Step
<1>3. ASSUME NEW i \in 1..n, NEW j \in 1..n, i < j
      PROVE  ~Agrees(s[i].from, s[j].from, Key(k)) /\ ~Agrees(s[j].from, s[i].from, Key(k))
  <2>1. ~SameIdentity(k, s[i], s[j])
    BY <1>3 DEF DistinctRows
  <2>2. ~Agrees(s[i].from, s[j].from, Key(k))
    BY <2>1, <1>0, <1>1, IdentityIs DEF DistinctRows
  <2> QED
    BY <2>2 DEF Agrees
<1>4. \A i, j \in 1..n : i # j => i < j \/ j < i
  BY <1>0
<1>5. k.identity # "full"
  BY DEF DistinctRows, IdentityColumns
<1>6. \A i, j \in 1..n : i # j => ~Agrees(s[i].from, s[j].from, Key(k))
  BY <1>3, <1>4
<1> QED
  BY <1>0, <1>1, <1>2, <1>5, <1>6

\* A batched update whose columns no index covers: no row moves to the identity
\* of another, and no two rows collide in whatever order they are updated.
LEMMA UpdatesAre ==
  ASSUME NEW k, NEW s, NEW tab, NEW n, Trace(k, s, tab, n), AllOf(s, "update"),
         DistinctRows(k, s, n), NEW cols, BatchSafe(k, cols),
         \A i \in 1..n : Diff(s[i]) \subseteq cols
  PROVE  UpdateRows(k, tab[0], s, cols) = {tab[n]}
<1> DEFINE From(I) == {s[i].from : i \in I}
           To(I) == {s[i].to : i \in I}
           Good == {i \in 0..n : tab[i] = (tab[0] \ From(1..i)) \cup To(1..i)}
<1>0. n \in Nat /\ DOMAIN s = 1..n /\ IsKind(k) /\ tab[0] \subseteq Row /\ Legal(k, tab[0])
  BY DEF Trace
<1>1. ASSUME NEW i \in 1..n
      PROVE  /\ Entry(k, s[i]) /\ s[i].op = "update" /\ s[i].from \in Row /\ s[i].to \in Row
             /\ s[i].from \in tab[i - 1]
             /\ tab[i] = (tab[i - 1] \ {s[i].from}) \cup {s[i].to}
             /\ i \in 0..n /\ i - 1 \in 0..n
  BY DistinctIs DEF Entry
<1>2. \A i, j \in 1..n : i # j => ~Agrees(s[i].from, s[j].from, Key(k))
  BY DistinctIs
<1>3. ASSUME NEW i \in 1..n
      PROVE  /\ Agrees(s[i].from, s[i].to, Key(k))
             /\ k.pk => s[i].from.id = s[i].to.id
             /\ k.unique => s[i].from.u = s[i].to.u
  <2>1. k.pk => "id" \notin Diff(s[i])
    BY DEF BatchSafe, Conflicting
  <2>2. k.unique => "u" \notin Diff(s[i])
    BY DEF BatchSafe, Conflicting
  <2>3. k.pk => s[i].from["id"] = s[i].to["id"]
    BY <2>1 DEF Diff, Col
  <2>4. k.unique => s[i].from["u"] = s[i].to["u"]
    BY <2>2 DEF Diff, Col
  <2>5. Agrees(s[i].from, s[i].to, Key(k))
    <3>1. k.identity # "full"
      BY DistinctIs
    <3>2. (k.pk /\ Key(k) = {"id"}) \/ (k.unique /\ Key(k) = {"u"})
      BY <3>1, <1>0, KindIs
    <3> QED
      BY <3>2, <2>3, <2>4 DEF Agrees
  <2> QED
    BY <2>3, <2>4, <2>5, <1>1, RowIs
<1>4. ASSUME NEW i \in 1..n, NEW j \in 1..n, i # j PROVE s[i].from # s[j].to /\ s[i].from # s[j].from
  BY <1>2, <1>3, <1>4 DEF Agrees
<1>5. ASSUME NEW i \in 1..n, i - 1 \in Good PROVE i \in Good /\ s[i].from \in tab[0]
  <2>1. \A j : j \in 1..i <=> j \in 1..(i - 1) \/ j = i
    BY <1>0
  <2>2. From(1..i) = From(1..(i - 1)) \cup {s[i].from} /\ To(1..i) = To(1..(i - 1)) \cup {s[i].to}
    BY <2>1, Zenon
  <2>3. \A j \in 1..(i - 1) : j \in 1..n /\ i # j
    BY <1>0
  <2>4. s[i].from \notin To(1..(i - 1))
    BY <2>3, <1>4
  <2>5. tab[i - 1] = (tab[0] \ From(1..(i - 1))) \cup To(1..(i - 1))
    BY <1>5
  <2> HIDE DEF From, To
  <2>6. tab[i] = (tab[0] \ From(1..i)) \cup To(1..i)
    BY <1>1, <2>2, <2>4, <2>5
  <2> QED
    BY <1>1, <2>4, <2>5, <2>6
<1>6. \A i \in 0..n : i \in Good
  <2>1. 0 \in Good
    BY <1>0
  <2> HIDE DEF Good
  <2> QED
    BY <2>1, <1>0, <1>5, UpTo
<1>7. ASSUME NEW i \in 1..n
      PROVE  Matched(k, tab[0], s[i]) = {s[i].from} /\ Assigned(s[i].from, s[i].new, cols) = s[i].to
             /\ s[i].from \in tab[0]
  <2>1. s[i].from \in tab[0]
    BY <1>1, <1>5, <1>6
  <2> QED
    BY <2>1, <1>0, <1>1, MatchedIs, AssignedIs
<1>8. ASSUME NEW I \in SUBSET (1..n) PROVE Legal(k, (tab[0] \ From(I)) \cup To(I))
  <2> SUFFICES ASSUME NEW a \in (tab[0] \ From(I)) \cup To(I),
                      NEW b \in (tab[0] \ From(I)) \cup To(I), a # b
               PROVE  (k.pk => a.id # b.id) /\ (k.unique => a.u # b.u)
    BY DEF Legal
  <2> DEFINE Was(x, o) == /\ o \in tab[0] /\ (k.pk => x.id = o.id) /\ (k.unique => x.u = o.u)
                          /\ \/ x = o /\ o \notin From(I)
                             \/ \E i \in I : x = s[i].to /\ o = s[i].from
  <2>1. ASSUME NEW x \in (tab[0] \ From(I)) \cup To(I) PROVE \E o : Was(x, o)
    <3>1. CASE x \in tab[0] \ From(I)
      BY <3>1
    <3>2. CASE x \in To(I)
      <4>1. PICK i \in I : x = s[i].to
        BY <3>2
      <4>2. Was(x, s[i].from)
        BY <4>1, <1>3, <1>7
      <4> QED
        BY <4>2
    <3> QED
      BY <3>1, <3>2
  <2>2. PICK oa : Was(a, oa)
    BY <2>1
  <2>3. PICK ob : Was(b, ob)
    BY <2>1
  <2>4. oa # ob
    <3> SUFFICES ASSUME oa = ob PROVE FALSE
      OBVIOUS
    <3>1. PICK i \in I : a = s[i].to /\ oa = s[i].from
      BY <2>2, <2>3
    <3>2. PICK j \in I : b = s[j].to /\ ob = s[j].from
      BY <2>2, <2>3, <3>1
    <3> QED
      BY <3>1, <3>2, <1>4
  <2> QED
    BY <2>2, <2>3, <2>4, <1>0 DEF Legal
<1> DEFINE M(i) == Matched(k, tab[0], s[i])
           New(i) == {Assigned(row, s[i].new, cols) : row \in M(i)}
           After(I) == (tab[0] \ UNION {M(i) : i \in I}) \cup UNION {New(i) : i \in I}
<1>9. ASSUME NEW i \in 1..n PROVE M(i) = {s[i].from} /\ New(i) = {s[i].to}
  BY <1>7
<1>10. ASSUME NEW I \in SUBSET (1..n) PROVE After(I) = (tab[0] \ From(I)) \cup To(I)
  <2>1. \A i \in I : M(i) = {s[i].from} /\ New(i) = {s[i].to}
    BY <1>9
  <2> HIDE DEF M, New
  <2>2. \A x : x \in UNION {M(i) : i \in I} <=> x \in From(I)
    <3>1. \A x : x \in UNION {M(i) : i \in I} <=> \E i \in I : x \in M(i)
      OBVIOUS
    <3>2. \A x : \A i \in I : x \in M(i) <=> x = s[i].from
      BY <2>1
    <3> QED
      BY <3>1, <3>2, Zenon
  <2>3. \A x : x \in UNION {New(i) : i \in I} <=> x \in To(I)
    <3>1. \A x : x \in UNION {New(i) : i \in I} <=> \E i \in I : x \in New(i)
      OBVIOUS
    <3>2. \A x : \A i \in I : x \in New(i) <=> x = s[i].to
      BY <2>1
    <3> QED
      BY <3>1, <3>2, Zenon
  <2> QED
    BY <2>2, <2>3
<1>11. \A i \in 1..n : One(M(i))
  BY <1>9, OneIs
<1>12. \A I \in SUBSET (1..n) : Legal(k, After(I))
  <2> HIDE DEF After, From, To
  <2> QED
    BY <1>8, <1>10
<1>13. After(1..n) = tab[n]
  <2>1. n \in 0..n
    BY <1>0
  <2>2. tab[n] = (tab[0] \ From(1..n)) \cup To(1..n)
    BY <2>1, <1>6
  <2> QED
    BY <2>2, <1>10
<1>14. UpdateRows(k, tab[0], s, cols) =
         IF (\A i \in 1..n : One(M(i))) /\ (\A I \in SUBSET (1..n) : Legal(k, After(I)))
         THEN {After(1..n)} ELSE {}
  BY <1>0 DEF UpdateRows, If
<1> QED
  BY <1>11, <1>12, <1>13, <1>14, Zenon

\* A delete names the row that the source deleted.
LEMMA DeletedIs ==
  ASSUME NEW k, IsKind(k), NEW c, Entry(k, c), c.op = "delete",
         NEW T, T \subseteq Row, Legal(k, T), c.from \in T
  PROVE  Deleted(k, T, c) = {c.from}
<1>1. CASE ~DeletesByKey(k)
  BY <1>1, MatchedIs DEF Deleted
<1>2. CASE DeletesByKey(k)
  <2>1. k.pk /\ c.from["id"] = c.old[1]["id"]
    BY <1>2 DEF DeletesByKey, Entry, Agrees
  <2>2. k.pk /\ c.from.id = c.old[1].id
    BY <2>1, RowIs DEF Entry
  <2>3. {row \in T : row.id = c.old[1].id} = {c.from}
    BY <2>2 DEF Legal
  <2> QED
    BY <1>2, <2>3 DEF Deleted
<1> QED
  BY <1>1, <1>2

LEMMA DeletesAre ==
  ASSUME NEW k, NEW s, NEW tab, NEW n, Trace(k, s, tab, n), AllOf(s, "delete")
  PROVE  DeleteRows(k, tab[0], s) = {tab[n]}
<1> DEFINE From(i) == {s[j].from : j \in 1..i}
           Good == {i \in 0..n : tab[i] = tab[0] \ From(i)}
<1>0. n \in Nat /\ DOMAIN s = 1..n /\ IsKind(k) /\ tab[0] \subseteq Row /\ Legal(k, tab[0])
  BY DEF Trace
<1>1. ASSUME NEW i \in 1..n
      PROVE  /\ s[i].op = "delete" /\ Entry(k, s[i])
             /\ s[i].from \in tab[i - 1] /\ tab[i] = tab[i - 1] \ {s[i].from}
             /\ i \in 0..n /\ i - 1 \in 0..n
  <2>1. s[i].op = "delete"
    BY <1>0 DEF AllOf
  <2> QED
    BY <2>1, TraceIs DEF Step
<1>2. ASSUME NEW i \in 1..n, i - 1 \in Good PROVE i \in Good /\ s[i].from \in tab[0]
  <2>1. \A j : j \in 1..i <=> j \in 1..(i - 1) \/ j = i
    BY <1>0
  <2>2. From(i) = From(i - 1) \cup {s[i].from}
    BY <2>1, Zenon
  <2>3. tab[i - 1] = tab[0] \ From(i - 1)
    BY <1>2
  <2> HIDE DEF From
  <2> QED
    BY <1>1, <2>2, <2>3
<1>3. \A i \in 0..n : i \in Good
  <2>1. 0 \in Good
    BY <1>0
  <2> HIDE DEF Good
  <2> QED
    BY <2>1, <1>0, <1>2, UpTo
<1>4. ASSUME NEW i \in 1..n PROVE Deleted(k, tab[0], s[i]) = {s[i].from}
  <2>1. s[i].from \in tab[0]
    BY <1>1, <1>2, <1>3
  <2> QED
    BY <2>1, <1>0, <1>1, DeletedIs
<1>5. \A i \in 1..n : One(Deleted(k, tab[0], s[i]))
  BY <1>4, OneIs
<1>6. \A x : x \in UNION {Deleted(k, tab[0], s[i]) : i \in 1..n} <=> x \in From(n)
  BY <1>4
<1>7. tab[n] = tab[0] \ From(n)
  BY <1>0, <1>3
<1>8. tab[0] \ UNION {Deleted(k, tab[0], s[i]) : i \in 1..n} = tab[n]
  <2> HIDE DEF From
  <2> QED
    BY <1>6, <1>7
<1> QED
  BY <1>0, <1>5, <1>8 DEF DeleteRows, If

\* Where the rows of a trace of updates come from, and where they go.
LEMMA UpdatesMove ==
  ASSUME NEW k, NEW s, NEW tab, NEW n, Trace(k, s, tab, n), AllOf(s, "update")
  PROVE  \A i \in 0..n :
           /\ \A x \in tab[i] : x \in tab[0] \/ \E j \in 1..i : x = s[j].to
           /\ \A x \in tab[0] : x \in tab[i] \/ \E j \in 1..i : x = s[j].from
<1> DEFINE Came(i) == \A x \in tab[i] : x \in tab[0] \/ \E j \in 1..i : x = s[j].to
           Went(i) == \A x \in tab[0] : x \in tab[i] \/ \E j \in 1..i : x = s[j].from
           Good == {i \in 0..n : Came(i) /\ Went(i)}
<1>0. n \in Nat /\ DOMAIN s = 1..n
  BY DEF Trace
<1>1. ASSUME NEW i \in 1..n, i - 1 \in Good PROVE i \in Good
  <2>1. tab[i] = (tab[i - 1] \ {s[i].from}) \cup {s[i].to}
    BY <1>0, TraceIs DEF AllOf, Step
  <2>2. \A j : j \in 1..i <=> j \in 1..(i - 1) \/ j = i
    BY <1>0
  <2>3. Came(i - 1) /\ Went(i - 1)
    BY <1>1
  <2>4. Came(i)
    BY <2>1, <2>2, <2>3
  <2>5. Went(i)
    BY <2>1, <2>2, <2>3
  <2> QED
    BY <1>0, <2>4, <2>5
<1>2. 0 \in Good
  BY <1>0
<1>3. \A i \in 0..n : i \in Good
  <2> HIDE DEF Good
  <2> QED
    BY <1>0, <1>1, <1>2, UpTo
<1> QED
  BY <1>3

Relocated(k, a, b) == ~Agrees(a.from, a.to, Key(k)) /\ Agrees(a.to, b.from, Key(k))

\* An inspected update finds its row as the source had it, or the row had another
\* identity when the chunk was inspected and nothing is found.
LEMMA InspectedIs ==
  ASSUME NEW k, NEW s, NEW tab, NEW n, Trace(k, s, tab, n), AllOf(s, "update"),
         DistinctRows(k, s, n), NEW i \in 1..n
  PROVE  \/ Matched(k, tab[0], s[i]) = {s[i].from}
         \/ /\ ~One(Matched(k, tab[0], s[i]))
            /\ \E j \in 1..n : j < i /\ Relocated(k, s[j], s[i])
<1>0. /\ n \in Nat /\ IsKind(k) /\ s[i].op = "update" /\ Entry(k, s[i]) /\ s[i].from \in tab[i - 1]
      /\ i - 1 \in 0..n
  BY DistinctIs
<1>1. /\ tab[0] \subseteq Row /\ Legal(k, tab[0])
      /\ tab[i - 1] \subseteq Row /\ Legal(k, tab[i - 1])
  BY <1>0 DEF Trace
<1>2. \A j \in 1..(i - 1) : j \in 1..n /\ j < i /\ i # j
  BY <1>0
<1>3. CASE s[i].from \in tab[0]
  BY <1>0, <1>1, <1>3, MatchedIs
<1>4. CASE s[i].from \notin tab[0]
  <2>1. PICK j \in 1..(i - 1) : s[i].from = s[j].to
    BY <1>0, <1>4, UpdatesMove
  <2>2. ~Agrees(s[j].from, s[i].from, Key(k))
    BY <1>2, DistinctIs
  <2>3. Relocated(k, s[j], s[i])
    BY <2>1, <2>2 DEF Relocated, Agrees
  <2>4. ASSUME NEW x \in Matched(k, tab[0], s[i]) PROVE FALSE
    <3>1. x \in tab[0] /\ Agrees(x, s[i].from, Key(k))
      BY <1>0 DEF Matched, Entry, Agrees
    <3>2. x \notin tab[i - 1]
      BY <3>1, <1>0, <1>1, <1>4, KeyUnique
    <3>3. PICK l \in 1..(i - 1) : x = s[l].from
      BY <3>1, <3>2, <1>0, UpdatesMove
    <3>4. ~Agrees(s[l].from, s[i].from, Key(k))
      BY <1>2, DistinctIs
    <3> QED
      BY <3>1, <3>3, <3>4
  <2>5. ~One(Matched(k, tab[0], s[i]))
    BY <2>4 DEF One
  <2> QED
    BY <2>3, <2>5, <1>2
<1> QED
  BY <1>3, <1>4

-----------------------------------------------------------------------------
(***************************************************************************)
(* The inductive invariant.                                                *)
(***************************************************************************)
Tuple == [Col -> Id \cup U \cup W \cup {Toast, Null}]
StreamChange ==
  [op : {"insert", "update", "delete", "truncate"}, rel : Rel, tx : Nat,
   old : Seq(Tuple), new : Tuple, from : Row, to : Row]
Tables == [Rel -> SUBSET Row]

\* The source's rows after the first g changes.
SourceAt(g) == IF g = 0 THEN Start ELSE states[g]

Recorded(g) ==
  /\ Entry(kind[log[g].rel], log[g])
  /\ Step(log[g], SourceAt(g - 1)[log[g].rel], SourceAt(g)[log[g].rel])
  /\ \A r \in Rel \ {log[g].rel} : SourceAt(g)[r] = SourceAt(g - 1)[r]

\* The stream is the history of the source.
LogInv ==
  /\ kind \in Schemas
  /\ log \in Seq(StreamChange) /\ states \in Seq(Tables) /\ Len(states) = Len(log)
  /\ source = SourceAt(Len(log))
  /\ \A g \in 1..Len(log) : Recorded(g)
  /\ \A g \in 0..Len(log), r \in Rel : Legal(kind[r], SourceAt(g)[r])

\* The target is where its progress says.
EndsInv ==
  /\ ends \in Seq(Nat)
  /\ \A i \in 1..Len(ends) : ends[i] <= Len(log)
  /\ \A i, j \in 1..Len(ends) : i <= j => ends[i] <= ends[j]
  /\ applied \in 0..Len(ends)
  /\ target = SourceAt(End(applied))

\* Relation r is at change g: what the plan has of it is what follows.
Reached(r, g) ==
  /\ work[r] = SourceAt(g)[r]
  /\ \A x \in Pending(batch) :
       log[x].rel = r => (x > g <=> \E i \in 1..Len(plan) : plan[i] = x)

\* Each relation is at some change of the batch, and the changes of a relation
\* are replayed in their order.
PlanInv ==
  /\ batch \in Nat /\ applied + batch <= Len(ends)
  /\ path \in {"batch", "serial", "spilled"}
  /\ plan \in Seq(Pending(batch))
  /\ \A i, j \in 1..Len(plan) : i < j /\ Change(i).rel = Change(j).rel => plan[i] < plan[j]
  /\ work \in Tables
  /\ \A r \in Rel : \E g \in End(applied) .. End(applied + batch) : Reached(r, g)

\* The updates of a call are of one relation, and a mask has what changed.
CallInv ==
  /\ stretch \in Nat /\ stretch <= Len(plan)
  /\ \A i \in 1..stretch : Change(i).op = "update" /\ Change(i).rel = Change(1).rel
  /\ masks \in Seq(SUBSET Col) /\ Len(masks) <= stretch
  /\ \A i \in 1..Len(masks) : masks[i] = Diff(Change(i))

IInv ==
  /\ LogInv /\ EndsInv
  /\ pc \in {"idle", "run", "failed"}
  /\ pc = "idle" => stretch = 0 /\ masks = << >>
  /\ pc = "run" => PlanInv /\ CallInv
  /\ pc = "failed" => KnownCase

-----------------------------------------------------------------------------
(***************************************************************************)
(* The source.                                                             *)
(***************************************************************************)
LEMMA RowTuple == Row \subseteq Tuple
<1> SUFFICES ASSUME NEW row \in Row PROVE row \in Tuple
  OBVIOUS
<1>1. row = [c \in Col |-> row[c]]
  BY DEF Row, Col
<1>2. \A c \in Col : row[c] \in Id \cup U \cup W
  BY DEF Row, Col
<1> QED
  BY <1>1, <1>2 DEF Tuple

LEMMA KeyTupleIs ==
  ASSUME NEW k, IsKind(k), NEW row \in Row
  PROVE  /\ KeyTuple(k, row) \in Tuple /\ Agrees(row, KeyTuple(k, row), Key(k))
         /\ k.identity = "index" => KeyTuple(k, row).id = Null
         /\ k.identity # "index" => KeyTuple(k, row).id = row.id
<1>1. row \in Tuple
  BY RowTuple
<1>2. KeyTuple(k, row) \in Tuple
  BY <1>1 DEF KeyTuple, Tuple
<1>3. Agrees(row, KeyTuple(k, row), Key(k))
  BY KindIs DEF KeyTuple, Agrees
<1>4. KeyTuple(k, row)["id"] = IF "id" \in Key(k) THEN row["id"] ELSE Null
  BY DEF KeyTuple, Col
<1>5. k.identity = "index" => "id" \notin Key(k)
  BY KindIs
<1>6. k.identity # "index" => "id" \in Key(k)
  BY KindIs DEF Col
<1> QED
  BY <1>2, <1>3, <1>4, <1>5, <1>6

LEMMA NewOfIs ==
  ASSUME NEW row \in Row, NEW new \in Row, NEW x, x = NewOf(row, new)
  PROVE  /\ x \in Tuple /\ x = [c \in Col |-> x[c]]
         /\ x["id"] = new["id"] /\ x["u"] = new["u"]
         /\ \A c \in Col : \/ x[c] = new[c] /\ x[c] # Toast
                           \/ x[c] = Toast /\ row[c] = new[c]
<1> DEFINE w == IF row.w = new.w /\ row.w \in Big THEN Toast ELSE new.w
<1>1. x = [c \in Col |-> IF c = "w" THEN w ELSE new[c]]
  BY DEF NewOf, Row, Col
<1>2. new \in Tuple /\ \A c \in Col : new[c] # Toast
  BY RowTuple, RowIs
<1>3. new.w = new["w"] /\ row.w = row["w"]
  BY RowIs
<1>4. w = new["w"] \/ (w = Toast /\ row["w"] = new["w"])
  BY <1>3
<1>5. w \in Id \cup U \cup W \cup {Toast, Null}
  BY <1>4, <1>2 DEF Tuple, Col
<1> HIDE DEF w
<1>6. x \in Tuple
  BY <1>1, <1>2, <1>5 DEF Tuple
<1>7. x["id"] = new["id"] /\ x["u"] = new["u"] /\ x["w"] = w
  BY <1>1 DEF Col
<1>8. ASSUME NEW c \in Col
      PROVE  (x[c] = new[c] /\ x[c] # Toast) \/ (x[c] = Toast /\ row[c] = new[c])
  <2>1. new[c] # Toast
    BY <1>2
  <2>2. CASE c = "w"
    BY <2>1, <2>2, <1>7, <1>4
  <2>3. CASE c # "w"
    <3>1. x[c] = new[c]
      BY <2>3, <1>7 DEF Col
    <3> QED
      BY <3>1, <2>1
  <2> QED
    BY <2>2, <2>3
<1> QED
  BY <1>1, <1>6, <1>7, <1>8

\* What the stream says of an update is enough to find the row and to make the
\* new one of it; a primary key outside the identity may change unseen.
LEMMA UpdateEntry ==
  ASSUME NEW k, IsKind(k), NEW row \in Row, NEW new \in Row, NEW c,
         c.op = "update", c.old = OldOf(k, row, new), c.new = NewOf(row, new),
         c.from = row, c.to = new
  PROVE  Entry(k, c) /\ c.new \in Tuple /\ c.old \in Seq(Tuple)
<1>1. /\ c.new \in Tuple /\ c.new = [col \in Col |-> c.new[col]]
      /\ c.new["id"] = new["id"] /\ c.new["u"] = new["u"]
      /\ \A col \in Col : \/ c.new[col] = new[col] /\ c.new[col] # Toast
                          \/ c.new[col] = Toast /\ row[col] = new[col]
  BY NewOfIs
<1>2. Sent(c)
  BY <1>1 DEF Sent
<1>3. CASE k.identity = "full" \/ ~Agrees(row, new, Key(k))
  <2>1. c.old = <<KeyTuple(k, row)>>
    BY <1>3 DEF OldOf
  <2>2. c.old \in Seq(Tuple) /\ c.old # << >> /\ c.old[1] = KeyTuple(k, row)
    BY <2>1, KeyTupleIs
  <2>3. Agrees(row, Predicate(c), Key(k))
    BY <2>2, KeyTupleIs DEF Predicate
  <2>4. Shown(k, c)
    <3> SUFFICES ASSUME row.id # new.id, c.old[1].id = c.new.id PROVE FALSE
      BY <2>2 DEF Shown
    <3>1. new.id # Null /\ c.new.id = new.id
      BY <1>1, RowIs DEF Col
    <3> QED
      BY <3>1, <2>2, KeyTupleIs
  <2> QED
    BY <1>1, <1>2, <2>2, <2>3, <2>4 DEF Entry
<1>4. CASE k.identity # "full" /\ Agrees(row, new, Key(k))
  <2>1. c.old = << >>
    BY <1>4 DEF OldOf
  <2>2. Predicate(c) = c.new
    BY <2>1 DEF Predicate
  <2>3. (Key(k) = {"id"} /\ k.identity = "default") \/ (Key(k) = {"u"} /\ k.identity = "index")
    <3>1. k.identity = "default" \/ k.identity = "index"
      BY <1>4, KindIs
    <3>2. k.identity = "default" => Key(k) = {"id"}
      BY KindIs
    <3>3. k.identity = "index" => Key(k) = {"u"}
      BY KindIs
    <3> QED
      BY <3>1, <3>2, <3>3
  <2>4. Agrees(row, c.new, Key(k))
    BY <2>3, <1>1, <1>4 DEF Agrees
  <2>5. row.id = row["id"] /\ new.id = new["id"] /\ row.u = row["u"] /\ new.u = new["u"]
    BY RowIs
  <2>6. Shown(k, c)
    <3> SUFFICES ASSUME row.id # new.id, k.pk PROVE HiddenKeyChange(k, c) /\ row.u = new.u
      BY DEF Shown
    <3>1. k.identity = "index" /\ row["u"] = new["u"]
      BY <2>3, <2>5, <1>4 DEF Agrees
    <3> QED
      BY <3>1, <2>5 DEF HiddenKeyChange
  <2>7. c.old \in Seq(Tuple)
    BY <2>1
  <2> QED
    BY <1>1, <1>2, <2>2, <2>4, <2>6, <2>7 DEF Entry
<1> QED
  BY <1>3, <1>4

LEMMA DeleteEntry ==
  ASSUME NEW k, IsKind(k), NEW row \in Row, NEW c,
         c.op = "delete", c.old = <<KeyTuple(k, row)>>, c.from = row, c.to = row
  PROVE  Entry(k, c) /\ c.old \in Seq(Tuple)
<1>1. c.old \in Seq(Tuple) /\ c.old # << >> /\ c.old[1] = KeyTuple(k, row)
  BY KeyTupleIs
<1>2. Predicate(c) = c.old[1] /\ Agrees(row, Predicate(c), Key(k))
  BY <1>1, KeyTupleIs DEF Predicate
<1> QED
  BY <1>1, <1>2 DEF Entry

LEMMA AtTables ==
  ASSUME LogInv, NEW g \in 0..Len(log) PROVE SourceAt(g) \in Tables
<1>1. Start \in Tables
  BY BoundAssumption DEF Tables
<1>2. CASE g = 0
  BY <1>1, <1>2 DEF SourceAt
<1>3. CASE g # 0
  <2>1. g \in 1..Len(states) /\ states \in Seq(Tables)
    BY <1>3 DEF LogInv
  <2> QED
    BY <2>1, <1>3 DEF SourceAt
<1> QED
  BY <1>2, <1>3

LEMMA EndIs ==
  ASSUME LogInv, EndsInv, NEW t \in 0..Len(ends)
  PROVE  End(t) \in 0..Len(log) /\ \A u \in 0..Len(ends) : t <= u => End(t) <= End(u)
<1>1. Len(log) \in Nat /\ Len(ends) \in Nat
  BY DEF LogInv, EndsInv
<1>2. \A u \in 1..Len(ends) : ends[u] \in Nat /\ ends[u] <= Len(log)
  BY DEF EndsInv
<1> QED
  BY <1>1, <1>2 DEF End, EndsInv

\* A change of the source is one more step of its history.
LEMMA WritesKeep ==
  ASSUME IInv, pc = "idle", NEW r \in Rel, NEW T \in SUBSET Row, NEW c \in StreamChange,
         c.rel = r, Entry(kind[r], c), Step(c, source[r], T), Writes(r, T, c)
  PROVE  IInv'
<1>0. LogInv /\ EndsInv /\ stretch = 0 /\ masks = << >>
  BY DEF IInv
<1>n. PICK n : n = Len(log)
  OBVIOUS
<1>1. /\ kind' = kind /\ source' = [source EXCEPT ![r] = T] /\ log' = Append(log, c)
      /\ states' = Append(states, source') /\ ends' = ends /\ target' = target
      /\ applied' = applied /\ pc' = pc /\ stretch' = stretch /\ masks' = masks
      /\ Legal(kind[r], T)
  BY DEF Writes
<1>2. /\ n \in Nat /\ log \in Seq(StreamChange) /\ states \in Seq(Tables)
      /\ Len(states) = n /\ Len(log) = n
  BY <1>0, <1>n DEF LogInv
<1>3. source \in Tables /\ source = SourceAt(n)
  BY <1>0, <1>2, AtTables DEF LogInv
<1>4. source' \in Tables /\ source'[r] = T /\ \A q \in Rel \ {r} : source'[q] = source[q]
  BY <1>1, <1>3 DEF Tables
<1>5. /\ log' \in Seq(StreamChange) /\ Len(log') = n + 1 /\ log'[n + 1] = c
      /\ \A g \in 1..n : log'[g] = log[g]
  BY <1>1, <1>2
<1>6. /\ states' \in Seq(Tables) /\ Len(states') = n + 1 /\ states'[n + 1] = source'
      /\ \A g \in 1..n : states'[g] = states[g]
  BY <1>1, <1>2, <1>4
<1>7. \A g \in 0..n : SourceAt(g)' = SourceAt(g)
  BY <1>2, <1>6 DEF SourceAt
<1>8. SourceAt(n + 1)' = source'
  BY <1>2, <1>6 DEF SourceAt
<1>9. ASSUME NEW g \in 1..(n + 1) PROVE Recorded(g)'
  <2>1. CASE g = n + 1
    <3>1. (n + 1) - 1 = n /\ n \in 0..n
      BY <1>2
    <3>2. log'[g] = c /\ SourceAt(g)' = source' /\ SourceAt(g - 1)' = source
      BY <2>1, <3>1, <1>3, <1>5, <1>7, <1>8
    <3> QED
      BY <3>2, <1>1, <1>4 DEF Recorded
  <2>2. CASE g # n + 1
    <3>1. g \in 1..n /\ g \in 0..n /\ g - 1 \in 0..n
      BY <2>2, <1>2
    <3>2. log'[g] = log[g] /\ SourceAt(g)' = SourceAt(g) /\ SourceAt(g - 1)' = SourceAt(g - 1)
      BY <3>1, <1>5, <1>7
    <3>3. Recorded(g)
      BY <3>1, <1>0, <1>2 DEF LogInv
    <3> QED
      BY <3>2, <3>3, <1>1 DEF Recorded
  <2> QED
    BY <2>1, <2>2
<1>10. ASSUME NEW g \in 0..(n + 1), NEW q \in Rel PROVE Legal(kind'[q], SourceAt(g)'[q])
  <2>1. CASE g = n + 1
    <3>1. SourceAt(g)' = source' /\ n \in 0..n
      BY <2>1, <1>8, <1>2
    <3>2. Legal(kind[q], source[q])
      BY <3>1, <1>0, <1>2, <1>3 DEF LogInv
    <3> QED
      BY <3>1, <3>2, <1>1, <1>4
  <2>2. CASE g # n + 1
    <3>1. g \in 0..n
      BY <2>2, <1>2
    <3> QED
      BY <3>1, <1>0, <1>1, <1>2, <1>7 DEF LogInv
  <2> QED
    BY <2>1, <2>2
<1>11. LogInv'
  BY <1>0, <1>1, <1>5, <1>6, <1>8, <1>9, <1>10 DEF LogInv
<1>12. EndsInv'
  <2>1. End(applied)' = End(applied)
    BY <1>1 DEF End
  <2>2. End(applied) \in 0..n
    BY <1>0, <1>2, EndIs DEF EndsInv
  <2>3. target' = SourceAt(End(applied))'
    BY <2>1, <2>2, <1>0, <1>1, <1>7 DEF EndsInv
  <2>4. \A i \in 1..Len(ends) : ends[i] <= n + 1
    BY <1>0, <1>2 DEF EndsInv
  <2> QED
    BY <2>3, <2>4, <1>0, <1>1, <1>5 DEF EndsInv
<1> QED
  BY <1>0, <1>1, <1>11, <1>12 DEF IInv

LEMMA InitIInv == Init => IInv
<1> SUFFICES ASSUME Init PROVE IInv
  OBVIOUS
<1>1. /\ kind \in Schemas /\ source = Start /\ target = Start /\ log = << >> /\ ends = << >>
      /\ states = << >> /\ applied = 0 /\ pc = "idle" /\ stretch = 0 /\ masks = << >>
  BY DEF Init
<1>2. Len(log) = 0 /\ Len(states) = 0 /\ Len(ends) = 0
  BY <1>1
<1>3. SourceAt(0) = Start /\ End(0) = 0
  BY DEF SourceAt, End
<1>4. \A r \in Rel : Legal(kind[r], Start[r])
  BY <1>1, StartAssumption
<1>5. LogInv
  BY <1>1, <1>2, <1>3, <1>4 DEF LogInv
<1>6. EndsInv
  BY <1>1, <1>2, <1>3 DEF EndsInv
<1> QED
  BY <1>1, <1>5, <1>6 DEF IInv

LEMMA SourceWritesKeep == ASSUME IInv, SourceWrites PROVE IInv'
<1>0. pc = "idle" /\ LogInv /\ Len(ends) \in Nat /\ Len(log) \in Nat
  BY DEF SourceWrites, IInv, EndsInv, LogInv
<1>1. source \in Tables
  BY <1>0, AtTables DEF LogInv
<1>2. PICK r \in Rel :
        \/ \E row \in Fresh[r] : SourceInsert(r, row)
        \/ \E row \in source[r], new \in Row : SourceUpdate(r, row, new)
        \/ \E row \in source[r] : SourceDelete(r, row)
        \/ SourceTruncate(r)
  BY DEF SourceWrites
<1>3. /\ source[r] \subseteq Row /\ Fresh[r] \subseteq Row /\ Row \subseteq Tuple
      /\ IsKind(kind[r]) /\ << >> \in Seq(Tuple)
  BY <1>0, <1>1, BoundAssumption, RowTuple DEF Tables, IsKind, LogInv
<1>4. ASSUME NEW row \in Fresh[r], SourceInsert(r, row) PROVE IInv'
  <2>1. PICK c : c = Changed("insert", r, << >>, row, row, row)
    OBVIOUS
  <2>2. /\ c.op = "insert" /\ c.rel = r /\ c.new = row /\ c.from = row /\ c.to = row
        /\ c \in StreamChange
    BY <2>1, <1>0, <1>3 DEF Changed, StreamChange
  <2>3. Entry(kind[r], c) /\ Step(c, source[r], source[r] \cup {row})
    BY <2>2, <1>3, <1>4 DEF Entry, Step, SourceInsert
  <2>4. Writes(r, source[r] \cup {row}, c) /\ source[r] \cup {row} \in SUBSET Row
    BY <2>1, <1>3, <1>4 DEF SourceInsert
  <2>5. PICK T : T = source[r] \cup {row}
    OBVIOUS
  <2> QED
    BY <2>2, <2>3, <2>4, <2>5, <1>0, WritesKeep
<1>5. ASSUME NEW row \in source[r], NEW new \in Row, SourceUpdate(r, row, new) PROVE IInv'
  <2>0. PICK T : T = (source[r] \ {row}) \cup {new}
    OBVIOUS
  <2>1. PICK c : c = Changed("update", r, OldOf(kind[r], row, new), NewOf(row, new), row, new)
    OBVIOUS
  <2>2. /\ c.op = "update" /\ c.rel = r /\ c.from = row /\ c.to = new
        /\ c.old = OldOf(kind[r], row, new) /\ c.new = NewOf(row, new)
        /\ row \in Row
    BY <2>1, <1>3 DEF Changed
  <2>3. Entry(kind[r], c) /\ c.new \in Tuple /\ c.old \in Seq(Tuple)
    BY <2>2, <1>3, UpdateEntry
  <2>4. c \in StreamChange
    BY <2>1, <2>2, <2>3, <1>0 DEF Changed, StreamChange
  <2>5. Step(c, source[r], T) /\ T \in SUBSET Row
    BY <2>0, <2>2, <1>3, <1>5 DEF Step, SourceUpdate
  <2>6. Writes(r, T, c)
    BY <2>0, <2>1, <1>5 DEF SourceUpdate
  <2> QED
    BY <2>2, <2>3, <2>4, <2>5, <2>6, <1>0, WritesKeep
<1>6. ASSUME NEW row \in source[r], SourceDelete(r, row) PROVE IInv'
  <2>1. PICK c : c = Changed("delete", r, <<KeyTuple(kind[r], row)>>, row, row, row)
    OBVIOUS
  <2>2. /\ c.op = "delete" /\ c.rel = r /\ c.from = row /\ c.to = row
        /\ c.old = <<KeyTuple(kind[r], row)>> /\ c.new = row /\ row \in Row
    BY <2>1, <1>3 DEF Changed
  <2>3. Entry(kind[r], c) /\ c.old \in Seq(Tuple)
    BY <2>2, <1>3, DeleteEntry
  <2>4. c \in StreamChange
    BY <2>1, <2>2, <2>3, <1>0, <1>3 DEF Changed, StreamChange
  <2>5. Step(c, source[r], source[r] \ {row}) /\ source[r] \ {row} \in SUBSET Row
    BY <2>2, <1>3, <1>6 DEF Step, SourceDelete
  <2>6. Writes(r, source[r] \ {row}, c)
    BY <2>1, <1>6 DEF SourceDelete
  <2>7. PICK T : T = source[r] \ {row}
    OBVIOUS
  <2> QED
    BY <2>2, <2>3, <2>4, <2>5, <2>6, <2>7, <1>0, WritesKeep
<1>7. ASSUME SourceTruncate(r) PROVE IInv'
  <2>0. PICK any : any = CHOOSE row \in source[r] : TRUE
    OBVIOUS
  <2>1. any \in Row
    BY <2>0, <1>3, <1>7 DEF SourceTruncate
  <2>2. PICK c : c = Changed("truncate", r, << >>, any, any, any)
    OBVIOUS
  <2>3. c.op = "truncate" /\ c.rel = r /\ c.from = any /\ c.to = any /\ c \in StreamChange
    BY <2>1, <2>2, <1>0, <1>3 DEF Changed, StreamChange
  <2>4. Entry(kind[r], c) /\ Step(c, source[r], {})
    BY <2>1, <2>3 DEF Entry, Step
  <2>5. Writes(r, {}, c)
    BY <2>0, <2>2, <1>7 DEF SourceTruncate
  <2> QED
    BY <2>3, <2>4, <2>5, <1>0, WritesKeep
<1> QED
  BY <1>2, <1>4, <1>5, <1>6, <1>7

LEMMA SourceCommitKeeps == ASSUME IInv, SourceCommit PROVE IInv'
<1>0. LogInv /\ EndsInv /\ stretch = 0 /\ masks = << >> /\ pc = "idle"
  BY DEF IInv, SourceCommit
<1>1. /\ ends' = Append(ends, Len(log)) /\ kind' = kind /\ source' = source /\ log' = log
      /\ states' = states /\ target' = target /\ applied' = applied /\ pc' = pc
      /\ stretch' = stretch /\ masks' = masks
  BY DEF SourceCommit
<1>2. \A g : SourceAt(g)' = SourceAt(g) /\ (Recorded(g)' <=> Recorded(g))
  BY <1>1 DEF SourceAt, Recorded
<1>3. LogInv'
  BY <1>0, <1>1, <1>2 DEF LogInv
<1>4. Len(log) \in Nat /\ Len(ends) \in Nat /\ ends \in Seq(Nat)
  BY <1>0 DEF LogInv, EndsInv
<1>5. /\ ends' \in Seq(Nat) /\ Len(ends') = Len(ends) + 1
      /\ ends'[Len(ends) + 1] = Len(log)
      /\ \A i \in 1..Len(ends) : ends'[i] = ends[i]
  BY <1>1, <1>4
<1>6. ASSUME NEW i \in 1..Len(ends') PROVE ends'[i] <= Len(log)
  <2>1. CASE i = Len(ends) + 1
    BY <2>1, <1>4, <1>5
  <2>2. CASE i # Len(ends) + 1
    <3>1. i \in 1..Len(ends)
      BY <2>2, <1>4, <1>5
    <3> QED
      BY <3>1, <1>0, <1>5 DEF EndsInv
  <2> QED
    BY <2>1, <2>2
<1>7. ASSUME NEW i \in 1..Len(ends'), NEW j \in 1..Len(ends'), i <= j
      PROVE  ends'[i] <= ends'[j]
  <2>1. CASE j = Len(ends) + 1
    BY <2>1, <1>5, <1>6
  <2>2. CASE j # Len(ends) + 1
    <3>1. j \in 1..Len(ends)
      BY <2>2, <1>4, <1>5
    <3>2. i \in 1..Len(ends)
      BY <3>1, <1>4, <1>5, <1>7
    <3> QED
      BY <3>1, <3>2, <1>0, <1>5, <1>7 DEF EndsInv
  <2> QED
    BY <2>1, <2>2
<1>8. End(applied)' = End(applied)
  BY <1>0, <1>1, <1>4, <1>5 DEF End, EndsInv
<1>9. EndsInv'
  BY <1>0, <1>1, <1>2, <1>4, <1>5, <1>6, <1>7, <1>8 DEF EndsInv
<1> QED
  BY <1>0, <1>1, <1>3, <1>9 DEF IInv

-----------------------------------------------------------------------------
(***************************************************************************)
(* The plan.                                                               *)
(***************************************************************************)

\* Changes of other relations leave a relation alone.
LEMMA Frame ==
  ASSUME LogInv, NEW a \in 0..Len(log), NEW b \in 0..Len(log), a <= b, NEW r \in Rel,
         \A x \in (a + 1)..b : log[x].rel # r
  PROVE  SourceAt(a)[r] = SourceAt(b)[r]
<1>0. Len(log) \in Nat /\ a \in Nat /\ b \in Nat /\ b - a \in Nat
  BY DEF LogInv
<1> DEFINE Good == {i \in 0..(b - a) : SourceAt(a + i)[r] = SourceAt(a)[r]}
<1>1. 0 \in Good
  BY <1>0
<1>2. ASSUME NEW i \in 1..(b - a), i - 1 \in Good PROVE i \in Good
  <2>1. PICK x : x = a + i
    OBVIOUS
  <2>2. x \in (a + 1)..b /\ x \in 1..Len(log) /\ a + (i - 1) = x - 1
    BY <2>1, <1>0
  <2>3. SourceAt(x)[r] = SourceAt(x - 1)[r]
    BY <2>2 DEF LogInv, Recorded
  <2>4. SourceAt(x - 1)[r] = SourceAt(a)[r]
    BY <2>2, <1>2
  <2> QED
    BY <2>1, <2>3, <2>4, <1>0
<1>3. \A i \in 0..(b - a) : i \in Good
  <2> HIDE DEF Good
  <2> QED
    BY <1>0, <1>1, <1>2, UpTo
<1>4. b - a \in Good /\ a + (b - a) = b
  BY <1>0, <1>3
<1> QED
  BY <1>4

LEMMA DropIs ==
  ASSUME NEW S, NEW s \in Seq(S), NEW n \in 0..Len(s), NEW d, d = SubSeq(s, n + 1, Len(s))
  PROVE  /\ d \in Seq(S) /\ Len(d) = Len(s) - n
         /\ \A j \in 1..(Len(s) - n) : d[j] = s[j + n]
OBVIOUS

\* What the plan and the stream have at a position.
LEMMA PlanIs ==
  ASSUME LogInv, EndsInv, PlanInv
  PROVE  /\ End(applied) \in Nat /\ End(applied + batch) \in Nat
         /\ End(applied) <= End(applied + batch) /\ End(applied + batch) <= Len(log)
         /\ Len(plan) \in Nat /\ Len(log) \in Nat
         /\ \A x \in Pending(batch) : x \in 1..Len(log) /\ log[x] \in StreamChange
         /\ \A i \in 1..Len(plan) :
              /\ plan[i] \in Pending(batch) /\ plan[i] \in 1..Len(log)
              /\ Change(i) \in StreamChange /\ Change(i).rel \in Rel
<1>1. applied \in 0..Len(ends) /\ applied + batch \in 0..Len(ends) /\ applied <= applied + batch
  BY DEF EndsInv, PlanInv
<1>2. /\ End(applied) \in Nat /\ End(applied + batch) \in Nat
      /\ End(applied) <= End(applied + batch) /\ End(applied + batch) <= Len(log)
  BY <1>1, EndIs
<1>3. Len(plan) \in Nat /\ Len(log) \in Nat
  BY DEF LogInv, PlanInv
<1>4. \A x \in Pending(batch) : x \in 1..Len(log) /\ log[x] \in StreamChange
  BY <1>2, <1>3 DEF Pending, LogInv
<1>5. \A i \in 1..Len(plan) : plan[i] \in Pending(batch)
  BY DEF PlanInv
<1>6. \A c \in StreamChange : c.rel \in Rel
  BY DEF StreamChange
<1> QED
  BY <1>2, <1>3, <1>4, <1>5, <1>6 DEF Change

\* The tables that the next n changes of a relation lead through.
LEMMA TraceOf ==
  ASSUME LogInv, EndsInv, PlanInv, NEW n \in 1..Len(plan), NEW r \in Rel,
         \A i \in 1..n : Change(i).rel = r
  PROVE  \E tab : /\ Trace(kind[r], Changes(n), tab, n)
                  /\ tab[0] = work[r]
                  /\ \A i \in 1..n : tab[i] = SourceAt(plan[i])[r]
<1> DEFINE tab == [i \in 0..n |-> IF i = 0 THEN work[r] ELSE SourceAt(plan[i])[r]]
<1>0. /\ Len(plan) \in Nat /\ Len(log) \in Nat /\ n \in Nat
      /\ \A i \in 1..n : i \in 1..Len(plan)
  BY PlanIs
<1>1. PICK g \in End(applied) .. End(applied + batch) : Reached(r, g)
  BY DEF PlanInv
<1>2. g \in 0..Len(log)
  BY <1>0, PlanIs
<1>3. ASSUME NEW i \in 1..n
      PROVE  /\ plan[i] \in Pending(batch) /\ plan[i] \in 1..Len(log) /\ log[plan[i]].rel = r
             /\ plan[i] > g
  <2>1. plan[i] \in Pending(batch) /\ plan[i] \in 1..Len(log)
    BY <1>0, PlanIs
  <2>2. log[plan[i]].rel = r
    BY DEF Change
  <2> QED
    BY <2>1, <2>2, <1>0, <1>1 DEF Reached
<1>4. ASSUME NEW x \in Pending(batch), log[x].rel = r, x > g
      PROVE  \E m \in 1..Len(plan) : /\ plan[m] = x
                                     /\ \A i \in 1..n : (m < i => x < plan[i]) /\ (i < m => plan[i] < x)
  <2>1. PICK m \in 1..Len(plan) : plan[m] = x
    BY <1>1, <1>4 DEF Reached
  <2>2. \A i \in 1..n : (m < i => x < plan[i]) /\ (i < m => plan[i] < x)
    BY <2>1, <1>0, <1>3, <1>4 DEF PlanInv, Change
  <2> QED
    BY <2>1, <2>2
<1>5. ASSUME NEW i \in 1..n PROVE SourceAt(plan[i] - 1)[r] = tab[i - 1]
  <2>1. PICK b : b = plan[i] - 1
    OBVIOUS
  <2>2. b \in 0..Len(log) /\ plan[i] = b + 1 /\ g <= b
    BY <2>1, <1>0, <1>2, <1>3
  <2>3. \A x \in (g + 1)..b : x \in Pending(batch) /\ x > g
    <3>1. b + 1 \in End(applied) + 1 .. End(applied + batch) /\ g \in End(applied) .. End(applied + batch)
      BY <2>2, <1>3 DEF Pending
    <3> QED
      BY <3>1, <2>2, PlanIs DEF Pending
  <2>4. CASE i = 1
    <3>1. \A x \in (g + 1)..b : log[x].rel # r
      <4> SUFFICES ASSUME NEW x \in (g + 1)..b, log[x].rel = r PROVE FALSE
        OBVIOUS
      <4>1. PICK m \in 1..Len(plan) : plan[m] = x /\ (i < m => plan[i] < x)
        BY <2>3, <1>4
      <4>2. m = 1 \/ 1 < m
        BY <1>0
      <4> QED
        BY <4>1, <4>2, <2>2, <2>4, <1>2
    <3>2. SourceAt(g)[r] = SourceAt(b)[r]
      BY <3>1, <2>2, <1>2, Frame
    <3> QED
      BY <3>2, <2>1, <2>4, <1>0, <1>1 DEF Reached
  <2>5. CASE i # 1
    <3>1. PICK h : h = i - 1
      OBVIOUS
    <3>2. h \in 1..n /\ i = h + 1 /\ h < i
      BY <3>1, <2>5, <1>0
    <3>3. plan[h] \in 1..Len(log) /\ plan[h] > g /\ plan[h] < plan[i]
      BY <3>2, <1>0, <1>3 DEF PlanInv
    <3>4. plan[h] <= b /\ plan[h] \in 0..Len(log)
      BY <3>3, <2>2
    <3>5. \A x \in (plan[h] + 1)..b : log[x].rel # r
      <4> SUFFICES ASSUME NEW x \in (plan[h] + 1)..b, log[x].rel = r PROVE FALSE
        OBVIOUS
      <4>x. PICK y : y = plan[h]
        OBVIOUS
      <4>y. y \in Nat /\ g \in Nat /\ b \in Nat /\ y > g /\ x \in (y + 1)..b /\ plan[i] = b + 1
        BY <4>x, <3>3, <2>2, <1>0, <1>2
      <4>z. x \in (g + 1)..b /\ x < b + 1 /\ y < x
        BY <4>y
      <4>0. x \in (g + 1)..b /\ x < plan[i] /\ plan[h] < x
        BY <4>x, <4>y, <4>z
      <4>a. x \in Pending(batch) /\ x > g
        BY <4>0, <2>3
      <4>b. PICK m \in 1..Len(plan) :
              /\ plan[m] = x
              /\ \A j \in 1..n : (m < j => x < plan[j]) /\ (j < m => plan[j] < x)
        BY <4>a, <1>4
      <4>1. plan[m] = x /\ (m < h => x < plan[h]) /\ (i < m => plan[i] < x)
        BY <4>b, <3>2
      <4>2. m < h \/ m = h \/ m = i \/ i < m
        BY <3>2, <1>0
      <4> QED
        BY <4>0, <4>1, <4>2, <2>2, <3>3
    <3>6. SourceAt(plan[h])[r] = SourceAt(b)[r]
      BY <3>4, <3>5, <2>2, Frame
    <3> QED
      BY <3>6, <3>1, <3>2, <2>1, <1>0
  <2> QED
    BY <2>4, <2>5
<1>6. ASSUME NEW i \in 0..n PROVE tab[i] \subseteq Row /\ Legal(kind[r], tab[i])
  <2>1. PICK h : h = IF i = 0 THEN g ELSE plan[i]
    OBVIOUS
  <2>2. h \in 0..Len(log) /\ tab[i] = SourceAt(h)[r]
    BY <2>1, <1>0, <1>1, <1>2, <1>3 DEF Reached
  <2>3. SourceAt(h) \in Tables /\ Legal(kind[r], SourceAt(h)[r])
    BY <2>2, AtTables DEF LogInv
  <2> QED
    BY <2>2, <2>3 DEF Tables
<1>7. ASSUME NEW i \in 1..n
      PROVE  Entry(kind[r], Changes(n)[i]) /\ Step(Changes(n)[i], tab[i - 1], tab[i])
  <2>1. Changes(n)[i] = log[plan[i]]
    BY DEF Changes, Change
  <2>2. Recorded(plan[i]) /\ log[plan[i]].rel = r
    BY <1>3 DEF LogInv
  <2>3. Step(log[plan[i]], SourceAt(plan[i] - 1)[r], SourceAt(plan[i])[r])
    BY <2>2 DEF Recorded
  <2>4. tab[i] = SourceAt(plan[i])[r]
    BY <1>0
  <2>5. Entry(kind[r], log[plan[i]])
    BY <2>2 DEF Recorded
  <2> HIDE DEF tab
  <2> QED
    BY <2>1, <2>3, <2>4, <2>5, <1>5
<1>8. DOMAIN Changes(n) = 1..n /\ Len(Changes(n)) = n
  BY <1>0 DEF Changes
<1>9. IsKind(kind[r])
  BY DEF LogInv, IsKind
<1>10. tab[0] = work[r] /\ \A i \in 1..n : tab[i] = SourceAt(plan[i])[r]
  BY <1>0
<1>11. Trace(kind[r], Changes(n), tab, n)
  <2> HIDE DEF tab
  <2> QED
    BY <1>0, <1>6, <1>7, <1>8, <1>9 DEF Trace
<1> HIDE DEF tab
<1> QED
  BY <1>10, <1>11

\* Relation r is where the last of its changes among the next n leaves it.
Moves(r, n, T) ==
  \/ \E i \in 1..n : /\ Change(i).rel = r /\ T = SourceAt(plan[i])[r]
                     /\ \A j \in 1..n : i < j => Change(j).rel # r
  \/ T = work[r] /\ \A i \in 1..n : Change(i).rel # r

\* The next n changes are replayed, and the relations have moved with them.
LEMMA Advance ==
  ASSUME LogInv, EndsInv, PlanInv, NEW n \in 1..Len(plan), Takes(n), work' \in Tables,
         \A r \in Rel : Moves(r, n, work'[r]),
         UNCHANGED <<srcVars, applied, batch, path>>
  PROVE  PlanInv'
<1>0. /\ kind' = kind /\ log' = log /\ ends' = ends /\ states' = states /\ applied' = applied
      /\ batch' = batch /\ path' = path
  BY DEF srcVars
<1>1. /\ \A t : End(t)' = End(t)
      /\ \A t : SourceAt(t)' = SourceAt(t)
      /\ Pending(batch)' = Pending(batch)
  BY <1>0 DEF End, SourceAt, Pending
<1>2. Len(plan) \in Nat /\ n \in Nat /\ n \in 0..Len(plan) /\ plan \in Seq(Pending(batch))
  BY PlanIs DEF PlanInv
<1>3. /\ plan' \in Seq(Pending(batch)) /\ Len(plan') = Len(plan) - n
      /\ \A j \in 1..(Len(plan) - n) : plan'[j] = plan[j + n]
  <2>1. PICK d : d = SubSeq(plan, n + 1, Len(plan))
    OBVIOUS
  <2>2. plan' = d
    BY <2>1 DEF Takes
  <2> QED
    BY <2>1, <2>2, <1>2, DropIs
<1>4. \A j \in 1..Len(plan') : /\ j + n \in 1..Len(plan) /\ j + n > n
                               /\ plan'[j] = plan[j + n] /\ Change(j)' = Change(j + n)
  BY <1>0, <1>2, <1>3 DEF Change
<1>5. ASSUME NEW i \in 1..Len(plan'), NEW j \in 1..Len(plan'), i < j,
             Change(i)'.rel = Change(j)'.rel
      PROVE  plan'[i] < plan'[j]
  <2>1. i + n < j + n
    BY <1>2, <1>5
  <2> QED
    BY <2>1, <1>4, <1>5 DEF PlanInv
<1>6. ASSUME NEW m \in 1..Len(plan), m > n PROVE \E j \in 1..Len(plan') : plan'[j] = plan[m]
  <2>1. PICK j : j = m - n
    OBVIOUS
  <2>2. j \in 1..Len(plan') /\ j + n = m
    BY <2>1, <1>2, <1>3, <1>6
  <2> QED
    BY <2>2, <1>4
<1>7. ASSUME NEW r \in Rel PROVE \E g \in End(applied) .. End(applied + batch) : Reached(r, g)'
  <2>1. PICK g \in End(applied) .. End(applied + batch) : Reached(r, g)
    BY DEF PlanInv
  <2>2. CASE work'[r] = work[r] /\ \A i \in 1..n : Change(i).rel # r
    <3>1. ASSUME NEW x \in Pending(batch), log[x].rel = r
          PROVE  x > g <=> \E j \in 1..Len(plan') : plan'[j] = x
      <4>1. x > g <=> \E m \in 1..Len(plan) : plan[m] = x
        BY <2>1, <3>1 DEF Reached
      <4>2. ASSUME NEW m \in 1..Len(plan), plan[m] = x PROVE m > n
        BY <2>2, <3>1, <4>2, <1>2 DEF Change
      <4> QED
        BY <4>1, <4>2, <1>4, <1>6
    <3>2. Reached(r, g)'
      BY <3>1, <2>1, <2>2, <1>0, <1>1 DEF Reached
    <3> QED
      BY <3>2
  <2>3. ASSUME NEW i \in 1..n, Change(i).rel = r, work'[r] = SourceAt(plan[i])[r],
               \A j \in 1..n : i < j => Change(j).rel # r
        PROVE  \E h \in End(applied) .. End(applied + batch) : Reached(r, h)'
    <3>0. PICK h : h = plan[i]
      OBVIOUS
    <3>1. /\ i \in 1..Len(plan) /\ h \in Pending(batch) /\ log[h].rel = r /\ h \in Nat
          /\ h \in End(applied) .. End(applied + batch)
      BY <2>3, <3>0, <1>2, PlanIs DEF Change, Pending
    <3>2. h > g
      BY <3>0, <3>1, <2>1 DEF Reached
    <3>3. ASSUME NEW x \in Pending(batch), log[x].rel = r
          PROVE  x > h <=> \E j \in 1..Len(plan') : plan'[j] = x
      <4>1. ASSUME NEW j \in 1..Len(plan'), plan'[j] = x PROVE x > h
        <5>1. i < j + n /\ plan[j + n] = x /\ j + n \in 1..Len(plan)
          BY <4>1, <1>2, <1>4
        <5>2. Change(j + n).rel = r
          BY <5>1, <3>3 DEF Change
        <5>3. plan[i] < plan[j + n]
          BY <5>1, <5>2, <2>3, <3>1 DEF PlanInv
        <5> QED
          BY <5>1, <5>3, <3>0, PlanIs
      <4>2. ASSUME x > h PROVE \E j \in 1..Len(plan') : plan'[j] = x
        <5>0. x \in Nat /\ g \in Nat
          BY PlanIs
        <5>1. x > g
          BY <5>0, <4>2, <3>1, <3>2
        <5>2. PICK m \in 1..Len(plan) : plan[m] = x
          BY <5>1, <2>1, <3>3 DEF Reached
        <5>3. Change(m).rel = r
          BY <5>2, <3>3 DEF Change
        <5>4. ~(m < i) /\ m # i
          <6>1. m < i => x < h
            BY <5>2, <5>3, <3>0, <3>1, <2>3 DEF PlanInv
          <6> QED
            BY <6>1, <5>0, <5>2, <4>2, <3>0, <3>1
        <5>5. i < m
          BY <5>4
        <5>6. m > n
          BY <5>3, <5>5, <2>3, <1>2
        <5> QED
          BY <5>2, <5>6, <1>6
      <4> QED
        BY <4>1, <4>2
    <3>4. Reached(r, h)'
      BY <3>0, <3>3, <2>3, <1>0, <1>1 DEF Reached
    <3> QED
      BY <3>1, <3>4
  <2>4. Moves(r, n, work'[r])
    OBVIOUS
  <2> QED
    BY <2>2, <2>3, <2>4 DEF Moves
<1> QED
  BY <1>0, <1>1, <1>3, <1>5, <1>7 DEF PlanInv

\* The changes of a run are of one kind, and of one relation unless they are
\* truncates.
LEMMA RunIs ==
  ASSUME LogInv, EndsInv, PlanInv, plan # << >>
  PROVE  /\ Run \in 1..Len(plan)
         /\ \A i \in 1..Run : /\ Change(i).op = Change(1).op
                              /\ Change(1).op # "truncate" => Change(i).rel = Change(1).rel
<1> DEFINE lens == {n \in 1..Len(plan) : \A i \in 2..n : Shares(Change(i - 1), Change(i))}
           Same(a, b) == a.op = b.op /\ (a.op # "truncate" => a.rel = b.rel)
<1>0. Len(plan) \in Nat /\ Len(plan) # 0
  BY DEF PlanInv
<1>1. 1 \in lens /\ lens \subseteq 0..Len(plan)
  BY <1>0
<1>2. Run \in lens
  <2>1. Run = Longest(lens)
    BY DEF Run
  <2> HIDE DEF lens
  <2> QED
    BY <2>1, <1>0, <1>1, LongestIs
<1>3. Run \in 1..Len(plan) /\ Run \in Nat
  BY <1>0, <1>2
<1>4. ASSUME NEW i \in 2..Run PROVE Same(Change(i - 1), Change(i))
  <2>1. Shares(Change(i - 1), Change(i))
    BY <1>2
  <2>2. path = "batch" \/ path = "serial" \/ path = "spilled"
    BY DEF PlanInv
  <2>3. CASE path = "batch"
    <3>1. BatchRun(Change(i - 1), Change(i))
      BY <2>1, <2>3 DEF Shares
    <3> QED
      BY <3>1 DEF BatchRun, ShareStatement
  <2>4. CASE path = "serial"
    <3>1. SerialRun(Change(i - 1), Change(i))
      BY <2>1, <2>4 DEF Shares
    <3> QED
      BY <3>1 DEF SerialRun, ShareStatement
  <2>5. CASE path = "spilled"
    <3>1. SpillRun(Change(i - 1), Change(i))
      BY <2>1, <2>5 DEF Shares
    <3> QED
      BY <3>1 DEF SpillRun, ShareStatement
  <2> QED
    BY <2>2, <2>3, <2>4, <2>5
<1> DEFINE Good == {i \in 0..Run : i # 0 => Same(Change(1), Change(i))}
<1>5. ASSUME NEW i \in 1..Run, i - 1 \in Good PROVE i \in Good
  <2>1. CASE i = 1
    BY <2>1, <1>3
  <2>2. CASE i # 1
    <3>1. i \in 2..Run /\ i - 1 # 0
      BY <2>2, <1>3
    <3>2. Same(Change(1), Change(i - 1)) /\ Same(Change(i - 1), Change(i))
      BY <3>1, <1>4, <1>5
    <3> QED
      BY <3>2, <1>3
  <2> QED
    BY <2>1, <2>2
<1>6. \A i \in 0..Run : i \in Good
  <2>1. 0 \in Good
    BY <1>3
  <2> HIDE DEF Good
  <2> QED
    BY <2>1, <1>3, <1>5, UpTo
<1>7. \A i \in 1..Run : Same(Change(1), Change(i))
  BY <1>3, <1>6
<1> QED
  BY <1>3, <1>7

LEMMA ChunkIs ==
  ASSUME NEW n \in Nat \ {0}, NEW X, X \subseteq Pairs(n)
  PROVE  /\ Chunk(n, X) \in 1..n
         /\ \A i, j \in 1..Chunk(n, X) : i < j => <<i, j>> \notin X
<1> DEFINE lens == {l \in 1..n : l <= ChunkRows /\ \A p \in X : p[2] > l}
<1>1. ASSUME NEW p \in X PROVE p[2] \in Nat /\ p[2] > 1
  BY DEF Pairs
<1>2. 1 \in lens /\ lens \subseteq 0..n
  BY <1>1, BoundAssumption
<1>3. Chunk(n, X) \in lens
  <2>1. Chunk(n, X) = Longest(lens)
    BY DEF Chunk
  <2> HIDE DEF lens
  <2> QED
    BY <2>1, <1>2, LongestIs
<1>4. Chunk(n, X) \in 1..n
  BY <1>3
<1>5. ASSUME NEW i \in 1..Chunk(n, X), NEW j \in 1..Chunk(n, X), <<i, j>> \in X PROVE FALSE
  <2>1. <<i, j>>[2] > Chunk(n, X)
    BY <1>3, <1>5
  <2> QED
    BY <2>1, <1>4
<1> QED
  BY <1>4, <1>5

-----------------------------------------------------------------------------
(***************************************************************************)
(* The applier.                                                            *)
(***************************************************************************)
LEMMA Unmoved ==
  ASSUME LogInv, EndsInv, UNCHANGED <<srcVars, target, applied>> PROVE LogInv' /\ EndsInv'
<1>0. /\ kind' = kind /\ source' = source /\ log' = log /\ ends' = ends /\ states' = states
      /\ target' = target /\ applied' = applied
  BY DEF srcVars
<1>1. \A g : SourceAt(g)' = SourceAt(g) /\ (Recorded(g)' <=> Recorded(g)) /\ End(g)' = End(g)
  BY <1>0 DEF SourceAt, Recorded, End
<1>2. LogInv'
  BY <1>0, <1>1 DEF LogInv
<1>3. EndsInv'
  <2>1. SourceAt(End(applied))' = SourceAt(End(applied))
    BY <1>0 DEF SourceAt, End
  <2> QED
    BY <1>0, <2>1 DEF EndsInv
<1> QED
  BY <1>2, <1>3

LEMMA KnownCaseStays ==
  ASSUME KnownCase, UNCHANGED <<srcVars, applied, batch>> PROVE KnownCase'
<1>0. /\ kind' = kind /\ log' = log /\ ends' = ends /\ applied' = applied /\ batch' = batch
  BY DEF srcVars
<1>1. Pending(batch)' = Pending(batch)
  BY <1>0 DEF Pending, End
<1> QED
  BY <1>0, <1>1 DEF KnownCase

\* A statement that leaves the rows of the source, or fails in a known case.
LEMMA StatementKeeps ==
  ASSUME IInv, pc = "run", NEW n \in 1..Len(plan),
         \A i \in 1..n : Change(i).rel = Change(1).rel,
         NEW tables, Executes(tables), Takes(n),
         \/ tables = {SourceAt(plan[n])[Change(1).rel]}
         \/ tables = {} /\ KnownCase,
         UNCHANGED <<srcVars, target, applied, batch, path>>, CallInv'
  PROVE  IInv'
<1>0. LogInv /\ EndsInv /\ PlanInv
  BY DEF IInv
<1>1. LogInv' /\ EndsInv'
  BY <1>0, Unmoved
<1>2. CASE tables = {} /\ KnownCase
  <2>1. pc' = "failed"
    BY <1>2 DEF Executes
  <2>2. KnownCase'
    BY <1>2, KnownCaseStays
  <2> QED
    BY <1>1, <2>1, <2>2 DEF IInv
<1>3. CASE tables = {SourceAt(plan[n])[Change(1).rel]}
  <2>0. PICK r : r = Change(1).rel
    OBVIOUS
  <2>1. r \in Rel /\ n \in 1..Len(plan) /\ plan[n] \in 0..Len(log) /\ Len(plan) \in Nat
    BY <2>0, <1>0, PlanIs
  <2>2. SourceAt(plan[n]) \in Tables
    BY <2>1, <1>0, AtTables
  <2>3. pc' = "run" /\ work' = [work EXCEPT ![r] = SourceAt(plan[n])[r]]
    BY <1>3, <2>0 DEF Executes
  <2>4. work \in Tables
    BY <1>0 DEF PlanInv
  <2>5. work' \in Tables /\ work'[r] = SourceAt(plan[n])[r] /\ \A q \in Rel \ {r} : work'[q] = work[q]
    BY <2>1, <2>2, <2>3, <2>4 DEF Tables
  <2>6. ASSUME NEW q \in Rel PROVE Moves(q, n, work'[q])
    <3>1. CASE q = r
      <4>1. n \in 1..n /\ \A j \in 1..n : ~(n < j)
        BY <2>1
      <4> QED
        BY <4>1, <3>1, <2>0, <2>5 DEF Moves
    <3>2. CASE q # r
      BY <3>2, <2>0, <2>5 DEF Moves
    <3> QED
      BY <3>1, <3>2
  <2>7. PlanInv'
    BY <1>0, <2>5, <2>6, Advance
  <2> QED
    BY <1>1, <2>3, <2>7 DEF IInv
<1> QED
  BY <1>2, <1>3

\* The call of applyLegacyUpdates goes on with the changes that are left.
LEMMA CallGoesOn ==
  ASSUME IInv, pc = "run", NEW n \in 1..Len(plan), Takes(n), UNCHANGED srcVars,
         \/ n <= stretch /\ stretch' = stretch - n
         \/ stretch = 0 /\ stretch' = 0,
         \/ masks = << >> /\ masks' = << >>
         \/ n <= Len(masks) /\ masks' = SubSeq(masks, n + 1, Len(masks))
  PROVE  CallInv'
<1>0. /\ PlanInv /\ CallInv /\ log' = log /\ Len(plan) \in Nat /\ n \in Nat
      /\ plan \in Seq(Pending(batch)) /\ n \in 0..Len(plan)
  BY DEF IInv, PlanInv, srcVars
<1>1. /\ Len(plan') = Len(plan) - n
      /\ \A j \in 1..(Len(plan) - n) : plan'[j] = plan[j + n]
  <2>1. PICK d : d = SubSeq(plan, n + 1, Len(plan))
    OBVIOUS
  <2> QED
    BY <2>1, <1>0, DropIs DEF Takes
<1>2. stretch \in Nat /\ stretch <= Len(plan) /\ masks \in Seq(SUBSET Col) /\ Len(masks) <= stretch
      /\ Len(masks) \in Nat
  BY <1>0 DEF CallInv
<1>3. stretch' \in Nat /\ stretch' <= Len(plan')
  BY <1>0, <1>1, <1>2
<1>4. \A j \in 1..Len(plan') : Change(j)' = Change(j + n)
  BY <1>0, <1>1 DEF Change
<1>5. ASSUME NEW i \in 1..stretch'
      PROVE  /\ i + n \in 1..stretch /\ 1 + n \in 1..stretch
             /\ Change(i)' = Change(i + n) /\ Change(1)' = Change(1 + n)
  BY <1>0, <1>1, <1>2, <1>3, <1>4
<1>6. \A i \in 1..stretch' : Change(i)'.op = "update" /\ Change(i)'.rel = Change(1)'.rel
  BY <1>0, <1>5 DEF CallInv
<1>7. /\ masks' \in Seq(SUBSET Col) /\ Len(masks') <= stretch'
      /\ \A i \in 1..Len(masks') : masks'[i] = Diff(Change(i)')
  <2>1. CASE masks = << >> /\ masks' = << >>
    BY <2>1, <1>3
  <2>2. CASE n <= Len(masks) /\ masks' = SubSeq(masks, n + 1, Len(masks))
    <3>0. n \in 0..Len(masks)
      BY <2>2, <1>0, <1>2
    <3>1. PICK d : d = SubSeq(masks, n + 1, Len(masks))
      OBVIOUS
    <3>2. /\ masks' \in Seq(SUBSET Col) /\ Len(masks') = Len(masks) - n
          /\ \A j \in 1..(Len(masks) - n) : masks'[j] = masks[j + n]
      BY <3>0, <3>1, <2>2, <1>2, DropIs
    <3>3. Len(masks') <= stretch'
      BY <3>2, <1>0, <1>2, <2>2
    <3>4. ASSUME NEW i \in 1..Len(masks') PROVE masks'[i] = Diff(Change(i)')
      <4>1. i + n \in 1..Len(masks) /\ i \in 1..Len(plan')
        BY <3>2, <3>3, <1>0, <1>1, <1>2, <1>3
      <4>2. masks'[i] = masks[i + n] /\ masks[i + n] = Diff(Change(i + n))
        BY <4>1, <3>2, <1>0 DEF CallInv
      <4> QED
        BY <4>1, <4>2, <1>4
    <3> QED
      BY <3>2, <3>3, <3>4
  <2> QED
    BY <2>1, <2>2
<1>8. \A i : Diff(Change(i))' = Diff(Change(i)')
  BY DEF Diff
<1> QED
  BY <1>3, <1>6, <1>7, <1>8 DEF CallInv

\* The next n changes, all of one operation and one relation, as a trace from the
\* rows that the applier sees to those of the source.
Leads(tab, n, op) ==
  /\ Trace(K, Changes(n), tab, n) /\ AllOf(Changes(n), op)
  /\ tab[0] = Rows
  /\ \A i \in 1..n : tab[i] = SourceAt(plan[i])[Change(1).rel]

LEMMA HeadTrace ==
  ASSUME IInv, pc = "run", NEW n \in 1..Len(plan), NEW op,
         \A i \in 1..n : Change(i).rel = Change(1).rel /\ Change(i).op = op
  PROVE  \E tab : Leads(tab, n, op)
<1>0. LogInv /\ EndsInv /\ PlanInv
  BY DEF IInv
<1>1. Len(plan) \in Nat /\ 1 \in 1..Len(plan) /\ n \in Nat
  BY <1>0, PlanIs
<1>2. PICK r \in Rel : r = Change(1).rel
  BY <1>0, <1>1, PlanIs
<1>3. PICK tab : /\ Trace(kind[r], Changes(n), tab, n) /\ tab[0] = work[r]
                 /\ \A i \in 1..n : tab[i] = SourceAt(plan[i])[r]
  BY <1>0, <1>2, TraceOf
<1>4. AllOf(Changes(n), op)
  BY DEF AllOf, Changes
<1> QED
  BY <1>2, <1>3, <1>4 DEF K, Rows, Leads

\* A prefix of the run at the head of the plan.
LEMMA HeadRun ==
  ASSUME IInv, NEW op, Building(op)
  PROVE  /\ pc = "run" /\ stretch = 0 /\ masks = << >> /\ Change(1).op = op
         /\ Run \in 1..Len(plan) /\ Run \in Nat \ {0}
         /\ \A i \in 1..Run : Change(i).op = op
         /\ op # "truncate" => \A i \in 1..Run : Change(i).rel = Change(1).rel
<1>0. pc = "run" /\ stretch = 0 /\ plan # << >> /\ Change(1).op = op
  BY DEF Building
<1>1. LogInv /\ EndsInv /\ PlanInv /\ CallInv
  BY <1>0 DEF IInv
<1>2. masks = << >>
  BY <1>0, <1>1 DEF CallInv
<1>3. Len(plan) \in Nat
  BY <1>1, PlanIs
<1> QED
  BY <1>0, <1>1, <1>2, <1>3, RunIs

\* A statement for the first n changes of a run leaves no call half way.
LEMMA RunGoesOn ==
  ASSUME IInv, NEW op, Building(op), NEW n \in 1..Run, Takes(n), UNCHANGED srcVars,
         UNCHANGED <<stretch, masks>>
  PROVE  CallInv' /\ n \in 1..Len(plan)
<1>1. pc = "run" /\ stretch = 0 /\ masks = << >> /\ n \in 1..Len(plan)
  BY HeadRun
<1>2. stretch' = 0 /\ masks' = << >>
  BY <1>1
<1> QED
  BY <1>1, <1>2, CallGoesOn

LEMMA InsertsKeep == ASSUME IInv, applyInserts PROVE IInv'
<1>0. PICK n : n = Chunk(Run, {})
  OBVIOUS
<1>1. /\ Building("insert") /\ Takes(n) /\ Executes(InsertRows(K, Rows, Changes(n)))
      /\ UNCHANGED <<srcVars, target, applied, batch, path, stretch, alone, masks>>
  BY <1>0 DEF applyInserts
<1>2. /\ pc = "run" /\ Run \in Nat \ {0} /\ Run \in 1..Len(plan)
      /\ \A i \in 1..Run : Change(i).op = "insert" /\ Change(i).rel = Change(1).rel
  BY <1>1, HeadRun
<1>3. n \in 1..Run
  BY <1>0, <1>2, ChunkIs
<1>4. CallInv' /\ n \in 1..Len(plan)
  BY <1>1, <1>3, RunGoesOn
<1>5. \A i \in 1..n : Change(i).rel = Change(1).rel /\ Change(i).op = "insert"
  BY <1>2, <1>3
<1>x. PICK tab : Leads(tab, n, "insert")
  BY <1>2, <1>4, <1>5, HeadTrace
<1>6. /\ Trace(K, Changes(n), tab, n) /\ AllOf(Changes(n), "insert") /\ tab[0] = Rows
      /\ \A i \in 1..n : tab[i] = SourceAt(plan[i])[Change(1).rel]
  BY <1>x DEF Leads
<1>7. InsertRows(K, Rows, Changes(n)) = {SourceAt(plan[n])[Change(1).rel]}
  BY <1>3, <1>6, InsertsAre
<1>8. PICK tables : tables = InsertRows(K, Rows, Changes(n))
  OBVIOUS
<1> QED
  BY <1>1, <1>2, <1>4, <1>5, <1>7, <1>8, StatementKeeps

LEMMA DeletesKeep == ASSUME IInv, applyDeletes PROVE IInv'
<1>0. PICK n : n = DeleteChunk
  OBVIOUS
<1>1. /\ Building("delete") /\ Takes(n) /\ Executes(DeleteRows(K, Rows, Changes(n)))
      /\ UNCHANGED <<srcVars, target, applied, batch, path, stretch, alone, masks>>
  BY <1>0 DEF applyDeletes
<1>2. /\ pc = "run" /\ Run \in Nat \ {0} /\ Run \in 1..Len(plan)
      /\ \A i \in 1..Run : Change(i).op = "delete" /\ Change(i).rel = Change(1).rel
  BY <1>1, HeadRun
<1>3. n \in 1..Run
  <2>1. PICK by : by = IF DeletesByKey(K) THEN {"id"} ELSE IdentityColumns(K)
    OBVIOUS
  <2>2. PICK X : X = {p \in Pairs(Run) : Agrees(Change(p[1]).old[1], Change(p[2]).old[1], by)}
    OBVIOUS
  <2>3. n = IF by = {} THEN 1 ELSE Chunk(Run, X)
    BY <1>0, <2>1, <2>2 DEF DeleteChunk
  <2>4. X \subseteq Pairs(Run)
    BY <2>2
  <2>5. Chunk(Run, X) \in 1..Run
    BY <2>4, <1>2, ChunkIs
  <2> QED
    BY <2>3, <2>5, <1>2
<1>4. CallInv' /\ n \in 1..Len(plan)
  BY <1>1, <1>3, RunGoesOn
<1>5. \A i \in 1..n : Change(i).rel = Change(1).rel /\ Change(i).op = "delete"
  BY <1>2, <1>3
<1>x. PICK tab : Leads(tab, n, "delete")
  BY <1>2, <1>4, <1>5, HeadTrace
<1>6. /\ Trace(K, Changes(n), tab, n) /\ AllOf(Changes(n), "delete") /\ tab[0] = Rows
      /\ \A i \in 1..n : tab[i] = SourceAt(plan[i])[Change(1).rel]
  BY <1>x DEF Leads
<1>7. DeleteRows(K, Rows, Changes(n)) = {SourceAt(plan[n])[Change(1).rel]}
  BY <1>3, <1>6, DeletesAre
<1>8. PICK tables : tables = DeleteRows(K, Rows, Changes(n))
  OBVIOUS
<1> QED
  BY <1>1, <1>2, <1>4, <1>5, <1>7, <1>8, StatementKeeps

LEMMA UpsertsKeep == ASSUME IInv, applyUpserts PROVE IInv'
<1>a. PICK X : X = {p \in Pairs(Run) : \/ ~CanUpsert(K, Change(p[2]))
                                       \/ Change(p[1]).new.id = Change(p[2]).new.id}
  OBVIOUS
<1>0. PICK n : n = Chunk(Run, X)
  OBVIOUS
<1>1. /\ Building("update") /\ Takes(n) /\ Executes(UpsertRows(K, Rows, Changes(n)))
      /\ CanUpsert(K, Change(1))
      /\ UNCHANGED <<srcVars, target, applied, batch, path, stretch, alone, masks>>
  BY <1>0, <1>a DEF applyUpserts
<1>2. /\ pc = "run" /\ Run \in Nat \ {0} /\ Run \in 1..Len(plan)
      /\ \A i \in 1..Run : Change(i).op = "update" /\ Change(i).rel = Change(1).rel
  BY <1>1, HeadRun
<1>3. n \in 1..Run /\ \A i, j \in 1..n : i < j => <<i, j>> \notin X
  <2>1. X \subseteq Pairs(Run)
    BY <1>a
  <2> QED
    BY <2>1, <1>0, <1>2, ChunkIs
<1>4. CallInv' /\ n \in 1..Len(plan)
  BY <1>1, <1>3, RunGoesOn
<1>5. \A i \in 1..n : Change(i).rel = Change(1).rel /\ Change(i).op = "update"
  BY <1>2, <1>3
<1>x. PICK tab : Leads(tab, n, "update")
  BY <1>2, <1>4, <1>5, HeadTrace
<1>6. /\ Trace(K, Changes(n), tab, n) /\ AllOf(Changes(n), "update") /\ tab[0] = Rows
      /\ \A i \in 1..n : tab[i] = SourceAt(plan[i])[Change(1).rel]
  BY <1>x DEF Leads
<1>7. ASSUME NEW i \in 1..n, NEW j \in 1..n, i < j
      PROVE  CanUpsert(K, Change(j)) /\ Change(i).new.id # Change(j).new.id
  <2>1. <<i, j>> \in Pairs(Run) /\ <<i, j>>[1] = i /\ <<i, j>>[2] = j
    BY <1>2, <1>3, <1>7 DEF Pairs
  <2>2. <<i, j>> \notin X
    BY <1>3, <1>7
  <2> QED
    BY <2>1, <2>2, <1>a
<1>8. \A i \in 1..n : CanUpsert(K, Change(i))
  <2> SUFFICES ASSUME NEW i \in 1..n PROVE CanUpsert(K, Change(i))
    OBVIOUS
  <2>1. i = 1 \/ (1 < i /\ 1 \in 1..n)
    BY <1>2, <1>3
  <2> QED
    BY <2>1, <1>1, <1>7
<1>9. \A i \in 1..n : Changes(n)[i] = Change(i)
  BY DEF Changes
<1>10. /\ K.pk
       /\ \A i \in 1..n : /\ \A col \in Col : Changes(n)[i].new[col] # Toast
                          /\ Changes(n)[i].old # << >> =>
                               Changes(n)[i].old[1].id = Changes(n)[i].new.id
       /\ \A i, j \in 1..n : i < j => Changes(n)[i].new.id # Changes(n)[j].new.id
  <2>1. K.arbiter /\ IsKind(K)
    BY <1>1, <1>6 DEF CanUpsert, Trace
  <2>2. K.pk
    BY <2>1, KindIs
  <2> QED
    BY <2>2, <1>7, <1>8, <1>9 DEF CanUpsert
<1>11. \/ UpsertRows(K, Rows, Changes(n)) = {tab[n]}
       \/ /\ UpsertRows(K, Rows, Changes(n)) = {}
          /\ \E i \in 1..n : HiddenKeyChange(K, Changes(n)[i])
  BY <1>6, <1>10, UpsertsAre
<1>12. ASSUME NEW i \in 1..n, HiddenKeyChange(K, Change(i)) PROVE KnownCase
  <2>1. plan[i] \in Pending(batch)
    BY <1>2, <1>4, PlanIs DEF IInv
  <2>2. kind[log[plan[i]].rel] = K /\ Change(i) = log[plan[i]]
    BY <1>5 DEF K, Change
  <2> QED
    BY <2>1, <2>2, <1>12 DEF KnownCase
<1>13. tab[n] = SourceAt(plan[n])[Change(1).rel]
  BY <1>3, <1>6
<1>14. PICK tables : tables = UpsertRows(K, Rows, Changes(n))
  OBVIOUS
<1>15. \/ tables = {SourceAt(plan[n])[Change(1).rel]}
       \/ tables = {} /\ KnownCase
  BY <1>9, <1>11, <1>12, <1>13, <1>14
<1> QED
  BY <1>1, <1>2, <1>4, <1>5, <1>14, <1>15, StatementKeeps

LEMMA PlanStays ==
  ASSUME PlanInv, UNCHANGED <<srcVars, applied, batch, path, plan, work>> PROVE PlanInv'
<1>0. /\ kind' = kind /\ log' = log /\ ends' = ends /\ states' = states /\ applied' = applied
      /\ batch' = batch /\ path' = path /\ plan' = plan /\ work' = work
  BY DEF srcVars
<1>1. /\ End(applied)' = End(applied) /\ End(applied + batch)' = End(applied + batch)
      /\ \A g : SourceAt(g)' = SourceAt(g)
      /\ \A i : Change(i)' = Change(i)
      /\ Pending(batch)' = Pending(batch)
  BY <1>0 DEF End, SourceAt, Pending, Change
<1>2. \A r, g : Reached(r, g)' <=> Reached(r, g)
  BY <1>0, <1>1 DEF Reached
<1> QED
  BY <1>0, <1>1, <1>2 DEF PlanInv

LEMMA LegacyUpdatesKeep == ASSUME IInv, applyLegacyUpdates PROVE IInv'
<1> DEFINE lens == {n \in 1..Run : \A i \in 1..n : ~CanUpsert(K, Change(i))}
<1>1. /\ Building("update") /\ ~CanUpsert(K, Change(1)) /\ stretch' = Longest(lens)
      /\ UNCHANGED <<srcVars, target, applied, pc, work, batch, path, plan, masks>>
  BY DEF applyLegacyUpdates
<1>2. /\ pc = "run" /\ masks = << >> /\ Run \in Nat \ {0} /\ Run \in 1..Len(plan)
      /\ \A i \in 1..Run : Change(i).op = "update" /\ Change(i).rel = Change(1).rel
  BY <1>1, HeadRun
<1>3. stretch' \in 1..Run
  <2>1. 1 \in lens /\ lens \subseteq 0..Run /\ lens \subseteq 1..Run
    BY <1>1, <1>2
  <2> HIDE DEF lens
  <2> QED
    BY <2>1, <1>1, <1>2, LongestIs
<1>4. LogInv /\ EndsInv /\ PlanInv /\ Len(plan) \in Nat
  BY <1>2, PlanIs DEF IInv
<1>5. log' = log /\ plan' = plan /\ masks' = << >>
  BY <1>1, <1>2 DEF srcVars
<1>6. \A i : Change(i)' = Change(i)
  BY <1>5 DEF Change
<1>7. CallInv'
  BY <1>2, <1>3, <1>4, <1>5, <1>6 DEF CallInv
<1>8. LogInv' /\ EndsInv' /\ PlanInv'
  BY <1>1, <1>4, Unmoved, PlanStays
<1> QED
  BY <1>1, <1>2, <1>7, <1>8 DEF IInv

\* The updates of a call.
LEMMA StretchIs ==
  ASSUME IInv, pc = "run", stretch > 0
  PROVE  /\ stretch \in Nat \ {0} /\ stretch <= Len(plan) /\ Len(plan) \in Nat
         /\ \A i \in 1..stretch : Change(i).rel = Change(1).rel /\ Change(i).op = "update"
         /\ IsKind(K) /\ LogInv /\ EndsInv /\ PlanInv /\ CallInv
<1>0. LogInv /\ EndsInv /\ PlanInv /\ CallInv
  BY DEF IInv
<1>1. stretch \in Nat \ {0} /\ stretch <= Len(plan) /\ Len(plan) \in Nat
  BY <1>0, PlanIs DEF CallInv
<1>2. Change(1).rel \in Rel
  BY <1>0, <1>1, PlanIs
<1>3. IsKind(K)
  BY <1>0, <1>2 DEF K, IsKind, LogInv
<1> QED
  BY <1>0, <1>1, <1>3 DEF CallInv

\* The first of some updates, in a statement of its own.
LEMMA SingleIs ==
  ASSUME NEW n, 1 \in 1..n, NEW tab, Leads(tab, n, "update"), NEW cols,
         Diff(Change(1)) \subseteq cols
  PROVE  UpdateRow(K, Rows, Change(1), cols) = {tab[1]}
<1>1. Trace(K, Changes(n), tab, n) /\ tab[0] = Rows /\ AllOf(Changes(n), "update")
  BY DEF Leads
<1>2. Changes(n)[1] = Change(1) /\ 1 \in DOMAIN Changes(n)
  BY DEF Changes
<1>3. 1 - 1 = 0
  OBVIOUS
<1>4. /\ IsKind(K) /\ Entry(K, Change(1)) /\ Step(Change(1), tab[0], tab[1])
      /\ tab[0] \subseteq Row /\ Legal(K, tab[0]) /\ Legal(K, tab[1])
  BY <1>1, <1>2, <1>3, TraceIs
<1>5. Change(1).op = "update"
  BY <1>1, <1>2 DEF AllOf
<1> QED
  BY <1>1, <1>4, <1>5, UpdateIs

LEMMA UpdateKeeps == ASSUME IInv, applyUpdate PROVE IInv'
<1>1. /\ pc = "run" /\ stretch > 0 /\ masks = << >> /\ Executes(UpdateRow(K, Rows, Change(1), Col))
      /\ Takes(1) /\ stretch' = stretch - 1
      /\ UNCHANGED <<srcVars, target, applied, batch, path, alone, masks>>
  BY DEF applyUpdate, Legacy
<1>2. 1 \in 1..Len(plan) /\ 1 <= stretch /\ 1 \in 1..1 /\ Change(1).op = "update"
  BY <1>1, StretchIs
<1>3. CallInv'
  BY <1>1, <1>2, CallGoesOn
<1>4. \A i \in 1..1 : Change(i).rel = Change(1).rel /\ Change(i).op = "update"
  BY <1>2
<1>5. PICK tab : Leads(tab, 1, "update")
  BY <1>1, <1>2, <1>4, HeadTrace
<1>7. UpdateRow(K, Rows, Change(1), Col) = {tab[1]}
  BY <1>2, <1>5, SingleIs DEF Diff
<1>8. PICK tables : tables = UpdateRow(K, Rows, Change(1), Col)
  OBVIOUS
<1>9. tables = {SourceAt(plan[1])[Change(1).rel]}
  BY <1>2, <1>5, <1>7, <1>8 DEF Leads
<1> QED
  BY <1>1, <1>2, <1>3, <1>4, <1>8, <1>9, StatementKeeps

LEMMA LegacyChunkIs ==
  ASSUME IInv, pc = "run", stretch > 0
  PROVE  /\ LegacyChunk \in 1..stretch
         /\ \A i \in 1..LegacyChunk : SetColumns(K, Change(i)) = SetColumns(K, Change(1))
         /\ \A i, j \in 1..LegacyChunk : i < j => ~SameIdentity(K, Change(i), Change(j))
<1>a. PICK X : X = {p \in Pairs(stretch) : \/ SetColumns(K, Change(p[2])) # SetColumns(K, Change(1))
                                           \/ SameIdentity(K, Change(p[1]), Change(p[2]))}
  OBVIOUS
<1>0. PICK n : n = LegacyChunk
  OBVIOUS
<1>1. n = Chunk(stretch, X) /\ X \subseteq Pairs(stretch) /\ stretch \in Nat \ {0}
  BY <1>a, <1>0, StretchIs DEF LegacyChunk
<1>2. n \in 1..stretch /\ \A i, j \in 1..n : i < j => <<i, j>> \notin X
  BY <1>1, ChunkIs
<1>3. ASSUME NEW i \in 1..n, NEW j \in 1..n, i < j
      PROVE  /\ SetColumns(K, Change(j)) = SetColumns(K, Change(1))
             /\ ~SameIdentity(K, Change(i), Change(j))
  <2>1. <<i, j>> \in Pairs(stretch) /\ <<i, j>>[1] = i /\ <<i, j>>[2] = j
    BY <1>1, <1>2, <1>3 DEF Pairs
  <2>2. <<i, j>> \notin X
    BY <1>2, <1>3
  <2> QED
    BY <2>1, <2>2, <1>a
<1>4. ASSUME NEW i \in 1..n PROVE SetColumns(K, Change(i)) = SetColumns(K, Change(1))
  <2>1. i = 1 \/ (1 < i /\ 1 \in 1..n)
    BY <1>1, <1>2
  <2> QED
    BY <2>1, <1>3
<1> QED
  BY <1>0, <1>2, <1>3, <1>4

\* The updates of a chunk, as a trace of distinct rows.
LEMMA LegacyTrace ==
  ASSUME IInv, Legacy, ~Singly, NEW n, n = LegacyChunk
  PROVE  /\ n \in 1..stretch /\ n \in 1..Len(plan)
         /\ \A i \in 1..n : /\ Change(i).rel = Change(1).rel /\ Change(i).op = "update"
                            /\ Changes(n)[i] = Change(i)
                            /\ SetColumns(K, Change(i)) = SetColumns(K, Change(1))
         /\ DistinctRows(K, Changes(n), n)
         /\ \E tab : Leads(tab, n, "update")
<1>0. pc = "run" /\ stretch > 0 /\ IdentityColumns(K) # {}
  BY DEF Legacy, Singly
<1>1. /\ n \in 1..stretch
      /\ \A i \in 1..n : SetColumns(K, Change(i)) = SetColumns(K, Change(1))
      /\ \A i, j \in 1..n : i < j => ~SameIdentity(K, Change(i), Change(j))
  BY <1>0, LegacyChunkIs
<1>2. /\ n \in 1..Len(plan) 
      /\ \A i \in 1..n : Change(i).rel = Change(1).rel /\ Change(i).op = "update"
  BY <1>0, <1>1, StretchIs
<1>3. \A i \in 1..n : Changes(n)[i] = Change(i)
  BY DEF Changes
<1>4. DistinctRows(K, Changes(n), n)
  BY <1>0, <1>1, <1>3 DEF DistinctRows
<1>5. \E tab : Leads(tab, n, "update")
  BY <1>0, <1>2, HeadTrace
<1> QED
  BY <1>1, <1>2, <1>3, <1>4, <1>5

LEMMA UpdateChunkKeeps == ASSUME IInv, applyUpdateChunk PROVE IInv'
<1>0. PICK n : n = LegacyChunk
  OBVIOUS
<1>a. PICK cols : cols = SetColumns(K, Change(1))
  OBVIOUS
<1>1. /\ Legacy /\ ~Singly /\ BatchSafe(K, cols)
      /\ Executes(UpdateRows(K, Rows, Changes(n), cols))
      /\ Takes(n) /\ stretch' = stretch - n
      /\ UNCHANGED <<srcVars, target, applied, batch, path, alone, masks>>
  BY <1>0, <1>a DEF applyUpdateChunk
<1>2. pc = "run" /\ masks = << >> /\ stretch > 0
  BY <1>1 DEF Legacy
<1>3. /\ n \in 1..stretch /\ n \in 1..Len(plan)
      /\ \A i \in 1..n : /\ Change(i).rel = Change(1).rel /\ Change(i).op = "update"
                         /\ Changes(n)[i] = Change(i)
                         /\ SetColumns(K, Change(i)) = SetColumns(K, Change(1))
      /\ DistinctRows(K, Changes(n), n)
      /\ \E tab : Leads(tab, n, "update")
  BY <1>0, <1>1, LegacyTrace
<1>4. CallInv'
  <2>1. n <= stretch /\ masks' = << >>
    BY <1>1, <1>2, <1>3, StretchIs
  <2> QED
    BY <2>1, <1>1, <1>2, <1>3, CallGoesOn
<1>5. PICK tab : Leads(tab, n, "update")
  BY <1>3
<1>6. Trace(K, Changes(n), tab, n) /\ AllOf(Changes(n), "update") /\ IsKind(K)
  BY <1>5 DEF Leads, Trace
<1>7. ASSUME NEW i \in 1..n PROVE Diff(Changes(n)[i]) \subseteq cols
  <2>1. Entry(K, Changes(n)[i]) /\ Changes(n)[i].op = "update"
    BY <1>3, <1>6, TraceIs
  <2>2. Diff(Changes(n)[i]) \subseteq SetColumns(K, Changes(n)[i])
    BY <2>1, <1>6, DiffIs
  <2> QED
    BY <2>2, <1>3, <1>a
<1>b. BatchSafe(K, cols) /\ DistinctRows(K, Changes(n), n)
  BY <1>1, <1>3
<1>8. UpdateRows(K, tab[0], Changes(n), cols) = {tab[n]}
  <2>1. \A i \in 1..n : Diff(Changes(n)[i]) \subseteq cols
    BY <1>7
  <2> QED
    BY <2>1, <1>b, <1>6, UpdatesAre
<1>9. PICK tables : tables = UpdateRows(K, Rows, Changes(n), cols)
  OBVIOUS
<1>10. tables = {SourceAt(plan[n])[Change(1).rel]}
  <2>1. n \in 1..n
    BY <1>2, <1>3, StretchIs
  <2> QED
    BY <2>1, <1>5, <1>8, <1>9 DEF Leads
<1>11. \A i \in 1..n : Change(i).rel = Change(1).rel
  BY <1>3
<1> QED
  BY <1>1, <1>2, <1>3, <1>4, <1>9, <1>10, <1>11, StatementKeeps

\* The mask of an update is what the source changed.
LEMMA MaskIs ==
  ASSUME NEW c, IsKind(K), Entry(K, c), c.op = "update", Matched(K, Rows, c) = {c.from}
  PROVE  Mask(c) = Diff(c)
<1>1. (CHOOSE x \in {c.from} : TRUE) = c.from
  OBVIOUS
<1>2. Mask(c) = {col \in SetColumns(K, c) : c.from[col] # c.new[col]}
  BY <1>1 DEF Mask
<1> QED
  BY <1>2, DiffIs

LEMMA InspectKeeps == ASSUME IInv, inspectSelectiveUpdateMasks PROVE IInv'
<1>0. PICK n : n = LegacyChunk
  OBVIOUS
<1>1. /\ Legacy /\ ~Singly /\ K.selective
      /\ UNCHANGED <<srcVars, target, applied, work, batch, path, plan, stretch, alone>>
      /\ \/ /\ \A i \in 1..n : One(Matched(K, Rows, Change(i)))
            /\ masks' = [i \in 1..n |-> Mask(Change(i))] /\ pc' = pc
         \/ /\ \E i \in 1..n : ~One(Matched(K, Rows, Change(i)))
            /\ pc' = "failed"
  BY <1>0 DEF inspectSelectiveUpdateMasks
<1>2. pc = "run" /\ masks = << >> /\ stretch > 0
  BY <1>1 DEF Legacy
<1>3. /\ n \in 1..stretch /\ n \in 1..Len(plan)
      /\ \A i \in 1..n : /\ Change(i).rel = Change(1).rel /\ Change(i).op = "update"
                         /\ Changes(n)[i] = Change(i)
      /\ DistinctRows(K, Changes(n), n)
      /\ \E tab : Leads(tab, n, "update")
  BY <1>0, <1>1, LegacyTrace
<1>4. /\ stretch \in Nat /\ stretch <= Len(plan) /\ Len(plan) \in Nat
      /\ LogInv /\ EndsInv /\ PlanInv /\ CallInv
  BY <1>2, StretchIs
<1>5. PICK tab : Leads(tab, n, "update")
  BY <1>3
<1>6. /\ Trace(K, Changes(n), tab, n) /\ AllOf(Changes(n), "update") /\ IsKind(K)
      /\ tab[0] = Rows
  BY <1>5 DEF Leads, Trace
<1>7. ASSUME NEW i \in 1..n
      PROVE  \/ Matched(K, Rows, Change(i)) = {Change(i).from}
             \/ /\ ~One(Matched(K, Rows, Change(i)))
                /\ \E j \in 1..n : j < i /\ Relocated(K, Change(j), Change(i))
  BY <1>3, <1>6, InspectedIs
<1>8. LogInv' /\ EndsInv' /\ PlanInv'
  BY <1>1, <1>4, Unmoved, PlanStays
<1>9. ASSUME NEW i \in 1..n, ~One(Matched(K, Rows, Change(i))), pc' = "failed" PROVE IInv'
  <2>1. PICK j \in 1..n : j < i /\ Relocated(K, Change(j), Change(i))
    BY <1>7, <1>9, OneIs
  <2>2. i \in 1..Len(plan) /\ j \in 1..Len(plan)
    BY <1>3, <1>4
  <2>3. plan[j] \in Pending(batch) /\ plan[i] \in Pending(batch)
    BY <2>2, <1>4, PlanIs
  <2>4. plan[j] < plan[i]
    BY <2>1, <2>2, <1>3, <1>4 DEF PlanInv
  <2>5. Relooked(K, Change(j), Change(i))
    BY <2>1, <1>1, <1>3 DEF Relocated, Relooked
  <2>6. Relooked(kind[log[plan[j]].rel], log[plan[j]], log[plan[i]])
    BY <2>5, <1>3 DEF K, Change
  <2>7. KnownCase
    BY <2>3, <2>4, <2>6 DEF KnownCase
  <2>8. KnownCase'
    BY <2>7, <1>1, KnownCaseStays
  <2> QED
    BY <2>8, <1>8, <1>9 DEF IInv
<1>10. ASSUME \A i \in 1..n : One(Matched(K, Rows, Change(i))),
              masks' = [i \in 1..n |-> Mask(Change(i))], pc' = pc
       PROVE  IInv'
  <2>0. n \in Nat
    BY <1>3, <1>4
  <2>1. ASSUME NEW i \in 1..n PROVE Mask(Change(i)) = Diff(Change(i))
    <3>1. Matched(K, Rows, Change(i)) = {Change(i).from}
      BY <1>7, <1>10
    <3>2. Entry(K, Change(i)) /\ Change(i).op = "update"
      BY <1>3, <1>6, TraceIs
    <3> QED
      BY <3>1, <3>2, <1>6, MaskIs
  <2>2. \A i \in 1..n : masks'[i] = Diff(Change(i)) /\ Diff(Change(i)) \in SUBSET Col
    BY <2>1, <1>10 DEF Diff
  <2>3. masks' \in Seq(SUBSET Col) /\ Len(masks') = n
    <3>1. masks' \in [1..n -> SUBSET Col]
      BY <2>2, <1>10
    <3> QED
      BY <3>1, <2>0
  <2>4. log' = log /\ plan' = plan /\ stretch' = stretch
    BY <1>1 DEF srcVars
  <2>5. \A i : Change(i)' = Change(i) /\ Diff(Change(i))' = Diff(Change(i))
    BY <2>4 DEF Change, Diff
  <2>6. CallInv'
    BY <2>2, <2>3, <2>4, <2>5, <1>3, <1>4 DEF CallInv
  <2> QED
    BY <2>6, <1>2, <1>8, <1>10 DEF IInv
<1> QED
  BY <1>1, <1>9, <1>10

LEMMA SelectiveKeeps == ASSUME IInv, applySelectiveUpdateChunk PROVE IInv'
<1>0. PICK n : n = MaskedChunk
  OBVIOUS
<1>1. /\ pc = "run" /\ masks # << >> /\ Executes(MaskedRows(n)) /\ Takes(n)
      /\ stretch' = stretch - n /\ masks' = SubSeq(masks, n + 1, Len(masks))
      /\ UNCHANGED <<srcVars, target, applied, batch, path, alone>>
  BY <1>0 DEF applySelectiveUpdateChunk
<1>2. CallInv /\ Len(masks) \in Nat \ {0} /\ Len(masks) <= stretch /\ stretch > 0
  BY <1>1 DEF IInv, CallInv
<1>3. /\ stretch \in Nat /\ stretch <= Len(plan) /\ Len(plan) \in Nat
      /\ \A i \in 1..stretch : Change(i).rel = Change(1).rel /\ Change(i).op = "update"
      /\ LogInv /\ EndsInv /\ PlanInv
  BY <1>1, <1>2, StretchIs
<1>4. \A i \in 1..Len(masks) : masks[i] = Diff(Change(i))
  BY <1>2 DEF CallInv
<1>5. /\ n \in 1..Len(masks)
      /\ n # 1 => /\ BatchSafe(K, masks[1])
                  /\ \A i, j \in 1..n : i < j => /\ masks[j] = masks[1]
                                                 /\ ~SameIdentity(K, Change(i), Change(j))
  <2>1. CASE masks[1] = {} \/ ~BatchSafe(K, masks[1])
    BY <2>1, <1>0, <1>2 DEF MaskedChunk
  <2>2. CASE ~(masks[1] = {} \/ ~BatchSafe(K, masks[1]))
    <3>1. PICK X : X = {p \in Pairs(Len(masks)) : \/ masks[p[2]] # masks[1]
                                                  \/ SameIdentity(K, Change(p[1]), Change(p[2]))}
      OBVIOUS
    <3>2. n = Chunk(Len(masks), X) /\ X \subseteq Pairs(Len(masks))
      BY <2>2, <3>1, <1>0 DEF MaskedChunk
    <3>3. n \in 1..Len(masks) /\ \A i, j \in 1..n : i < j => <<i, j>> \notin X
      BY <3>2, <1>2, ChunkIs
    <3>4. ASSUME NEW i \in 1..n, NEW j \in 1..n, i < j
          PROVE  masks[j] = masks[1] /\ ~SameIdentity(K, Change(i), Change(j))
      <4>1. <<i, j>> \in Pairs(Len(masks)) /\ <<i, j>>[1] = i /\ <<i, j>>[2] = j
        BY <1>2, <3>3, <3>4 DEF Pairs
      <4>2. <<i, j>> \notin X
        BY <3>3, <3>4
      <4> QED
        BY <4>1, <4>2, <3>1
    <3> QED
      BY <2>2, <3>3, <3>4
  <2> QED
    BY <2>1, <2>2
<1>6. /\ n \in Nat /\ n \in 1..Len(plan) /\ 1 \in 1..n /\ n \in 1..n /\ n <= Len(masks) /\ n <= stretch
      /\ \A i \in 1..n : /\ i \in 1..Len(masks)
                         /\ Change(i).rel = Change(1).rel /\ Change(i).op = "update"
  BY <1>2, <1>3, <1>5
<1>7. CallInv'
  BY <1>1, <1>6, CallGoesOn
<1>8. PICK tab : Leads(tab, n, "update")
  BY <1>1, <1>6, HeadTrace
<1>9. /\ Trace(K, Changes(n), tab, n) /\ AllOf(Changes(n), "update") /\ IsKind(K)
      /\ tab[0] = Rows /\ tab[n] = SourceAt(plan[n])[Change(1).rel]
  BY <1>6, <1>8 DEF Leads, Trace
<1>10. \A i \in 1..n : Changes(n)[i] = Change(i)
  BY DEF Changes
<1>11. MaskedRows(n) = {tab[n]}
  <2>1. masks[1] # {}
    <3>1. Entry(K, Change(1)) /\ Step(Change(1), tab[1 - 1], tab[1])
      BY <1>6, <1>9, <1>10, TraceIs
    <3>2. Change(1).from # Change(1).to /\ Change(1).from \in Row /\ Change(1).to \in Row
      BY <3>1, <1>6 DEF Step, Entry
    <3>3. ~Agrees(Change(1).from, Change(1).to, Col)
      BY <3>2, RowIs
    <3> QED
      BY <3>3, <1>4, <1>6 DEF Agrees, Diff
  <2>2. CASE n = 1
    <3>1. MaskedRows(n) = UpdateRow(K, Rows, Change(1), masks[1])
      BY <2>1, <2>2 DEF MaskedRows
    <3>2. Diff(Change(1)) \subseteq masks[1]
      BY <1>4, <1>6
    <3>3. PICK cols : cols = masks[1]
      OBVIOUS
    <3>4. UpdateRow(K, Rows, Change(1), cols) = {tab[1]}
      BY <3>2, <3>3, <1>6, <1>8, SingleIs
    <3> QED
      BY <2>2, <3>1, <3>3, <3>4
  <2>3. CASE n # 1
    <3>1. MaskedRows(n) = UpdateRows(K, Rows, Changes(n), masks[1])
      BY <2>1, <2>3 DEF MaskedRows
    <3>2. 1 \in 1..n /\ 2 \in 1..n /\ 1 < 2
      BY <2>3, <1>6
    <3>3. IdentityColumns(K) # {}
      <4>1. ~SameIdentity(K, Change(1), Change(2))
        BY <2>3, <3>2, <1>5
      <4> QED
        BY <4>1 DEF SameIdentity, Agrees
    <3>4. DistinctRows(K, Changes(n), n)
      BY <3>3, <2>3, <1>5, <1>10 DEF DistinctRows
    <3>5. PICK cols : cols = masks[1]
      OBVIOUS
    <3>6. ASSUME NEW i \in 1..n PROVE Diff(Changes(n)[i]) \subseteq cols
      <4>1. i = 1 \/ 1 < i
        BY <1>6
      <4>2. masks[i] = masks[1]
        BY <4>1, <2>3, <3>2, <1>5
      <4> QED
        BY <4>2, <3>5, <1>4, <1>6, <1>10
    <3>7. BatchSafe(K, cols)
      BY <2>3, <3>5, <1>5
    <3>8. UpdateRows(K, tab[0], Changes(n), cols) = {tab[n]}
      BY <3>4, <3>6, <3>7, <1>9, UpdatesAre
    <3> QED
      BY <3>1, <3>5, <3>8, <1>9
  <2> QED
    BY <2>2, <2>3
<1>12. PICK tables : tables = MaskedRows(n)
  OBVIOUS
<1>13. \A i \in 1..n : Change(i).rel = Change(1).rel
  BY <1>6
<1> QED
  BY <1>1, <1>6, <1>7, <1>9, <1>11, <1>12, <1>13, StatementKeeps

LEMMA TruncatesKeep == ASSUME IInv, applyTruncates PROVE IInv'
<1>0. PICK n : n = Run
  OBVIOUS
<1>1. /\ Building("truncate") /\ Takes(n) /\ pc' = pc
      /\ work' = [r \in Rel |-> IF \E i \in 1..n : Change(i).rel = r THEN {} ELSE work[r]]
      /\ UNCHANGED <<srcVars, target, applied, batch, path, stretch, alone, masks>>
  BY <1>0 DEF applyTruncates
<1>2. /\ pc = "run" /\ n \in Nat \ {0} /\ n \in 1..Len(plan) /\ n \in 1..Run
      /\ \A i \in 1..n : Change(i).op = "truncate"
  BY <1>0, <1>1, HeadRun
<1>3. LogInv /\ EndsInv /\ PlanInv
  BY <1>2 DEF IInv
<1>4. CallInv'
  BY <1>1, <1>2, RunGoesOn
<1>5. work \in Tables
  BY <1>3 DEF PlanInv
<1>6. work' \in Tables
  BY <1>1, <1>5 DEF Tables
<1>7. ASSUME NEW r \in Rel PROVE Moves(r, n, work'[r])
  <2>1. CASE \A i \in 1..n : Change(i).rel # r
    <3>1. work'[r] = work[r]
      BY <2>1, <1>1
    <3> QED
      BY <2>1, <3>1 DEF Moves
  <2>2. CASE \E i \in 1..n : Change(i).rel = r
    <3> DEFINE S == {i \in 1..n : Change(i).rel = r}
    <3>1. S # {} /\ S \subseteq 0..n /\ n \in Nat
      BY <2>2, <1>2
    <3>2. PICK i : i = Longest(S)
      OBVIOUS
    <3>3. i \in S /\ \A m \in S : m <= i
      <4> HIDE DEF S
      <4> QED
        BY <3>1, <3>2, LongestIs
    <3>4. i \in 1..n /\ Change(i).rel = r /\ \A j \in 1..n : i < j => Change(j).rel # r
      BY <3>3, <1>2
    <3>5. PICK x : x = plan[i]
      OBVIOUS
    <3>6. x \in 1..Len(log) /\ Change(i) = log[x] /\ log[x].op = "truncate" /\ log[x].rel = r
      BY <3>4, <3>5, <1>2, <1>3, PlanIs DEF Change
    <3>7. Recorded(x)
      BY <3>6, <1>3 DEF LogInv
    <3>8. Step(log[x], SourceAt(x - 1)[r], SourceAt(x)[r])
      BY <3>6, <3>7 DEF Recorded
    <3>9. SourceAt(x)[r] = {}
      BY <3>6, <3>8 DEF Step
    <3>10. work'[r] = {}
      BY <2>2, <1>1
    <3> QED
      BY <3>4, <3>5, <3>9, <3>10 DEF Moves
  <2> QED
    BY <2>1, <2>2
<1>8. PlanInv'
  BY <1>1, <1>2, <1>3, <1>6, <1>7, Advance
<1>9. LogInv' /\ EndsInv'
  BY <1>1, <1>3, Unmoved
<1> QED
  BY <1>1, <1>2, <1>4, <1>8, <1>9 DEF IInv

-----------------------------------------------------------------------------
(***************************************************************************)
(* A target transaction.                                                   *)
(***************************************************************************)

\* A plan that holds the changes of the next n transactions, those of a
\* relation in their order, starts from what the target has.
LEMMA BeginKeeps ==
  ASSUME IInv, pc = "idle", NEW n \in 1 .. (Len(ends) - applied), NEW order \in Seq(Pending(n)),
         \A g \in Pending(n) : \E i \in 1..Len(order) : order[i] = g,
         \A i, j \in 1..Len(order) :
           i < j /\ log[order[i]].rel = log[order[j]].rel => order[i] < order[j],
         NEW how \in {"batch", "serial", "spilled"}, Begin(n, order, how)
  PROVE  IInv'
<1>0. /\ kind' = kind /\ log' = log /\ ends' = ends /\ states' = states /\ applied' = applied
      /\ batch' = n /\ path' = how /\ plan' = order /\ work' = target /\ pc' = "run"
      /\ stretch' = stretch /\ masks' = masks
      /\ UNCHANGED <<srcVars, target, applied>>
  BY DEF Begin, srcVars
<1>1. LogInv /\ EndsInv /\ stretch = 0 /\ masks = << >>
  BY DEF IInv
<1>2. LogInv' /\ EndsInv'
  BY <1>0, <1>1, Unmoved
<1>3. /\ \A t : End(t)' = End(t)
      /\ \A t : SourceAt(t)' = SourceAt(t)
      /\ Pending(n)' = Pending(n)
  BY <1>0 DEF End, SourceAt, Pending
<1>4. Pending(batch)' = Pending(n)
  BY <1>0 DEF Pending, End
<1>5. /\ applied \in 0..Len(ends) /\ applied + n \in 0..Len(ends) /\ n \in Nat
      /\ applied <= applied + n /\ Len(ends) \in Nat
  BY <1>1 DEF EndsInv
<1>6. /\ End(applied) \in Nat /\ End(applied + n) \in Nat /\ End(applied) <= End(applied + n)
      /\ End(applied) \in 0..Len(log)
  BY <1>1, <1>5, EndIs
<1>7. target = SourceAt(End(applied)) /\ target \in Tables
  BY <1>1, <1>6, AtTables DEF EndsInv
<1>8. \A i : Change(i)' = log[order[i]]
  BY <1>0 DEF Change
<1>9. ASSUME NEW r \in Rel PROVE Reached(r, End(applied))'
  <2>1. work'[r] = SourceAt(End(applied))'[r]
    BY <1>0, <1>3, <1>7
  <2>2. \A x \in Pending(n) : x > End(applied) /\ \E i \in 1..Len(order) : order[i] = x
    BY <1>6 DEF Pending
  <2> QED
    BY <2>1, <2>2, <1>0, <1>3, <1>4 DEF Reached
<1>10. PlanInv'
  <2>1. End(applied) \in End(applied) .. End(applied + n)
    BY <1>6
  <2>2. End(applied)' = End(applied) /\ End(applied + batch)' = End(applied + n)
    BY <1>0 DEF End
  <2>3. \A r \in Rel : \E g \in End(applied)' .. End(applied + batch)' : Reached(r, g)'
    BY <2>1, <2>2, <1>9
  <2>4. \A i, j \in 1..Len(plan') :
          i < j /\ Change(i)'.rel = Change(j)'.rel => plan'[i] < plan'[j]
    BY <1>0, <1>8
  <2>5. batch' \in Nat /\ applied' + batch' <= Len(ends') /\ plan' \in Seq(Pending(batch)')
    BY <1>0, <1>4, <1>5
  <2>6. work' \in Tables /\ path' \in {"batch", "serial", "spilled"}
    BY <1>0, <1>7
  <2> QED
    BY <2>3, <2>4, <2>5, <2>6 DEF PlanInv
<1>11. CallInv'
  BY <1>0, <1>1 DEF CallInv
<1> QED
  BY <1>0, <1>2, <1>10, <1>11 DEF IInv

\* A lane begins with the first of the changes that are replayed with it.
LEMMA LaneIs ==
  ASSUME NEW n, NEW g \in Pending(n), Pending(n) \subseteq Nat
  PROVE  /\ Lane(n, g) \in Pending(n) /\ Lane(n, g) <= g /\ InLane(Lane(n, g), g)
         /\ \A h \in Pending(n) : h <= g /\ InLane(h, g) => Lane(n, g) <= h
<1> DEFINE lane == {h \in Pending(n) : h <= g /\ InLane(h, g)}
<1>0. g \in Nat
  OBVIOUS
<1>1. InLane(g, g)
  <2>1. \A i \in g..g : i = g
    BY <1>0
  <2> QED
    BY <2>1 DEF InLane
<1>2. g \in lane /\ lane \subseteq Nat
  BY <1>0, <1>1
<1>3. Lane(n, g) = CHOOSE h \in lane : \A i \in lane : h <= i
  BY DEF Lane
<1>4. Lane(n, g) \in lane /\ \A i \in lane : Lane(n, g) <= i
  <2> HIDE DEF lane
  <2>1. lane # {}
    BY <1>2
  <2>2. \E h \in lane : \A i \in lane : h <= i
    BY <1>2, <2>1, LeastOf, Zenon
  <2> QED
    BY <1>3, <2>2, Zenon
<1> QED
  BY <1>4

\* Changes of a relation are not in lanes that change places.
LEMMA LanesKeepOrder ==
  ASSUME NEW n, Pending(n) \subseteq Nat, NEW x \in Pending(n), NEW y \in Pending(n), x < y,
         log[x].rel = log[y].rel
  PROVE  Lane(n, x) <= Lane(n, y)
<1>0. PICK p : p = Lane(n, x)
  OBVIOUS
<1>1. PICK q : q = Lane(n, y)
  OBVIOUS
<1>2. p \in Nat /\ q \in Nat /\ x \in Nat /\ y \in Nat
  BY <1>0, <1>1, LaneIs
<1>3. p <= x /\ \A h \in Pending(n) : h <= x /\ InLane(h, x) => p <= h
  BY <1>0, LaneIs
<1>4. q \in Pending(n) /\ q <= y /\ InLane(q, y)
  BY <1>1, LaneIs
<1>5. CASE q > x
  BY <1>0, <1>1, <1>2, <1>3, <1>5
<1>6. CASE q <= x
  <2>1. \A i \in q..y : LaneSafe(log[i]) = LaneSafe(log[y])
    BY <1>4 DEF InLane
  <2>2. x \in q..y /\ \A i \in q..x : i \in q..y
    BY <1>2, <1>6
  <2>3. \A i \in q..x : LaneSafe(log[i]) = LaneSafe(log[x])
    BY <2>1, <2>2
  <2>4. LaneSafe(log[x]) => log[q].rel = log[x].rel
    BY <2>1, <2>2, <1>4 DEF InLane
  <2>5. InLane(q, x)
    BY <2>3, <2>4 DEF InLane
  <2> QED
    BY <2>5, <1>0, <1>1, <1>3, <1>4, <1>6
<1> QED
  BY <1>2, <1>5, <1>6

\* The positions of the next n source transactions.
LEMMA PendingIs ==
  ASSUME IInv, NEW n \in 1 .. (Len(ends) - applied)
  PROVE  /\ End(applied) \in Nat /\ End(applied + n) \in Nat /\ End(applied) <= End(applied + n)
         /\ Pending(n) \subseteq Nat
<1>1. LogInv /\ EndsInv
  BY DEF IInv
<1>2. applied \in 0..Len(ends) /\ applied + n \in 0..Len(ends) /\ applied <= applied + n
  BY <1>1 DEF EndsInv
<1>3. End(applied) \in Nat /\ End(applied + n) \in Nat /\ End(applied) <= End(applied + n)
  BY <1>1, <1>2, EndIs
<1> QED
  BY <1>3 DEF Pending

LEMMA BatchKeeps == ASSUME IInv, BeginBatch PROVE IInv'
<1>1. pc = "idle"
  BY DEF BeginBatch, Waiting
<1>2. PICK n \in 1 .. (Len(ends) - applied) : \E order \in Orders(n) :
        LaneOrder(n, order) /\ Begin(n, order, "batch")
  BY DEF BeginBatch
<1>3. PICK order \in Orders(n) : LaneOrder(n, order) /\ Begin(n, order, "batch")
  BY <1>2
<1>4. PICK d : d = End(applied + n) - End(applied)
  OBVIOUS
<1>5. d \in Nat /\ Pending(n) \subseteq Nat
  BY <1>4, PendingIs
<1>6. order \in [1..d -> Pending(n)]
  BY <1>4 DEF Orders
<1>7. order \in Seq(Pending(n)) /\ Len(order) = d /\ DOMAIN order = 1..d
  BY <1>5, <1>6
<1>8. \A g \in Pending(n) : \E i \in 1..Len(order) : order[i] = g
  BY <1>3, <1>7 DEF LaneOrder
<1>9. ASSUME NEW i \in 1..Len(order), NEW j \in 1..Len(order), i < j,
             log[order[i]].rel = log[order[j]].rel
      PROVE  order[i] < order[j]
  <2>0. PICK x \in Pending(n) : x = order[i]
    BY <1>6, <1>7
  <2>1. PICK y \in Pending(n) : y = order[j]
    BY <1>6, <1>7
  <2>2. Lane(n, x) < Lane(n, y) \/ (Lane(n, x) = Lane(n, y) /\ x < y)
    BY <1>3, <1>7, <1>9, <2>0, <2>1 DEF LaneOrder
  <2>3. x \in Nat /\ y \in Nat /\ Lane(n, x) \in Nat /\ Lane(n, y) \in Nat
    BY <1>5, LaneIs
  <2>4. CASE y < x
    <3>1. Lane(n, y) <= Lane(n, x)
      BY <2>0, <2>1, <2>4, <1>5, <1>9, LanesKeepOrder
    <3> QED
      BY <3>1, <2>2, <2>3, <2>4
  <2>5. CASE y = x
    BY <2>2, <2>3, <2>5
  <2> QED
    BY <2>0, <2>1, <2>3, <2>4, <2>5
<1> QED
  BY <1>1, <1>3, <1>7, <1>8, <1>9, BeginKeeps

\* In the order of the stream.
LEMMA StreamKeeps ==
  ASSUME IInv, Waiting, NEW how \in {"serial", "spilled"}, Begin(1, StreamOrder(1), how)
  PROVE  IInv'
<1>1. pc = "idle" /\ applied < Len(ends)
  BY DEF Waiting
<1>2. PICK n : n = 1
  OBVIOUS
<1>3. n \in 1 .. (Len(ends) - applied)
  BY <1>1, <1>2 DEF IInv, EndsInv
<1>4. PICK e : e = End(applied)
  OBVIOUS
<1>5. PICK d : d = End(applied + n) - End(applied)
  OBVIOUS
<1>6. e \in Nat /\ d \in Nat /\ Pending(n) \subseteq Nat /\ Pending(n) = (e + 1) .. (e + d)
  BY <1>3, <1>4, <1>5, PendingIs DEF Pending
<1>7. PICK order : order = [i \in 1..d |-> e + i]
  OBVIOUS
<1>8. StreamOrder(1) = order
  BY <1>2, <1>4, <1>5, <1>7 DEF StreamOrder
<1>9. order \in Seq(Pending(n)) /\ Len(order) = d
  BY <1>6, <1>7
<1>10. ASSUME NEW g \in Pending(n) PROVE \E i \in 1..Len(order) : order[i] = g
  <2>1. g - e \in 1..d /\ e + (g - e) = g
    BY <1>6
  <2> QED
    BY <2>1, <1>7, <1>9
<1>11. \A i, j \in 1..Len(order) : i < j => order[i] < order[j]
  BY <1>6, <1>7, <1>9
<1> QED
  BY <1>1, <1>2, <1>3, <1>8, <1>9, <1>10, <1>11, BeginKeeps

\* The plan is done: every relation is where the last transaction left it.
LEMMA CommitKeeps == ASSUME IInv, Commit PROVE IInv'
<1>0. /\ pc = "run" /\ plan = << >> /\ target' = work /\ applied' = applied + batch
      /\ pc' = "idle" /\ stretch' = 0 /\ masks' = << >> /\ UNCHANGED srcVars
  BY DEF Commit, Reset
<1>1. LogInv /\ EndsInv /\ PlanInv
  BY <1>0 DEF IInv
<1>2. /\ kind' = kind /\ source' = source /\ log' = log /\ ends' = ends /\ states' = states
  BY <1>0 DEF srcVars
<1>3. PICK t : t = applied + batch
  OBVIOUS
<1>4. PICK b : b = End(t)
  OBVIOUS
<1>5. /\ End(applied) \in Nat /\ b \in Nat /\ End(applied) <= b /\ b <= Len(log)
      /\ Len(log) \in Nat
  BY <1>1, <1>3, <1>4, PlanIs
<1>6. t \in 0..Len(ends)
  BY <1>1, <1>3 DEF EndsInv, PlanInv
<1>7. work \in Tables /\ SourceAt(b) \in Tables
  BY <1>1, <1>5, AtTables DEF PlanInv
<1>8. ASSUME NEW r \in Rel PROVE work[r] = SourceAt(b)[r]
  <2>1. PICK g \in End(applied) .. b : Reached(r, g)
    BY <1>1, <1>3, <1>4 DEF PlanInv
  <2>2. g \in 0..Len(log) /\ b \in 0..Len(log) /\ g <= b
    BY <1>5
  <2>3. ASSUME NEW x \in (g + 1)..b PROVE log[x].rel # r
    <3>1. x \in Pending(batch) /\ x > g
      BY <1>3, <1>4, <1>5 DEF Pending
    <3>2. \A i \in 1..Len(plan) : FALSE
      BY <1>0
    <3> QED
      BY <3>1, <3>2, <2>1 DEF Reached
  <2>4. SourceAt(g)[r] = SourceAt(b)[r]
    BY <1>1, <2>2, <2>3, Frame
  <2> QED
    BY <2>1, <2>4 DEF Reached
<1>9. work = SourceAt(b)
  BY <1>7, <1>8 DEF Tables
<1>10. \A g : SourceAt(g)' = SourceAt(g) /\ (Recorded(g)' <=> Recorded(g)) /\ End(g)' = End(g)
  BY <1>2 DEF SourceAt, Recorded, End
<1>11. LogInv'
  BY <1>1, <1>2, <1>10 DEF LogInv
<1>12. EndsInv'
  <2>1. End(applied)' = b
    BY <1>0, <1>2, <1>3, <1>4 DEF End
  <2>2. SourceAt(End(applied))' = SourceAt(b)
    BY <2>1, <1>2 DEF SourceAt
  <2>3. target' = SourceAt(End(applied))'
    BY <2>2, <1>0, <1>9
  <2>4. applied' \in 0..Len(ends)
    BY <1>0, <1>3, <1>6
  <2> QED
    BY <2>3, <2>4, <1>1, <1>2 DEF EndsInv
<1> QED
  BY <1>0, <1>11, <1>12 DEF IInv

LEMMA AbortKeeps == ASSUME IInv, Abort PROVE IInv'
<1>0. /\ pc' = "idle" /\ stretch' = 0 /\ masks' = << >>
      /\ UNCHANGED <<srcVars, target, applied>>
  BY DEF Abort, Reset
<1>1. LogInv' /\ EndsInv'
  BY <1>0, Unmoved DEF IInv
<1> QED
  BY <1>0, <1>1 DEF IInv

LEMMA StutterKeeps == ASSUME IInv, UNCHANGED vars PROVE IInv'
<1>0. /\ UNCHANGED <<srcVars, target, applied>>
      /\ kind' = kind /\ source' = source /\ log' = log /\ ends' = ends /\ states' = states
      /\ applied' = applied /\ pc' = pc /\ work' = work /\ batch' = batch /\ path' = path
      /\ plan' = plan /\ stretch' = stretch /\ masks' = masks
  BY DEF vars, srcVars
<1>1. LogInv' /\ EndsInv'
  BY <1>0, Unmoved DEF IInv
<1>2. (PlanInv' <=> PlanInv) /\ (CallInv' <=> CallInv) /\ (KnownCase' <=> KnownCase)
  BY <1>0 DEF PlanInv, CallInv, KnownCase, Reached, SourceAt, Pending, End, Change, Diff
<1> QED
  BY <1>0, <1>1, <1>2 DEF IInv

LEMMA NextKeeps == IInv /\ [Next]_vars => IInv'
<1> SUFFICES ASSUME IInv, [Next]_vars PROVE IInv'
  OBVIOUS
<1>1. CASE UNCHANGED vars
  BY <1>1, StutterKeeps
<1>2. CASE SourceWrites
  BY <1>2, SourceWritesKeep
<1>3. CASE SourceCommit
  BY <1>3, SourceCommitKeeps
<1>4. CASE Abort
  BY <1>4, AbortKeeps
<1>5. CASE Replays
  <2>1. CASE BeginBatch
    BY <2>1, BatchKeeps
  <2>2. CASE BeginSerial
    BY <2>2, StreamKeeps DEF BeginSerial
  <2>3. CASE BeginSpilled
    BY <2>3, StreamKeeps DEF BeginSpilled
  <2>4. CASE applyInserts
    BY <2>4, InsertsKeep
  <2>5. CASE applyUpserts
    BY <2>5, UpsertsKeep
  <2>6. CASE applyLegacyUpdates
    BY <2>6, LegacyUpdatesKeep
  <2>7. CASE applyUpdate
    BY <2>7, UpdateKeeps
  <2>8. CASE applyUpdateChunk
    BY <2>8, UpdateChunkKeeps
  <2>9. CASE inspectSelectiveUpdateMasks
    BY <2>9, InspectKeeps
  <2>10. CASE applySelectiveUpdateChunk
    BY <2>10, SelectiveKeeps
  <2>11. CASE applyDeletes
    BY <2>11, DeletesKeep
  <2>12. CASE applyTruncates
    BY <2>12, TruncatesKeep
  <2>13. CASE Commit
    BY <2>13, CommitKeeps
  <2> QED
    BY <1>5, <2>1, <2>2, <2>3, <2>4, <2>5, <2>6, <2>7, <2>8, <2>9, <2>10, <2>11, <2>12, <2>13
       DEF Replays
<1> QED
  BY <1>1, <1>2, <1>3, <1>4, <1>5 DEF Next

-----------------------------------------------------------------------------
\* Whatever the kinds of the relations, the legal changes that the source makes,
\* the cutting of its transactions into batches and the size of a statement, the
\* target holds the source's rows as of the transaction that its progress names.
\* Like the module it is about replay outside of claims.
THEOREM ReplayExactAlways == Spec => []ReplayExact
<1>1. IInv => ReplayExact
  BY DEF IInv, EndsInv, ReplayExact, History, SourceAt
<1> QED
  BY <1>1, InitIInv, NextKeeps, PTL DEF Spec

\* Outside of claims, a statement of the applier fails, or finds another number
\* of rows than it expects, only after an update that changed a primary key which the replica
\* identity does not show, or in a selective batch that updates a row again under
\* the key that the batch itself gave it.
THEOREM DivergesOnlyWhereAlways == Spec => []DivergesOnlyWhere
<1>1. IInv => DivergesOnlyWhere
  BY DEF IInv, DivergesOnlyWhere
<1> QED
  BY <1>1, InitIInv, NextKeeps, PTL DEF Spec

=============================================================================
