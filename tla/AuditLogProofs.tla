--------------------------- MODULE AuditLogProofs ---------------------------
(***************************************************************************)
(* Proofs about module AuditLog, for any rows there are at the start, any  *)
(* number of handlers and any page size: the verdict on a range of the     *)
(* chain is exact, and an export has every row once.                       *)
(***************************************************************************)
EXTENDS AuditLog, FiniteSetTheorems, FunctionTheorems, TLAPS

-----------------------------------------------------------------------------
(* The inductive invariant: the chain. *)

(* a has the columns of a row and no other; nothing is said of its hashes,   *)
(* which are nested as deep as the chain is long.                            *)
RowShape(a) ==
    a = [id |-> a.id, at |-> a.at, us |-> a.us, chained |-> a.chained,
         body |-> a.body, prev |-> a.prev, hash |-> a.hash]

IsRow(a) ==
    /\ RowShape(a)
    /\ a.id \in LogIds /\ a.at \in Nat /\ a.us \in {0, 1} /\ a.chained \in BOOLEAN

UniqueIds(rows) == \A a, b \in rows : a.id = b.id => a = b

(* a is the row o was written as, but for what was blanked since. *)
WrittenAs(a, o) ==
    /\ a.id = o.row.id /\ a.at = o.row.at /\ a.us = o.row.us
    /\ a.prev = o.row.prev /\ a.hash = o.row.hash

(* A hash is that of the row with id pred, as it was written. *)
LinkOK(prev, pred) ==
    \/ pred = None /\ prev = NoHash
    \/ pred # None /\ \E p \in origin : p.row.id = pred /\ prev = p.row.hash

OriginInv ==
    /\ \A o \in origin :
          /\ o = [row |-> o.row, pred |-> o.pred]
          /\ IsRow(o.row) /\ o.row.chained = TRUE /\ o.row.body = "full"
          /\ o.row.hash = Digest(o.row)
          /\ o.row.at <= now
          /\ LinkOK(o.row.prev, o.pred)
    /\ \A o, p \in origin : o.row.id = p.row.id => o = p

(* Only old rows are deleted, and the chained ones are as they were written. *)
LogsInv ==
    /\ IsFiniteSet(logs)
    /\ \A a \in logs : IsRow(a) /\ a.at <= now
    /\ UniqueIds(logs)
    /\ \A a \in Chained(logs) : \E o \in origin : WrittenAs(a, o)
    /\ \A o \in origin : o.row.id \in IdsOf(logs) => \E a \in Chained(logs) : a.id = o.row.id
    /\ \A o \in origin : o.row.id \notin IdsOf(logs) => o.row.at < now

(* No row of rows is before the row x and after the one with id pred. *)
NoneBetween(rows, x, pred) ==
    \A c \in rows : Before(c, x) =>
        /\ pred # None
        /\ \A p \in origin : p.row.id = pred => ~Before(p.row, c)

(* Rows were written in their order, each linked to the latest of those that *)
(* were there: none of those that still are lies between them.               *)
OrderInv ==
    orderly =>
        \A o \in origin :
            /\ \A p \in origin : p.row.id = o.pred => Before(p.row, o.row)
            /\ NoneBetween(Chained(logs), o.row, o.pred)

(* Whoever is about to insert has the lock. *)
LockHeld == \A r \in Requests : req[r].at = "insert" => lock = r

(* It knows the latest row, unless that was deleted since. *)
InsertOK(q) ==
    q.at = "insert" =>
        /\ LinkOK(q.prev, q.pred)
        /\ \A c \in Chained(logs) :
              /\ q.pred # None
              /\ \A p \in origin : p.row.id = q.pred => ~Before(p.row, c)

(* What a verification has read of the chain. *)
RangeOK(q) ==
    q.at = "previous" =>
        /\ IsFiniteSet(q.rows)
        /\ UniqueIds(q.rows)
        /\ \A a \in q.rows : /\ IsRow(a) /\ a.chained = TRUE
                             /\ \E o \in origin : WrittenAs(a, o)
        /\ orderly => \A a \in q.rows, o \in origin :
                          a.id = o.row.id => NoneBetween(q.rows, o.row, o.pred)

-----------------------------------------------------------------------------
(* The inductive invariant: exports. *)

RequestShape(q) ==
    q = [at |-> q.at, kind |-> q.kind, out |-> q.out, counted |-> q.counted,
         cursor |-> q.cursor, rows |-> q.rows, prev |-> q.prev, pred |-> q.pred,
         kept |-> q.kept, tails |-> q.tails]

IsRequest(q) ==
    /\ RequestShape(q)
    /\ q.at \in {"idle", "previous", "logs", "events", "event", "lock", "insert"}
    /\ q.kind \in {"logs", "events", "both"}
    /\ q.out \in Seq(LogIds \union EventIds)
    /\ q.counted \in Nat /\ q.counted <= Len(q.out)
    /\ q.cursor \in [at : Nat, us : {0}, id : Nat, start : BOOLEAN]
    /\ q.kept \subseteq LogIds \union EventIds

Entries(s) == {s[i] : i \in 1..Len(s)}

(* The ids an export has collected. *)
Exported(q) == Entries(q.out)

NoneTwice(s) == \A i, j \in 1..Len(s) : s[i] = s[j] => i = j

EventsInv ==
    /\ IsFiniteSet(events)
    /\ events \subseteq [id : EventIds, at : Nat, us : {0, 1}]
    /\ \A e \in events : e.at <= now
    /\ UniqueIds(events)

(* What is left of rows to collect with ids in own is what lies beyond the   *)
(* cursor; if something exported is gone, so is its millisecond, and no new  *)
(* row under its id can come beyond the cursor.                              *)
CollectOK(q, rows, own) ==
    /\ q.cursor.start => Exported(q) \intersect own = {}
    /\ q.cursor.start \/ q.cursor.at <= now
    /\ \A a \in rows : a.id \in Exported(q) => ~Older(a, q.cursor)
    /\ \A x \in (Exported(q) \intersect own) \ IdsOf(rows) : q.cursor.at < now
    /\ q.kept \intersect own \subseteq IdsOf(rows)

(* Of the rows that were there all the time, none is missing whose           *)
(* millisecond is no tail of table.                                          *)
NoneMissing(q, rows, table) ==
    \A a \in rows : a.id \in q.kept => a.id \in Exported(q) \/ <<table, a.at>> \in q.tails

(* The same, but for those beyond the cursor.                                *)
NoneLost(q, rows, table) ==
    \A a \in rows : a.id \in q.kept => \/ a.id \in Exported(q)
                                       \/ a \in Beyond(rows, q.cursor)
                                       \/ <<table, a.at>> \in q.tails

ExportOK(q) ==
    /\ NoneTwice(q.out)
    /\ q.at \in {"logs", "events", "event"} =>
          /\ q.kind = "logs" => q.kept \intersect EventIds = {}
          /\ q.kind = "events" => q.kept \intersect LogIds = {}
          /\ q.kept \intersect EventIds \subseteq IdsOf(events)
          /\ q.kept \intersect LogIds \subseteq IdsOf(Timed(logs))
    /\ q.at = "logs" =>
          /\ q.kind # "events"
          /\ Exported(q) \subseteq LogIds
          /\ CollectOK(q, Timed(logs), LogIds)
          /\ NoneLost(q, Timed(logs), "logs")
    /\ q.at = "events" => CollectOK(q, events, EventIds) /\ NoneLost(q, events, "events")
    /\ q.at \in {"events", "event"} =>
          (Len(q.out) < MaxExport => NoneMissing(q, Timed(logs), "logs"))
    /\ q.at = "event" => (Len(q.out) < MaxExport => NoneMissing(q, events, "events"))

HandlerOK(q) == InsertOK(q) /\ RangeOK(q) /\ ExportOK(q)

RequestsInv ==
    /\ req = [r \in Requests |-> req[r]]
    /\ \A r \in Requests : IsRequest(req[r])

IInv ==
    /\ now \in Nat
    /\ OriginInv /\ LogsInv /\ EventsInv /\ OrderInv
    /\ RequestsInv /\ LockHeld
    /\ \A r \in Requests : HandlerOK(req[r])

-----------------------------------------------------------------------------
(* Finite sets in a strict total order. *)

StrictOrder(S, R) ==
    /\ \A a \in S : <<a, a>> \notin R
    /\ \A a, b, c \in S : <<a, b>> \in R /\ <<b, c>> \in R => <<a, c>> \in R
    /\ \A a, b \in S : a = b \/ <<a, b>> \in R \/ <<b, a>> \in R

(* The elements of S above a. *)
Above(a, S, R) == {b \in S : <<a, b>> \in R}

(* The higher an element of S is, the fewer are above it, and never all. *)
LEMMA AboveSmaller ==
  ASSUME NEW S, IsFiniteSet(S), NEW R, StrictOrder(S, R)
  PROVE  /\ \A a \in S : /\ IsFiniteSet(Above(a, S, R))
                         /\ Cardinality(Above(a, S, R)) \in Nat
                         /\ Cardinality(Above(a, S, R)) < Cardinality(S)
         /\ \A a, b \in S : <<a, b>> \in R =>
               Cardinality(Above(b, S, R)) < Cardinality(Above(a, S, R))
  <1>1. Cardinality(S) \in Nat
    BY FS_CardinalityType
  <1>2. ASSUME NEW a \in S
        PROVE  /\ IsFiniteSet(Above(a, S, R))
               /\ Cardinality(Above(a, S, R)) \in Nat
               /\ Cardinality(Above(a, S, R)) < Cardinality(S)
    <2>1. Above(a, S, R) \in SUBSET S /\ Above(a, S, R) # S
      BY DEF Above, StrictOrder
    <2>2. IsFiniteSet(Above(a, S, R)) /\ Cardinality(Above(a, S, R)) <= Cardinality(S)
          /\ Cardinality(S) # Cardinality(Above(a, S, R))
      BY <2>1, FS_Subset
    <2>3. Cardinality(Above(a, S, R)) \in Nat
      BY <2>2, FS_CardinalityType
    <2>4. QED
      BY <1>1, <2>2, <2>3
  <1>3. ASSUME NEW a \in S, NEW b \in S, <<a, b>> \in R
        PROVE  Cardinality(Above(b, S, R)) < Cardinality(Above(a, S, R))
    <2>1. Above(b, S, R) \in SUBSET Above(a, S, R) /\ Above(b, S, R) # Above(a, S, R)
      BY <1>3 DEF Above, StrictOrder
    <2>2. /\ Cardinality(Above(b, S, R)) <= Cardinality(Above(a, S, R))
          /\ Cardinality(Above(a, S, R)) # Cardinality(Above(b, S, R))
      BY <1>2, <2>1, FS_Subset
    <2>3. Cardinality(Above(a, S, R)) \in Nat /\ Cardinality(Above(b, S, R)) \in Nat
      BY <1>2
    <2>4. QED
      BY <2>2, <2>3
  <1>4. QED
    BY <1>2, <1>3

(* Every number up to the size of S is the rank of one element. *)
LEMMA RankIsOnto ==
  ASSUME NEW S, IsFiniteSet(S), NEW R, StrictOrder(S, R),
         NEW i \in 1..Cardinality(S)
  PROVE  \E a \in S : Cardinality(Above(a, S, R)) + 1 = i
  <1> DEFINE n == Cardinality(S)
             f == [a \in S |-> Cardinality(Above(a, S, R)) + 1]
  <1>1. n \in Nat
    BY FS_CardinalityType
  <1>2. f \in [S -> 1..n]
    <2>1. ASSUME NEW a \in S PROVE Cardinality(Above(a, S, R)) + 1 \in 1..n
      <3>1. Cardinality(Above(a, S, R)) \in Nat /\ Cardinality(Above(a, S, R)) < n
        BY AboveSmaller
      <3>2. QED
        BY <1>1, <3>1
    <2>2. QED
      BY <2>1
  <1>3. ASSUME NEW a \in S, NEW b \in S, f[a] = f[b]
        PROVE  a = b
    <2>1. /\ Cardinality(Above(a, S, R)) \in Nat /\ Cardinality(Above(b, S, R)) \in Nat
          /\ Cardinality(Above(a, S, R)) = Cardinality(Above(b, S, R))
      BY <1>3, AboveSmaller
    <2>2. <<a, b>> \notin R /\ <<b, a>> \notin R
      BY <2>1, AboveSmaller
    <2>3. QED
      BY <2>2 DEF StrictOrder
  <1>4. f \in Injection(S, 1..n)
    BY <1>2, <1>3, Fun_IsInj
  <1>5. IsFiniteSet(1..n) /\ Cardinality(1..n) = n
    BY <1>1, FS_Interval
  <1>6. f \in Surjection(S, 1..n)
    BY <1>4, <1>5, FS_Injection
  <1>7. \E a \in S : f[a] = i
    BY <1>6 DEF Surjection
  <1>8. QED
    BY <1>7

(* A set that is not empty has a greatest element. *)
LEMMA GreatestExists ==
  ASSUME NEW S, IsFiniteSet(S), S # {}, NEW R, StrictOrder(S, R)
  PROVE  \E a \in S : \A b \in S \ {a} : <<b, a>> \in R
  <1>1. Cardinality(S) \in Nat /\ Cardinality(S) # 0
    BY FS_CardinalityType, FS_EmptySet
  <1>2. 1 \in 1..Cardinality(S)
    BY <1>1
  <1>3. PICK a \in S : Cardinality(Above(a, S, R)) + 1 = 1
    BY <1>2, RankIsOnto
  <1>4. Cardinality(Above(a, S, R)) = 0 /\ IsFiniteSet(Above(a, S, R))
    BY <1>3, AboveSmaller
  <1>5. Above(a, S, R) = {}
    BY <1>4, FS_EmptySet
  <1>6. QED
    BY <1>5 DEF Above, StrictOrder

-----------------------------------------------------------------------------
(* The order of rows, and the latest of them. *)

(* ORDER BY createdAt, id is a strict order, total on rows with different    *)
(* ids.                                                                      *)
LEMMA BeforeIsOrder ==
  ASSUME NEW a, NEW b, NEW c, IsRow(a), IsRow(b), IsRow(c)
  PROVE  /\ ~Before(a, a)
         /\ Before(a, b) => ~Before(b, a)
         /\ Before(a, b) /\ Before(b, c) => Before(a, c)
         /\ a.id # b.id => Before(a, b) \/ Before(b, a)
  <1>1. /\ a.id \in Nat /\ b.id \in Nat /\ c.id \in Nat
        /\ a.at \in Nat /\ b.at \in Nat /\ c.at \in Nat
    BY AuditLogAssumption DEF IsRow
  <1>2. QED
    BY <1>1 DEF Before

(* Only the time and the id of a row matter. *)
LEMMA SameOrder ==
  ASSUME NEW a, NEW b, NEW c, a.id = b.id, a.at = b.at
  PROVE  (Before(a, c) <=> Before(b, c)) /\ (Before(c, a) <=> Before(c, b))
  BY DEF Before

(* The row that Latest chooses exists, and every other one is before it. *)
LEMMA LatestIsLast ==
  ASSUME NEW rows, IsFiniteSet(rows), rows # {}, \A a \in rows : IsRow(a), UniqueIds(rows)
  PROVE  /\ Latest(rows) \in rows
         /\ \A b \in rows \ {Latest(rows)} : Before(b, Latest(rows))
         /\ \A b \in rows : ~Before(Latest(rows), b)
  <1> DEFINE R == {p \in rows \X rows : Before(p[1], p[2])}
  <1>1. \A a, b \in rows : <<a, b>> \in R <=> Before(a, b)
    OBVIOUS
  <1> HIDE DEF R
  <1>2. \A a, b, c \in rows : /\ ~Before(a, a)
                              /\ Before(a, b) => ~Before(b, a)
                              /\ Before(a, b) /\ Before(b, c) => Before(a, c)
                              /\ a # b => Before(a, b) \/ Before(b, a)
    BY BeforeIsOrder DEF UniqueIds
  <1>3. StrictOrder(rows, R)
    BY <1>1, <1>2 DEF StrictOrder
  <1>4. \E a \in rows : \A b \in rows \ {a} : <<b, a>> \in R
    BY <1>3, GreatestExists
  <1>5. \E a \in rows : \A b \in rows \ {a} : Before(b, a)
    BY <1>1, <1>4
  <1>6. Latest(rows) \in rows /\ \A b \in rows \ {Latest(rows)} : Before(b, Latest(rows))
    BY <1>5 DEF Latest
  <1>7. QED
    BY <1>2, <1>6

(* HashOf is the hash of the one row that no other is after. *)
LEMMA HashOfLast ==
  ASSUME NEW rows, IsFiniteSet(rows), \A a \in rows : IsRow(a), UniqueIds(rows),
         NEW b \in rows, \A c \in rows : ~Before(b, c)
  PROVE  HashOf(rows) = b.hash
  <1>1. Latest(rows) \in rows /\ \A c \in rows \ {Latest(rows)} : Before(c, Latest(rows))
    BY LatestIsLast
  <1>2. Latest(rows) = b
    BY <1>1
  <1>3. QED
    BY <1>2 DEF HashOf

-----------------------------------------------------------------------------
(* The verdict. *)

(* Digests of different rows differ, and none is null. *)
LEMMA HashesDiffer ==
  ASSUME OriginInv
  PROVE  /\ \A o, p \in origin : o.row.hash = p.row.hash => o = p
         /\ \A o \in origin : o.row.hash # NoHash
  <1>1. ASSUME NEW o \in origin
        PROVE  o.row.hash.id = o.row.id /\ o.row.id \in LogIds
    <2>1. o.row.hash = Digest(o.row) /\ o.row.id \in LogIds
      BY DEF OriginInv, IsRow
    <2>2. Digest(o.row).id = o.row.id
      BY DEF Digest
    <2>3. QED
      BY <2>1, <2>2
  <1>2. NoHash.id = None /\ None \notin LogIds
    BY AuditLogAssumption DEF NoHash
  <1>3. QED
    BY <1>1, <1>2 DEF OriginInv

(* A row has the hash it should have if and only if it is as it was written. *)
LEMMA HashTellsEdits ==
  ASSUME OriginInv, NEW a, IsRow(a), a.chained = TRUE, NEW o \in origin, WrittenAs(a, o)
  PROVE  a.hash = Digest(a) <=> o.row = a
  <1>1. /\ IsRow(o.row) /\ o.row.chained = TRUE /\ o.row.hash = Digest(o.row)
    BY DEF OriginInv
  <1>2. Digest(a).body = a.body /\ Digest(o.row).body = o.row.body
    BY DEF Digest
  <1>3. a.hash = Digest(a) => a.body = o.row.body
    BY <1>1, <1>2 DEF WrittenAs
  <1>4. ASSUME a.body = o.row.body PROVE a = o.row
    <2> DEFINE w == o.row
    <2>1. a = [id |-> a.id, at |-> a.at, us |-> a.us, chained |-> a.chained,
               body |-> a.body, prev |-> a.prev, hash |-> a.hash]
      BY DEF IsRow, RowShape
    <2>2. w = [id |-> w.id, at |-> w.at, us |-> w.us, chained |-> w.chained,
               body |-> w.body, prev |-> w.prev, hash |-> w.hash]
      BY <1>1 DEF IsRow, RowShape
    <2>3. /\ a.id = w.id /\ a.at = w.at /\ a.us = w.us /\ a.chained = w.chained
          /\ a.body = w.body /\ a.prev = w.prev /\ a.hash = w.hash
      BY <1>1, <1>4 DEF WrittenAs
    <2> HIDE DEF w
    <2>4. [id |-> a.id, at |-> a.at, us |-> a.us, chained |-> a.chained,
           body |-> a.body, prev |-> a.prev, hash |-> a.hash] =
          [id |-> w.id, at |-> w.at, us |-> w.us, chained |-> w.chained,
           body |-> w.body, prev |-> w.prev, hash |-> w.hash]
      BY <2>3
    <2>5. a = w
      BY <2>1, <2>2, <2>4, Zenon
    <2>6. QED
      BY <2>5 DEF w
  <1>5. o.row = a => a.hash = Digest(a)
    BY <1>1
  <1>6. QED
    BY <1>3, <1>4, <1>5

(* A row that has the id of an origin was written as it. *)
LEMMA OneOrigin ==
  ASSUME OriginInv, NEW b, NEW p \in origin, b.id = p.row.id,
         \E o \in origin : WrittenAs(b, o)
  PROVE  WrittenAs(b, p)
  BY DEF OriginInv, WrittenAs

(* rows are all before a: a is linked to the latest of them just if the row  *)
(* it was linked to when it was written is one of them.                      *)
LEMMA LinkFound ==
  ASSUME OriginInv, NEW rows, IsFiniteSet(rows), UniqueIds(rows),
         \A b \in rows : IsRow(b) /\ \E o \in origin : WrittenAs(b, o),
         NEW a, NEW o \in origin, WrittenAs(a, o),
         \A b \in rows : Before(b, a),
         NoneBetween(rows, o.row, o.pred)
  PROVE  a.prev = HashOf(rows) <=> o.pred = None \/ o.pred \in IdsOf(rows)
  <1>1. \A b \in rows : Before(b, o.row)
    BY SameOrder DEF WrittenAs
  <1>2. LinkOK(a.prev, o.pred)
    BY DEF OriginInv, WrittenAs
  <1>3. CASE o.pred = None
    <2>1. rows = {}
      BY <1>1, <1>3 DEF NoneBetween
    <2>2. QED
      BY <1>2, <1>3, <2>1 DEF LinkOK, HashOf
  <1>4. CASE o.pred # None
    <2>1. PICK p \in origin : p.row.id = o.pred /\ a.prev = p.row.hash
      BY <1>2, <1>4 DEF LinkOK
    <2>2. ASSUME a.prev = HashOf(rows) PROVE o.pred \in IdsOf(rows)
      <3>1. rows # {}
        BY <2>1, <2>2, HashesDiffer DEF HashOf
      <3>2. Latest(rows) \in rows /\ HashOf(rows) = Latest(rows).hash
        BY <3>1, LatestIsLast DEF HashOf
      <3>3. PICK s \in origin : WrittenAs(Latest(rows), s)
        BY <3>2
      <3>4. s.row.hash = p.row.hash
        BY <2>1, <2>2, <3>2, <3>3 DEF WrittenAs
      <3>5. s = p
        BY <3>4, HashesDiffer
      <3>6. Latest(rows).id = o.pred
        BY <2>1, <3>3, <3>5 DEF WrittenAs
      <3>7. QED
        BY <3>2, <3>6 DEF IdsOf
    <2>3. ASSUME o.pred \in IdsOf(rows) PROVE a.prev = HashOf(rows)
      <3>1. PICK b \in rows : b.id = o.pred
        BY <2>3 DEF IdsOf
      <3>2. WrittenAs(b, p)
        BY <2>1, <3>1, OneOrigin
      <3>3. \A c \in rows : ~Before(p.row, c)
        BY <1>1, <2>1 DEF NoneBetween
      <3>4. \A c \in rows : ~Before(b, c)
        BY <3>2, <3>3, SameOrder DEF WrittenAs
      <3>5. HashOf(rows) = b.hash
        BY <3>4, HashOfLast
      <3>6. QED
        BY <2>1, <3>2, <3>5 DEF WrittenAs
    <2>4. QED
      BY <1>4, <2>2, <2>3
  <1>5. QED
    BY <1>3, <1>4

(* The link of one row of a range, as the verdict computes it: found just    *)
(* if the row it was linked to was read with the range or, for the first     *)
(* row, is still there.                                                      *)
LEMMA LinkExact ==
  ASSUME IInv, orderly, NEW r \in Requests, req[r].at = "previous",
         NEW a \in req[r].rows, NEW o \in origin, WrittenAs(a, o)
  PROVE  LET rows == req[r].rows
             earlier == {b \in rows : Before(b, a)}
             outside == {b \in Chained(logs) : Before(b, a)}
         IN  a.prev = HashOf(IF earlier = {} THEN outside ELSE earlier)
             <=> \/ o.pred \in {None} \union IdsOf(rows)
                 \/ o.pred \in IdsOf(logs) /\ \A b \in rows : ~Before(b, a)
  <1> DEFINE rows == req[r].rows
             earlier == {b \in rows : Before(b, a)}
             outside == {b \in Chained(logs) : Before(b, a)}
  <1>1. OriginInv /\ LogsInv /\ OrderInv /\ RangeOK(req[r])
    BY DEF IInv, HandlerOK
  <1>2. /\ IsFiniteSet(rows) /\ UniqueIds(rows)
        /\ \A b \in rows : IsRow(b) /\ \E s \in origin : WrittenAs(b, s)
        /\ NoneBetween(rows, o.row, o.pred)
    BY <1>1 DEF RangeOK, WrittenAs
  <1>3. /\ IsFiniteSet(Chained(logs)) /\ UniqueIds(Chained(logs))
        /\ \A b \in Chained(logs) : IsRow(b) /\ \E s \in origin : WrittenAs(b, s)
        /\ NoneBetween(Chained(logs), o.row, o.pred)
    <2>1. Chained(logs) \in SUBSET logs
      BY DEF Chained
    <2>2. IsFiniteSet(Chained(logs))
      BY <1>1, <2>1, FS_Subset DEF LogsInv
    <2>3. QED
      BY <1>1, <2>1, <2>2 DEF LogsInv, UniqueIds, OrderInv
  (* the row a was linked to comes before a *)
  <1>4. ASSUME NEW b, b.id = o.pred, \E s \in origin : WrittenAs(b, s)
        PROVE  Before(b, a)
    <2>1. PICK p \in origin : WrittenAs(b, p)
      BY <1>4
    <2>2. Before(p.row, o.row)
      BY <1>1, <1>4, <2>1 DEF OrderInv, WrittenAs
    <2>3. QED
      BY <2>1, <2>2, SameOrder DEF WrittenAs
  <1>5. IsFiniteSet(earlier) /\ UniqueIds(earlier) /\ NoneBetween(earlier, o.row, o.pred)
    <2>1. earlier \in SUBSET rows
      OBVIOUS
    <2>2. QED
      BY <1>2, <2>1, FS_Subset DEF UniqueIds, NoneBetween
  <1>6. IsFiniteSet(outside) /\ UniqueIds(outside) /\ NoneBetween(outside, o.row, o.pred)
    <2>1. outside \in SUBSET Chained(logs)
      OBVIOUS
    <2>2. QED
      BY <1>3, <2>1, FS_Subset DEF UniqueIds, NoneBetween
  <1>7. a.prev = HashOf(earlier) <=> o.pred = None \/ o.pred \in IdsOf(earlier)
    BY <1>1, <1>2, <1>5, LinkFound
  <1>8. a.prev = HashOf(outside) <=> o.pred = None \/ o.pred \in IdsOf(outside)
    BY <1>1, <1>3, <1>6, LinkFound
  <1>9. o.pred \in IdsOf(rows) <=> o.pred \in IdsOf(earlier)
    BY <1>2, <1>4 DEF IdsOf
  <1>10. o.pred # None => (o.pred \in IdsOf(logs) <=> o.pred \in IdsOf(outside))
    <2>1. ASSUME o.pred # None, o.pred \in IdsOf(logs) PROVE o.pred \in IdsOf(outside)
      <3>1. PICK p \in origin : p.row.id = o.pred
        BY <1>1, <2>1 DEF OriginInv, LinkOK
      <3>2. PICK b \in Chained(logs) : b.id = p.row.id
        BY <1>1, <2>1, <3>1 DEF LogsInv
      <3>3. Before(b, a)
        BY <1>3, <1>4, <3>1, <3>2
      <3>4. QED
        BY <3>1, <3>2, <3>3 DEF IdsOf
    <2>2. ASSUME o.pred \in IdsOf(outside) PROVE o.pred \in IdsOf(logs)
      BY <2>2 DEF IdsOf, Chained
    <2>3. QED
      BY <2>1, <2>2
  <1>11. CASE earlier = {}
    <2>1. IdsOf(earlier) = {}
      BY <1>11 DEF IdsOf
    <2>2. \A b \in rows : ~Before(b, a)
      BY <1>11
    <2>3. QED
      BY <1>8, <1>9, <1>10, <1>11, <2>1, <2>2
  <1>12. CASE earlier # {}
    <2>1. ~\A b \in rows : ~Before(b, a)
      BY <1>12
    <2>2. QED
      BY <1>7, <1>9, <1>12, <2>1
  <1>13. QED
    BY <1>11, <1>12

(* The verdict on a range says whether it is intact. *)
LEMMA VerdictIsExact ==
  ASSUME IInv, orderly, NEW r \in Requests, req[r].at = "previous"
  PROVE  Verdict(r) <=> Intact(r)
  <1> DEFINE rows == req[r].rows
             earlier(a) == {b \in rows : Before(b, a)}
             outside(a) == {b \in Chained(logs) : Before(b, a)}
             linked(a) == a.prev = HashOf(IF earlier(a) = {} THEN outside(a) ELSE earlier(a))
             found(a, o) == \/ o.pred \in {None} \union IdsOf(rows)
                            \/ o.pred \in IdsOf(logs) /\ \A b \in rows : ~Before(b, a)
  <1>1. ASSUME NEW a \in rows
        PROVE  linked(a) /\ a.hash = Digest(a) <=> \E o \in origin : o.row = a /\ found(a, o)
    <2>1. OriginInv /\ RangeOK(req[r])
      BY DEF IInv, HandlerOK
    <2>2. IsRow(a) /\ a.chained = TRUE /\ \E o \in origin : WrittenAs(a, o)
      BY <2>1 DEF RangeOK
    <2>3. PICK o \in origin : WrittenAs(a, o)
      BY <2>2
    <2>4. linked(a) <=> found(a, o)
      BY <2>3, LinkExact
    <2> HIDE DEF linked, found
    <2>5. a.hash = Digest(a) <=> o.row = a
      BY <2>1, <2>2, <2>3, HashTellsEdits
    <2>6. \A s \in origin : s.row = a => s = o
      BY <2>1, <2>3 DEF OriginInv, WrittenAs
    <2>7. QED
      BY <2>4, <2>5, <2>6
  <1>2. Verdict(r) <=> \A a \in rows : linked(a) /\ a.hash = Digest(a)
    BY DEF Verdict
  <1>3. Intact(r) <=> \A a \in rows : \E o \in origin : o.row = a /\ found(a, o)
    BY DEF Intact
  <1> HIDE DEF linked, found, rows
  <1>4. QED
    BY <1>1, <1>2, <1>3

-----------------------------------------------------------------------------
(* Pages. *)

(* What the pages are made of. *)
TimedRow == [id : Nat, at : Nat, us : {0, 1}]

(* The order of the pages is strict too, and total on rows with different    *)
(* ids.                                                                      *)
LEMMA OlderIsOrder ==
  ASSUME NEW a \in TimedRow, NEW b \in TimedRow, NEW c \in TimedRow
  PROVE  /\ ~Older(a, a)
         /\ Older(a, b) => ~Older(b, a)
         /\ Older(a, b) /\ Older(b, c) => Older(a, c)
         /\ a.id # b.id => Older(a, b) \/ Older(b, a)
  BY DEF TimedRow, Older

(* A page has the newest rows beyond the cursor, each once: all there are,   *)
(* or as many as there is room for, and then the cursor is at the oldest.    *)
LEMMA PageIsNewest ==
  ASSUME NEW rows, IsFiniteSet(rows), rows \subseteq TimedRow, UniqueIds(rows), NEW c
  PROVE  LET left == Beyond(rows, c)
             page == Page(rows, c)
             n == Len(page.items)
         IN  /\ page.items \in Seq(left) /\ n \in Nat
             /\ page.more \in BOOLEAN
             /\ NoneTwice(page.items)
             /\ ~page.more => \A a \in left : \E i \in 1..n : page.items[i] = a
             /\ page.more =>
                   /\ n = PageSize
                   /\ page.cursor = ToCursor(page.items[n])
                   /\ page.items[n].us > 0 => page.cut = TRUE
                   /\ page.items[n] \in left
                   /\ \A i \in 1..n : ~Older(page.items[i], page.items[n])
                   /\ \A a \in left : \/ \E i \in 1..n : page.items[i] = a
                                      \/ Older(a, page.items[n])
  <1> DEFINE left == Beyond(rows, c)
             R == {p \in left \X left : Older(p[1], p[2])}
             size == Cardinality(left)
             more == size > PageSize
             rank(a) == Cardinality({b \in left : Older(a, b)}) + 1
             m == IF more THEN PageSize ELSE size
             items == [i \in 1..m |-> CHOOSE a \in left : rank(a) = i]
             cursor == IF more THEN ToCursor(items[PageSize]) ELSE c
             cut == more /\ items[PageSize].us > 0
  <1>1. Page(rows, c) = [items |-> items, more |-> more, cut |-> cut, cursor |-> cursor]
    BY DEF Page
  <1>2. left \in SUBSET rows
    BY DEF Beyond
  <1>3. IsFiniteSet(left) /\ left \subseteq TimedRow /\ UniqueIds(left)
    BY <1>2, FS_Subset DEF UniqueIds
  <1>4. size \in Nat /\ PageSize \in Nat \ {0}
    BY <1>3, FS_CardinalityType, AuditLogAssumption
  <1> HIDE DEF left
  <1>5. \A a, b, d \in left : /\ ~Older(a, a)
                              /\ Older(a, b) => ~Older(b, a)
                              /\ Older(a, b) /\ Older(b, d) => Older(a, d)
                              /\ a # b => Older(a, b) \/ Older(b, a)
    BY <1>3, OlderIsOrder DEF UniqueIds
  <1>6. \A a, b \in left : <<a, b>> \in R <=> Older(a, b)
    OBVIOUS
  <1>7. \A a \in left : Above(a, left, R) = {b \in left : Older(a, b)}
    BY <1>6 DEF Above
  <1> HIDE DEF R
  <1>8. StrictOrder(left, R)
    BY <1>5, <1>6 DEF StrictOrder
  <1>9. \A a \in left : rank(a) = Cardinality(Above(a, left, R)) + 1
    BY <1>7
  <1> HIDE DEF rank
  <1>10. \A a \in left : rank(a) \in 1..size
    <2>1. ASSUME NEW a \in left PROVE rank(a) \in 1..size
      <3>1. /\ Cardinality(Above(a, left, R)) \in Nat
            /\ Cardinality(Above(a, left, R)) < size
        BY <1>3, <1>8, AboveSmaller
      <3>2. QED
        BY <1>4, <1>9, <3>1
    <2>2. QED
      BY <2>1
  <1>11. \A a, b \in left : Older(a, b) => rank(b) < rank(a)
    <2>1. ASSUME NEW a \in left, NEW b \in left, Older(a, b) PROVE rank(b) < rank(a)
      <3>1. Cardinality(Above(b, left, R)) < Cardinality(Above(a, left, R))
        BY <1>3, <1>6, <1>8, <2>1, AboveSmaller
      <3>2. /\ Cardinality(Above(a, left, R)) \in Nat
            /\ Cardinality(Above(b, left, R)) \in Nat
        BY <1>3, <1>8, AboveSmaller
      <3>3. QED
        BY <1>9, <3>1, <3>2
    <2>2. QED
      BY <2>1
  <1>12. \A a, b \in left : rank(a) = rank(b) => a = b
    BY <1>4, <1>5, <1>10, <1>11
  <1>13. \A i \in 1..size : \E a \in left : rank(a) = i
    BY <1>3, <1>8, <1>9, RankIsOnto
  <1>14. m \in Nat /\ m <= size /\ (~more => m = size) /\ (more => m = PageSize)
    BY <1>4
  <1> HIDE DEF m, more, size
  <1>15. ASSUME NEW i \in 1..m PROVE items[i] \in left /\ rank(items[i]) = i
    <2>1. i \in 1..size
      BY <1>4, <1>14 DEF size
    <2>2. items[i] = CHOOSE a \in left : rank(a) = i
      OBVIOUS
    <2>3. QED
      BY <1>13, <2>1, <2>2
  <1>16. items \in Seq(left) /\ Len(items) = m
    <2>1. items \in [1..m -> left]
      BY <1>15
    <2>2. QED
      BY <1>14, <2>1
  <1> HIDE DEF items
  <1>17. NoneTwice(items)
    BY <1>15, <1>16 DEF NoneTwice
  <1>18. \A a \in left : rank(a) <= m => \E i \in 1..m : items[i] = a
    <2>1. ASSUME NEW a \in left, rank(a) <= m PROVE \E i \in 1..m : items[i] = a
      <3>1. rank(a) \in 1..m
        BY <1>4, <1>10, <1>14, <2>1 DEF size
      <3>2. items[rank(a)] = a
        BY <1>12, <1>15, <3>1
      <3>3. QED
        BY <3>1, <3>2
    <2>2. QED
      BY <2>1
  <1>19. ~more => \A a \in left : \E i \in 1..m : items[i] = a
    BY <1>4, <1>10, <1>14, <1>18 DEF size
  <1>20. ASSUME more
         PROVE  /\ m = PageSize /\ cursor = ToCursor(items[m]) /\ items[m] \in left
                /\ items[m].us > 0 => cut = TRUE
                /\ \A i \in 1..m : ~Older(items[i], items[m])
                /\ \A a \in left : (\E i \in 1..m : items[i] = a) \/ Older(a, items[m])
    <2>1. m = PageSize /\ m \in 1..m
      BY <1>4, <1>14, <1>20
    <2>2. items[m] \in left /\ rank(items[m]) = m
      BY <1>15, <2>1
    <2>3. \A i \in 1..m : ~Older(items[i], items[m])
      BY <1>11, <1>14, <1>15, <2>2
    <2>4. ASSUME NEW a \in left, ~Older(a, items[m]) PROVE \E i \in 1..m : items[i] = a
      <3>1. a = items[m] \/ rank(a) < m
        BY <1>5, <1>11, <2>2, <2>4
      <3>2. rank(a) <= m
        BY <1>4, <1>10, <1>14, <2>2, <3>1 DEF size
      <3>3. QED
        BY <1>18, <3>2
    <2>5. QED
      BY <1>20, <2>1, <2>2, <2>3, <2>4
  <1>21. more \in BOOLEAN
    BY DEF more
  <1> HIDE DEF cursor, cut
  <1>22. /\ Page(rows, c).items = items /\ Page(rows, c).more = more
         /\ Page(rows, c).cursor = cursor /\ Page(rows, c).cut = cut
    BY <1>1
  <1>23. QED
    BY <1>14, <1>16, <1>17, <1>19, <1>20, <1>21, <1>22 DEF left

-----------------------------------------------------------------------------
(* Steps of handlers that leave the tables alone. *)

(* One handler moves; the others keep what they had. *)
LEMMA HandlersMove ==
  ASSUME IInv, NEW r \in Requests, NEW q, req' = [req EXCEPT ![r] = q],
         IsRequest(q), HandlerOK(q)',
         q.at = "insert" => lock' = r,
         \A s \in Requests \ {r} : req[s].at = "insert" => lock' = s,
         \A s \in Requests \ {r} : \A p :
             p = req[s] /\ IsRequest(p) /\ HandlerOK(p) => HandlerOK(p)'
  PROVE  /\ RequestsInv' /\ LockHeld'
         /\ \A s \in Requests : HandlerOK(req[s])'
  <1>1. \A s \in Requests : req'[s] = IF s = r THEN q ELSE req[s]
    BY DEF IInv, RequestsInv
  <1>2. RequestsInv'
    <2>1. req' = [s \in Requests |-> req'[s]]
      BY DEF IInv, RequestsInv
    <2>2. \A s \in Requests : IsRequest(req'[s])
      BY <1>1 DEF IInv, RequestsInv
    <2>3. QED
      BY <2>1, <2>2 DEF RequestsInv
  <1>3. LockHeld'
    BY <1>1 DEF LockHeld
  <1>4. ASSUME NEW s \in Requests PROVE HandlerOK(req[s])'
    <2>1. PICK p : p = req'[s]
      OBVIOUS
    <2>2. HandlerOK(p)'
      <3>1. CASE s = r
        BY <1>1, <2>1, <3>1
      <3>2. CASE s # r
        BY <1>1, <2>1, <3>2 DEF IInv, RequestsInv
      <3>3. QED
        BY <3>1, <3>2
    <2>3. QED
      BY <2>1, <2>2
  <1>5. QED
    BY <1>2, <1>3, <1>4

(* Handlers that leave the tables alone disturb nothing that is said of      *)
(* them.                                                                     *)
LEMMA TablesKept ==
  ASSUME UNCHANGED <<logs, events, now, origin, orderly>>
  PROVE  /\ OriginInv => OriginInv'
         /\ LogsInv => LogsInv'
         /\ EventsInv => EventsInv'
         /\ OrderInv => OrderInv'
         /\ \A p : HandlerOK(p) => HandlerOK(p)'
  <1>1. OriginInv => OriginInv'
    BY DEF OriginInv, LinkOK
  <1>2. LogsInv => LogsInv'
    BY DEF LogsInv
  <1>3. EventsInv => EventsInv'
    BY DEF EventsInv
  <1>4. OrderInv => OrderInv'
    BY DEF OrderInv, NoneBetween
  <1>5. ASSUME NEW p, HandlerOK(p) PROVE HandlerOK(p)'
    <2>1. InsertOK(p)'
      BY <1>5 DEF HandlerOK, InsertOK, LinkOK
    <2>2. RangeOK(p)'
      BY <1>5 DEF HandlerOK, RangeOK, NoneBetween
    <2>3. ExportOK(p)'
      BY <1>5 DEF HandlerOK, ExportOK, CollectOK, NoneLost, NoneMissing
    <2>4. QED
      BY <2>1, <2>2, <2>3 DEF HandlerOK
  <1>6. QED
    BY <1>1, <1>2, <1>3, <1>4, <1>5

(* One handler moves and the tables stay as they are. *)
LEMMA QuietMove ==
  ASSUME IInv, NEW r \in Requests, NEW q, req' = [req EXCEPT ![r] = q],
         IsRequest(q), HandlerOK(q),
         q.at = "insert" => lock' = r,
         \A s \in Requests \ {r} : req[s].at = "insert" => lock' = s,
         UNCHANGED <<logs, events, now, origin, orderly>>
  PROVE  IInv'
  <1>1. /\ OriginInv' /\ LogsInv' /\ EventsInv' /\ OrderInv' /\ now' \in Nat
        /\ \A p : HandlerOK(p) => HandlerOK(p)'
    BY TablesKept DEF IInv
  <1>2. RequestsInv' /\ LockHeld' /\ \A s \in Requests : HandlerOK(req[s])'
    BY <1>1, HandlersMove
  <1>3. QED
    BY <1>1, <1>2 DEF IInv

(* A free handler. *)
LEMMA IdleOK ==
  /\ Idle.at = "idle" /\ Idle.kind = "logs" /\ Idle.out = <<>> /\ Idle.counted = 0
  /\ Idle.cursor = NoCursor /\ Idle.rows = {} /\ Idle.kept = {} /\ Idle.tails = {}
  /\ IsRequest(Idle)
  /\ HandlerOK(Idle)
  <1>1. PICK n : n = Idle
    OBVIOUS
  <1>2. /\ n.at = "idle" /\ n.kind = "logs" /\ n.out = <<>> /\ n.counted = 0
        /\ n.cursor = NoCursor /\ n.rows = {} /\ n.kept = {} /\ n.tails = {}
        /\ n.prev = NoHash /\ n.pred = None
    BY <1>1 DEF Idle
  <1>3. RequestShape(n)
    BY <1>1, <1>2 DEF Idle, RequestShape
  <1>4. IsRequest(n)
    BY <1>2, <1>3 DEF IsRequest, NoCursor
  <1>5. HandlerOK(n)
    BY <1>2 DEF HandlerOK, InsertOK, RangeOK, ExportOK, NoneTwice
  <1>6. QED
    BY <1>1, <1>2, <1>4, <1>5

(* A handler ends; if it had the lock, that is free again. *)
LEMMA EndMove ==
  ASSUME IInv, NEW r \in Requests, Goto(r, Idle),
         \/ UNCHANGED lock
         \/ lock' = IF lock = r THEN None ELSE lock,
         UNCHANGED <<logs, events, origin, orderly>>
  PROVE  IInv'
  <1>1. PICK q : q = Idle
    OBVIOUS
  <1>2. IsRequest(q) /\ HandlerOK(q) /\ q.at = "idle"
    BY <1>1, IdleOK
  <1>3. req' = [req EXCEPT ![r] = q] /\ now' = now
    BY <1>1 DEF Goto
  <1>4. \A s \in Requests \ {r} : req[s].at = "insert" => lock' = s
    BY DEF IInv, LockHeld
  <1>5. QED
    BY <1>2, <1>3, <1>4, QuietMove

(* The end of a verification, and a failure anywhere. *)
LEMMA EndSteps ==
  ASSUME IInv, NEW r \in Requests, VerifyPrevious(r) \/ Fail(r)
  PROVE  IInv'
  BY EndMove DEF VerifyPrevious, Fail

(* The chained rows of the log are rows of it. *)
LEMMA ChainedRows ==
  ASSUME LogsInv
  PROVE  /\ IsFiniteSet(Chained(logs)) /\ UniqueIds(Chained(logs))
         /\ \A a \in Chained(logs) : IsRow(a) /\ a.chained = TRUE /\ a \in logs
  <1>1. Chained(logs) \in SUBSET logs
    BY DEF Chained
  <1>2. IsFiniteSet(Chained(logs))
    BY <1>1, FS_Subset DEF LogsInv
  <1>3. \A a \in Chained(logs) : IsRow(a) /\ a.chained = TRUE /\ a \in logs
    BY <1>1 DEF LogsInv, Chained, IsRow
  <1>4. QED
    BY <1>2, <1>3 DEF LogsInv, UniqueIds

(* LockAuditChain reads the latest row, and no other handler is about to     *)
(* insert.                                                                   *)
LEMMA LockStep ==
  ASSUME IInv, NEW r \in Requests, LockAuditChain(r)
  PROVE  IInv'
  <1> DEFINE rows == Chained(logs)
  <1>1. LogsInv /\ OriginInv /\ IsRequest(req[r]) /\ ExportOK(req[r])
    BY DEF IInv, RequestsInv, HandlerOK
  <1>2. PICK q : q = [req[r] EXCEPT !.at = "insert", !.prev = HashOf(rows),
                          !.pred = IF rows = {} THEN None ELSE Latest(rows).id]
    OBVIOUS
  <1>3. /\ req' = [req EXCEPT ![r] = q] /\ lock = None /\ lock' = r
        /\ UNCHANGED <<logs, events, now, origin, orderly>>
    BY <1>2 DEF LockAuditChain, Goto
  <1>4. PICK p : p = req[r]
    OBVIOUS
  <1>5. /\ RequestShape(q)
        /\ q.at = "insert" /\ q.kind = p.kind /\ q.out = p.out /\ q.counted = p.counted
        /\ q.cursor = p.cursor /\ q.rows = p.rows /\ q.kept = p.kept /\ q.tails = p.tails
        /\ q.prev = HashOf(rows)
        /\ q.pred = IF rows = {} THEN None ELSE Latest(rows).id
    <2>1. RequestShape(p)
      BY <1>1, <1>4 DEF IsRequest
    <2>2. QED
      BY <1>2, <1>4, <2>1 DEF RequestShape
  <1>6. IsRequest(q)
    BY <1>1, <1>4, <1>5 DEF IsRequest
  <1>7. InsertOK(q)
    <2>1. CASE rows = {}
      BY <1>5, <2>1 DEF InsertOK, LinkOK, HashOf
    <2>2. CASE rows # {}
      <3>1. Latest(rows) \in rows /\ \A b \in rows : ~Before(Latest(rows), b)
        BY <1>1, <2>2, ChainedRows, LatestIsLast
      <3>2. PICK o \in origin : WrittenAs(Latest(rows), o)
        BY <1>1, <3>1 DEF LogsInv
      <3>3. o.row.id = q.pred /\ q.prev = o.row.hash /\ q.pred \in LogIds
        BY <1>1, <1>5, <2>2, <3>1, <3>2, ChainedRows DEF WrittenAs, HashOf, IsRow
      <3>4. q.pred # None
        BY <3>3, AuditLogAssumption
      <3>5. \A s \in origin : s.row.id = q.pred => s = o
        BY <1>1, <3>3 DEF OriginInv
      <3>6. \A b \in rows : ~Before(o.row, b)
        BY <3>1, <3>2, SameOrder DEF WrittenAs
      <3>7. QED
        BY <3>3, <3>4, <3>5, <3>6 DEF InsertOK, LinkOK
    <2>3. QED
      BY <2>1, <2>2
  <1>8. RangeOK(q) /\ ExportOK(q)
    BY <1>1, <1>4, <1>5 DEF RangeOK, ExportOK
  <1>9. \A s \in Requests \ {r} : req[s].at = "insert" => lock' = s
    BY <1>3, AuditLogAssumption DEF IInv, LockHeld
  <1>10. QED
    BY <1>3, <1>6, <1>7, <1>8, <1>9, QuietMove DEF HandlerOK

(* What listAuditLogs and listSecurityEvents read. *)
LEMMA TimedRows ==
  ASSUME LogsInv, now \in Nat
  PROVE  /\ IsFiniteSet(Timed(logs)) /\ UniqueIds(Timed(logs))
         /\ IdsOf(Timed(logs)) = IdsOf(logs)
         /\ \A a \in Timed(logs) : a \in TimedRow /\ a.id \in LogIds /\ a.at <= now
  <1> DEFINE stamp(a) == [id |-> a.id, at |-> a.at, us |-> a.us]
             f == [a \in logs |-> stamp(a)]
  <1>1. Timed(logs) = {stamp(a) : a \in logs}
    BY DEF Timed
  <1>2. f \in Surjection(logs, Timed(logs))
    <2>1. f \in [logs -> Timed(logs)] /\ \A t \in Timed(logs) : \E a \in logs : f[a] = t
      BY <1>1
    <2>2. QED
      BY <2>1, Fun_IsSurj
  <1>3. IsFiniteSet(Timed(logs))
    BY <1>2, FS_Surjection DEF LogsInv
  <1>4. ASSUME NEW a \in logs
        PROVE  stamp(a) \in TimedRow /\ stamp(a).id \in LogIds /\ stamp(a).at <= now
    BY AuditLogAssumption DEF LogsInv, IsRow, TimedRow
  <1>5. IdsOf(Timed(logs)) = IdsOf(logs)
    <2>1. \A a \in logs : stamp(a) \in Timed(logs) /\ stamp(a).id = a.id
      BY <1>1
    <2>2. \A t \in Timed(logs) : \E a \in logs : t.id = a.id
      BY <1>1
    <2> HIDE DEF stamp
    <2>3. IdsOf(logs) \subseteq IdsOf(Timed(logs))
      BY <2>1 DEF IdsOf
    <2>4. IdsOf(Timed(logs)) \subseteq IdsOf(logs)
      BY <2>2 DEF IdsOf
    <2>5. QED
      BY <2>3, <2>4
  <1>6. UniqueIds(Timed(logs))
    BY <1>1 DEF UniqueIds, LogsInv
  <1>7. QED
    BY <1>1, <1>3, <1>4, <1>5, <1>6

(* Events can be put on pages as they are. *)
LEMMA EventRows ==
  ASSUME EventsInv
  PROVE  /\ IsFiniteSet(events) /\ UniqueIds(events)
         /\ \A a \in events : a \in TimedRow /\ a.id \in EventIds /\ a.at <= now
  BY AuditLogAssumption DEF EventsInv, TimedRow

(* The two tables have ids of their own. *)
LEMMA IdsInTables ==
  ASSUME LogsInv, EventsInv
  PROVE  IdsOf(logs) \subseteq LogIds /\ IdsOf(events) \subseteq EventIds
  BY DEF LogsInv, EventsInv, IdsOf, IsRow

(* A handler starts. *)
LEMMA BeginMove ==
  ASSUME IInv, NEW r \in Requests, NEW q, Begin(r, q), q.at # "insert",
         IsRequest(q), HandlerOK(q)
  PROVE  IInv'
  <1>1. req' = [req EXCEPT ![r] = q] /\ UNCHANGED <<logs, events, lock, now, origin, orderly>>
    BY DEF Begin
  <1>2. \A s \in Requests \ {r} : req[s].at = "insert" => lock' = s
    BY <1>1 DEF IInv, LockHeld
  <1>3. QED
    BY <1>1, <1>2, QuietMove

(* VerifyRange: no row of the range lies between one of them and its         *)
(* predecessor.                                                              *)
LEMMA VerifyStep ==
  ASSUME IInv, NEW r \in Requests, NEW from, NEW to, VerifyRange(r, from, to)
  PROVE  IInv'
  <1> DEFINE rows == {a \in Chained(logs) : from <= a.at /\ a.at <= to}
  <1>1. PICK n : n = Idle
    OBVIOUS
  <1>2. PICK q : q = [n EXCEPT !.at = "previous", !.rows = rows]
    OBVIOUS
  <1>3. Begin(r, q)
    BY <1>1, <1>2 DEF VerifyRange
  <1>4. IsRequest(n) /\ n.out = <<>>
    BY <1>1, IdleOK
  <1>5. /\ RequestShape(q)
        /\ q.at = "previous" /\ q.kind = n.kind /\ q.out = n.out /\ q.counted = n.counted
        /\ q.cursor = n.cursor /\ q.rows = rows /\ q.kept = n.kept /\ q.tails = n.tails
    BY <1>2, <1>4 DEF IsRequest, RequestShape
  <1>6. IsRequest(q)
    BY <1>4, <1>5 DEF IsRequest
  <1>7. LogsInv /\ OriginInv /\ OrderInv
    BY DEF IInv
  <1>8. RangeOK(q)
    <2>1. rows \in SUBSET Chained(logs)
      OBVIOUS
    <2>2. /\ IsFiniteSet(rows) /\ UniqueIds(rows)
          /\ \A a \in rows : IsRow(a) /\ a.chained = TRUE
      BY <1>7, <2>1, ChainedRows, FS_Subset DEF UniqueIds
    <2>3. \A a \in rows : \E o \in origin : WrittenAs(a, o)
      BY <1>7 DEF LogsInv
    <2>4. orderly => \A o \in origin : NoneBetween(rows, o.row, o.pred)
      BY <1>7, <2>1 DEF OrderInv, NoneBetween
    <2> HIDE DEF rows
    <2>5. QED
      BY <1>5, <2>2, <2>3, <2>4 DEF RangeOK
  <1>9. InsertOK(q) /\ ExportOK(q)
    BY <1>4, <1>5 DEF InsertOK, ExportOK, NoneTwice
  <1>10. QED
    BY <1>3, <1>5, <1>6, <1>8, <1>9, BeginMove DEF HandlerOK

(* CreateExport: all rows there are lie beyond the first cursor. *)
LEMMA ExportStep ==
  ASSUME IInv, NEW r \in Requests, NEW kind \in {"logs", "events", "both"},
         CreateExport(r, kind)
  PROVE  IInv'
  <1> DEFINE at == IF kind = "events" THEN "events" ELSE "logs"
             kept == (IF kind # "events" THEN IdsOf(logs) ELSE {})
                     \union (IF kind # "logs" THEN IdsOf(events) ELSE {})
  <1>1. PICK n : n = Idle
    OBVIOUS
  <1>2. PICK q : q = [n EXCEPT !.at = at, !.kind = kind, !.kept = kept]
    OBVIOUS
  <1>3. Begin(r, q)
    BY <1>1, <1>2 DEF CreateExport
  <1>4. IsRequest(n) /\ n.out = <<>> /\ n.counted = 0 /\ n.cursor = NoCursor
    BY <1>1, IdleOK
  <1>5. /\ RequestShape(q)
        /\ q.at = at /\ q.kind = kind /\ q.out = n.out /\ q.counted = n.counted
        /\ q.cursor = n.cursor /\ q.rows = n.rows /\ q.kept = kept /\ q.tails = n.tails
    BY <1>2, <1>4 DEF IsRequest, RequestShape
  <1>6. LogsInv /\ EventsInv /\ now \in Nat
    BY DEF IInv
  <1>7. /\ IdsOf(logs) \subseteq LogIds /\ IdsOf(events) \subseteq EventIds
        /\ LogIds \intersect EventIds = {}
    BY <1>6, IdsInTables, AuditLogAssumption
  <1>8. /\ kind = "logs" => kept \intersect EventIds = {}
        /\ kind = "events" => kept \intersect LogIds = {}
        /\ kept \intersect LogIds \subseteq IdsOf(logs)
        /\ kept \intersect EventIds \subseteq IdsOf(events)
        /\ kept \subseteq LogIds \union EventIds
    BY <1>7
  <1>9. at \in {"logs", "events"} /\ (at = "logs" => kind # "events")
        /\ (at = "events" => kind = "events")
    OBVIOUS
  <1> HIDE DEF at, kept
  <1>10. IsRequest(q)
    BY <1>4, <1>5, <1>8, <1>9 DEF IsRequest
  <1>11. Exported(q) = {} /\ NoneTwice(q.out) /\ q.cursor.start = TRUE
    BY <1>4, <1>5 DEF Exported, Entries, NoneTwice, NoCursor
  <1>12. ExportOK(q)
    <2>1. IdsOf(Timed(logs)) = IdsOf(logs)
      BY <1>6, TimedRows
    <2>2. CollectOK(q, Timed(logs), LogIds) /\ CollectOK(q, events, EventIds)
      BY <1>5, <1>8, <1>11, <2>1 DEF CollectOK
    <2>3. NoneLost(q, Timed(logs), "logs") /\ NoneLost(q, events, "events")
      BY <1>11 DEF NoneLost, Beyond
    <2>4. q.at = "events" => NoneMissing(q, Timed(logs), "logs")
      <3>1. \A a \in Timed(logs) : a.id \in LogIds
        BY <1>6, TimedRows
      <3>2. QED
        BY <1>5, <1>8, <1>9, <3>1 DEF NoneMissing
    <2>5. QED
      BY <1>5, <1>8, <1>9, <1>11, <2>1, <2>2, <2>3, <2>4 DEF ExportOK
  <1>13. InsertOK(q) /\ RangeOK(q)
    BY <1>5, <1>9 DEF InsertOK, RangeOK
  <1>14. QED
    BY <1>3, <1>5, <1>9, <1>10, <1>12, <1>13, BeginMove DEF HandlerOK

-----------------------------------------------------------------------------
(* Collecting. *)

(* Two sequences without repetitions and common entries, put together. *)
LEMMA Appended ==
  ASSUME NEW T, NEW s \in Seq(T), NEW t \in Seq(T), NoneTwice(s), NoneTwice(t),
         Entries(s) \intersect Entries(t) = {},
         NEW u, u = s \o t
  PROVE  /\ u \in Seq(T) /\ Len(u) = Len(s) + Len(t)
         /\ NoneTwice(u)
         /\ \A x : x \in Entries(u) <=> x \in Entries(s) \/ x \in Entries(t)
  <1>1. PICK m \in Nat : m = Len(s)
    OBVIOUS
  <1>2. PICK n \in Nat : n = Len(t)
    OBVIOUS
  <1>3. /\ u \in Seq(T) /\ Len(u) = m + n
        /\ \A k \in 1..(m + n) : u[k] = IF k <= m THEN s[k] ELSE t[k - m]
    BY <1>1, <1>2
  <1>4. \A i \in 1..m : i \in 1..(m + n) /\ u[i] = s[i]
    BY <1>3
  <1>5. \A j \in 1..n : (m + j) \in 1..(m + n) /\ u[m + j] = t[j]
    BY <1>3
  <1>6. \A k \in 1..(m + n) : \/ k \in 1..m /\ u[k] = s[k]
                              \/ k - m \in 1..n /\ u[k] = t[k - m]
    BY <1>3
  <1>7. /\ Entries(s) = {s[i] : i \in 1..m} /\ Entries(t) = {t[i] : i \in 1..n}
        /\ Entries(u) = {u[i] : i \in 1..(m + n)}
    BY <1>1, <1>2, <1>3 DEF Entries
  <1>8. Entries(u) = Entries(s) \union Entries(t)
    <2>1. Entries(s) \subseteq Entries(u)
      BY <1>4, <1>7
    <2>2. Entries(t) \subseteq Entries(u)
      BY <1>5, <1>7
    <2>3. Entries(u) \subseteq Entries(s) \union Entries(t)
      BY <1>6, <1>7
    <2>4. QED
      BY <2>1, <2>2, <2>3
  <1>9. NoneTwice(u)
    <2>1. ASSUME NEW i \in 1..(m + n), NEW j \in 1..(m + n), u[i] = u[j] PROVE i = j
      <3>1. CASE i \in 1..m /\ u[i] = s[i] /\ j \in 1..m /\ u[j] = s[j]
        BY <1>1, <2>1, <3>1 DEF NoneTwice
      <3>2. CASE i - m \in 1..n /\ u[i] = t[i - m] /\ j - m \in 1..n /\ u[j] = t[j - m]
        <4>1. i - m = j - m
          BY <1>2, <2>1, <3>2 DEF NoneTwice
        <4>2. QED
          BY <4>1
      <3>3. CASE i \in 1..m /\ u[i] = s[i] /\ j - m \in 1..n /\ u[j] = t[j - m]
        BY <1>7, <2>1, <3>3
      <3>4. CASE i - m \in 1..n /\ u[i] = t[i - m] /\ j \in 1..m /\ u[j] = s[j]
        BY <1>7, <2>1, <3>4
      <3>5. QED
        BY <1>6, <3>1, <3>2, <3>3, <3>4
    <2>2. QED
      BY <1>3, <2>1 DEF NoneTwice
  <1>10. QED
    BY <1>1, <1>2, <1>3, <1>8, <1>9

(* The same for the ids a handler has exported. *)
LEMMA IdsAppended ==
  ASSUME NEW q, NEW p, NEW ids, p.out = q.out \o ids,
         q.out \in Seq(LogIds \union EventIds), ids \in Seq(LogIds \union EventIds),
         NoneTwice(q.out), NoneTwice(ids), Entries(q.out) \intersect Entries(ids) = {}
  PROVE  /\ p.out \in Seq(LogIds \union EventIds)
         /\ Len(p.out) = Len(q.out) + Len(ids)
         /\ NoneTwice(p.out)
         /\ \A x : x \in Entries(p.out) <=> x \in Entries(q.out) \/ x \in Entries(ids)
  <1>1. PICK s : s = q.out
    OBVIOUS
  <1>2. PICK u : u = p.out
    OBVIOUS
  <1>3. PICK T : T = LogIds \union EventIds
    OBVIOUS
  <1>4. /\ s \in Seq(T) /\ ids \in Seq(T) /\ NoneTwice(s)
        /\ Entries(s) \intersect Entries(ids) = {}
        /\ u = s \o ids
    BY <1>1, <1>2, <1>3
  <1>5. /\ u \in Seq(T) /\ Len(u) = Len(s) + Len(ids)
        /\ NoneTwice(u)
        /\ \A x : x \in Entries(u) <=> x \in Entries(s) \/ x \in Entries(ids)
    BY <1>4, Appended
  <1>6. QED
    BY <1>1, <1>2, <1>3, <1>5

(* Losing the microseconds moves the cursor back within its millisecond. *)
LEMMA CursorOrder ==
  ASSUME NEW a \in TimedRow, NEW b \in TimedRow
  PROVE  /\ Older(a, ToCursor(b)) => Older(a, b)
         /\ Older(a, b) => Older(a, ToCursor(b)) \/ (a.at = b.at /\ b.us = 1)
         /\ ToCursor(b).at = b.at /\ ToCursor(b).start = FALSE
         /\ ToCursor(b) \in [at : Nat, us : {0}, id : Nat, start : BOOLEAN]
  <1>1. /\ a.at \in Nat /\ a.us \in {0, 1} /\ a.id \in Nat
        /\ b.at \in Nat /\ b.us \in {0, 1} /\ b.id \in Nat
    BY DEF TimedRow
  <1>2. /\ ToCursor(b).at = b.at /\ ToCursor(b).us = 0 /\ ToCursor(b).id = b.id
        /\ ToCursor(b).start = FALSE
    BY DEF ToCursor
  <1>3. ToCursor(b) \in [at : Nat, us : {0}, id : Nat, start : BOOLEAN]
    BY <1>1 DEF ToCursor
  <1>4. QED
    BY <1>1, <1>2, <1>3 DEF Older

(* What a page adds to an export, p being the handler after it. *)
PageAdded(q, p, page, rows, own) ==
    /\ Len(page.items) \in Nat /\ page.more \in BOOLEAN
    /\ p.out \in Seq(LogIds \union EventIds)
    /\ Len(p.out) = Len(q.out) + Len(page.items)
    /\ NoneTwice(p.out)
    /\ Exported(q) \subseteq Exported(p) /\ Exported(p) \subseteq Exported(q) \union own
    /\ ~page.more => \A a \in Beyond(rows, q.cursor) : a.id \in Exported(p)
    /\ page.more /\ p.cursor = page.cursor =>
          /\ p.cursor \in [at : Nat, us : {0}, id : Nat, start : BOOLEAN]
          /\ CollectOK(p, rows, own)
          /\ \A a \in Beyond(rows, q.cursor) :
                \/ a.id \in Exported(p)
                \/ a \in Beyond(rows, p.cursor)
                \/ a.at = p.cursor.at /\ page.cut = TRUE

(* A page repeats nothing, leaves out nothing before its end and keeps       *)
(* CollectOK.                                                                *)
LEMMA PageCollected ==
  ASSUME now \in Nat, NEW own \in SUBSET (LogIds \union EventIds),
         NEW rows, IsFiniteSet(rows), UniqueIds(rows),
         \A a \in rows : a \in TimedRow /\ a.id \in own /\ a.at <= now,
         NEW q, IsRequest(q), NoneTwice(q.out), CollectOK(q, rows, own),
         NEW page, page = Page(rows, q.cursor),
         NEW p, p.out = q.out \o [i \in DOMAIN page.items |-> page.items[i].id],
         p.kept = q.kept
  PROVE  PageAdded(q, p, page, rows, own)
  <1>1. PICK left : left = Beyond(rows, q.cursor)
    OBVIOUS
  <1>2. PICK items : items = page.items
    OBVIOUS
  <1>3. PICK n : n = Len(items)
    OBVIOUS
  <1>4. rows \subseteq TimedRow
    OBVIOUS
  <1>5. /\ items \in Seq(left) /\ n \in Nat /\ page.more \in BOOLEAN
        /\ NoneTwice(items)
        /\ ~page.more => \A a \in left : \E i \in 1..n : items[i] = a
        /\ page.more => /\ page.cursor = ToCursor(items[n])
                        /\ items[n].us > 0 => page.cut = TRUE
                        /\ items[n] \in left
                        /\ \A i \in 1..n : ~Older(items[i], items[n])
                        /\ \A a \in left : (\E i \in 1..n : items[i] = a) \/ Older(a, items[n])
    <2>1. PICK c : c = q.cursor
      OBVIOUS
    <2>2. LET l == Beyond(rows, c)
              pg == Page(rows, c)
              k == Len(pg.items)
          IN  /\ pg.items \in Seq(l) /\ k \in Nat
              /\ pg.more \in BOOLEAN
              /\ NoneTwice(pg.items)
              /\ ~pg.more => \A a \in l : \E i \in 1..k : pg.items[i] = a
              /\ pg.more => /\ k = PageSize
                            /\ pg.cursor = ToCursor(pg.items[k])
                            /\ pg.items[k].us > 0 => pg.cut = TRUE
                            /\ pg.items[k] \in l
                            /\ \A i \in 1..k : ~Older(pg.items[i], pg.items[k])
                            /\ \A a \in l : \/ \E i \in 1..k : pg.items[i] = a
                                            \/ Older(a, pg.items[k])
      BY <1>4, PageIsNewest, Zenon
    <2>3. page = Page(rows, c) /\ left = Beyond(rows, c)
      BY <1>1, <2>1
    <2>4. QED
      BY <1>2, <1>3, <2>2, <2>3, Zenon
  <1>6. left \subseteq rows /\ \A a \in left : q.cursor.start \/ Older(a, q.cursor)
    BY <1>1 DEF Beyond
  <1>7. \A i \in 1..n : items[i] \in left
    BY <1>3, <1>5
  <1>8. PICK ids : ids = [i \in DOMAIN items |-> items[i].id]
    OBVIOUS
  <1>9. /\ ids \in Seq(LogIds \union EventIds) /\ Len(ids) = n
        /\ \A i \in 1..n : ids[i] = items[i].id
    <2>1. DOMAIN items = 1..n
      BY <1>3, <1>5
    <2>2. ids \in [1..n -> LogIds \union EventIds]
      BY <1>6, <1>7, <1>8, <2>1
    <2>3. ids \in Seq(LogIds \union EventIds) /\ Len(ids) = n
      BY <1>5, <2>2
    <2>4. QED
      BY <1>8, <2>1, <2>3
  <1>10. NoneTwice(ids)
    <2>1. \A i, j \in 1..n : ids[i] = ids[j] => items[i] = items[j]
      BY <1>6, <1>7, <1>9 DEF UniqueIds
    <2>2. QED
      BY <1>3, <1>5, <1>9, <2>1 DEF NoneTwice
  <1>11. q.out \in Seq(LogIds \union EventIds) /\ Len(q.out) \in Nat
    <2>1. q.out \in Seq(LogIds \union EventIds)
      BY DEF IsRequest
    <2>2. QED
      BY <2>1
  (* nothing beyond the cursor was exported before *)
  <1>12. \A a \in left : a.id \notin Exported(q)
    BY <1>6 DEF CollectOK
  <1>13. Entries(ids) = {items[i].id : i \in 1..n}
    BY <1>9 DEF Entries
  <1>14. Entries(q.out) \intersect Entries(ids) = {}
    BY <1>7, <1>12, <1>13 DEF Exported
  <1>15. /\ p.out \in Seq(LogIds \union EventIds)
         /\ Len(p.out) = Len(q.out) + n
         /\ NoneTwice(p.out)
         /\ \A x : x \in Entries(p.out) <=> x \in Entries(q.out) \/ x \in Entries(ids)
    <2>1. p.out = q.out \o ids
      BY <1>2, <1>8
    <2>2. QED
      BY <1>9, <1>10, <1>11, <1>14, <2>1, IdsAppended
  <1>16. /\ Exported(q) \subseteq Exported(p)
         /\ \A i \in 1..n : items[i].id \in Exported(p)
         /\ \A x \in Exported(p) : x \in Exported(q) \/ \E i \in 1..n : x = items[i].id
    BY <1>13, <1>15 DEF Exported
  <1>17. Exported(p) \subseteq Exported(q) \union own
    BY <1>6, <1>7, <1>16
  <1>18. ~page.more => \A a \in left : a.id \in Exported(p)
    BY <1>5, <1>16
  <1>19. ASSUME page.more, p.cursor = page.cursor
         PROVE  /\ p.cursor \in [at : Nat, us : {0}, id : Nat, start : BOOLEAN]
                /\ CollectOK(p, rows, own)
                /\ \A a \in left : \/ a.id \in Exported(p)
                                   \/ a \in Beyond(rows, p.cursor)
                                   \/ a.at = p.cursor.at /\ page.cut = TRUE
    <2>1. PICK last : last = items[n]
      OBVIOUS
    <2>2. last \in rows /\ last \in TimedRow /\ last \in left /\ last.at <= now
      BY <1>5, <1>6, <1>19, <2>1
    <2>3. p.cursor = ToCursor(last)
      BY <1>5, <1>19, <2>1
    <2>4. /\ p.cursor \in [at : Nat, us : {0}, id : Nat, start : BOOLEAN]
          /\ p.cursor.at = last.at /\ p.cursor.start = FALSE
          /\ \A a \in rows :
                /\ Older(a, p.cursor) => Older(a, last)
                /\ Older(a, last) => Older(a, p.cursor) \/ (a.at = last.at /\ last.us = 1)
      <3>1. /\ ToCursor(last) \in [at : Nat, us : {0}, id : Nat, start : BOOLEAN]
            /\ ToCursor(last).at = last.at /\ ToCursor(last).start = FALSE
        BY <2>2, CursorOrder
      <3>2. ASSUME NEW a \in TimedRow
            PROVE  /\ Older(a, ToCursor(last)) => Older(a, last)
                   /\ Older(a, last) =>
                         Older(a, ToCursor(last)) \/ (a.at = last.at /\ last.us = 1)
        BY <2>2, CursorOrder
      <3>3. QED
        BY <1>4, <2>3, <3>1, <3>2
    <2>5. \A a \in rows : a.id \in Exported(p) => ~Older(a, p.cursor)
      <3>1. ASSUME NEW a \in rows, a.id \in Exported(p), Older(a, p.cursor) PROVE FALSE
        <4>1. Older(a, last)
          BY <2>4, <3>1
        <4>2. CASE \E i \in 1..n : a.id = items[i].id
          <5>1. PICK i \in 1..n : a = items[i]
            BY <1>6, <1>7, <4>2 DEF UniqueIds
          <5>2. QED
            BY <1>5, <1>19, <2>1, <4>1, <5>1
        <4>3. CASE a.id \in Exported(q)
          <5>1. q.cursor.start = FALSE /\ ~Older(a, q.cursor)
            BY <4>3 DEF CollectOK, IsRequest
          <5>2. Older(last, q.cursor)
            BY <1>6, <2>2, <5>1
          <5>3. /\ a.at \in Nat /\ a.us \in {0, 1} /\ a.id \in Nat
                /\ last.at \in Nat /\ last.us \in {0, 1} /\ last.id \in Nat
                /\ q.cursor.at \in Nat /\ q.cursor.us = 0 /\ q.cursor.id \in Nat
            BY <1>4, <2>2 DEF TimedRow, IsRequest
          <5>4. QED
            BY <4>1, <5>1, <5>2, <5>3 DEF Older
        <4>4. QED
          BY <1>16, <3>1, <4>2, <4>3
      <3>2. QED
        BY <3>1
    <2>6. \A x \in (Exported(p) \intersect own) \ IdsOf(rows) : p.cursor.at < now
      <3>1. ASSUME NEW x \in (Exported(p) \intersect own) \ IdsOf(rows) PROVE p.cursor.at < now
        <4>1. x \in Exported(q)
          BY <1>6, <1>7, <1>16, <3>1 DEF IdsOf
        <4>2. q.cursor.at < now /\ q.cursor.start = FALSE
          BY <3>1, <4>1 DEF CollectOK, IsRequest
        <4>3. Older(last, q.cursor)
          BY <1>6, <2>2, <4>2
        <4>4. last.at \in Nat /\ q.cursor.at \in Nat
          BY <2>2 DEF TimedRow, IsRequest
        <4>5. QED
          BY <2>4, <4>2, <4>3, <4>4 DEF Older
      <3>2. QED
        BY <3>1
    <2>7. CollectOK(p, rows, own)
      BY <2>2, <2>4, <2>5, <2>6 DEF CollectOK
    <2>8. ASSUME NEW a \in left
          PROVE  \/ a.id \in Exported(p)
                 \/ a \in Beyond(rows, p.cursor)
                 \/ a.at = p.cursor.at /\ page.cut = TRUE
      <3>1. a \in rows /\ ((\E i \in 1..n : items[i] = a) \/ Older(a, last))
        BY <1>5, <1>6, <1>19, <2>1
      <3>2. last.us = 1 => page.cut = TRUE
        BY <1>5, <1>19, <2>1
      <3>3. QED
        BY <1>16, <2>2, <2>4, <3>1, <3>2 DEF Beyond
    <2>9. QED
      BY <2>4, <2>7, <2>8
  <1>20. QED
    BY <1>1, <1>2, <1>3, <1>5, <1>15, <1>16, <1>17, <1>18, <1>19 DEF PageAdded

(* One round of collectAuditLogs or collectSecurityEvents: q becomes p, and  *)
(* on says whether there is another round.                                   *)
Collected(q, p, on, next, rows, own) ==
    /\ IsRequest(p)
    /\ p.at = (IF on THEN q.at ELSE next)
    /\ p.kind = q.kind /\ p.kept = q.kept
    /\ NoneTwice(p.out) /\ Len(q.out) <= Len(p.out)
    /\ Exported(q) \subseteq Exported(p) /\ Exported(p) \subseteq Exported(q) \union own
    /\ ~on => p.cursor = NoCursor
    /\ q.tails \subseteq p.tails
    /\ ~on /\ Len(p.out) < MaxExport =>
          \A a \in Beyond(rows, q.cursor) : a.id \in Exported(p)
    /\ on => /\ CollectOK(p, rows, own)
             /\ \A a \in Beyond(rows, q.cursor) :
                   \/ a.id \in Exported(p)
                   \/ a \in Beyond(rows, p.cursor)
                   \/ <<q.at, a.at>> \in p.tails

Pageable(rows, own) ==
    /\ IsFiniteSet(rows) /\ UniqueIds(rows)
    /\ \A a \in rows : a \in TimedRow /\ a.id \in own /\ a.at <= now

(* Collect, for either table. *)
LEMMA CollectMove ==
  ASSUME IInv, NEW r \in Requests, NEW q, q = req[r], q.at \in {"logs", "events"},
         NEW own \in SUBSET (LogIds \union EventIds),
         NEW rows, Pageable(rows, own), CollectOK(q, rows, own),
         NEW next \in {"events", "event"}, Collect(r, rows, next)
  PROVE  /\ UNCHANGED <<logs, events, lock, now, origin, orderly>>
         /\ \E p : /\ req' = [req EXCEPT ![r] = p]
                   /\ \E on \in BOOLEAN : Collected(q, p, on, next, rows, own)
  <1>1. PICK page : page = Page(rows, q.cursor)
    OBVIOUS
  <1>2. PICK ids : ids = [i \in DOMAIN page.items |-> page.items[i].id]
    OBVIOUS
  <1>3. PICK counted : counted = q.counted + Len(page.items)
    OBVIOUS
  <1>4. PICK on \in BOOLEAN : on = (page.more /\ counted < MaxExport)
    OBVIOUS
  <1>5. PICK p : p = [q EXCEPT !.out = @ \o ids,
                              !.at = IF on THEN @ ELSE next,
                              !.counted = IF on THEN counted ELSE 0,
                              !.cursor = IF on THEN page.cursor ELSE NoCursor,
                              !.tails = IF on /\ page.cut
                                          THEN @ \union {<<q.at, page.cursor.at>>} ELSE @]
    OBVIOUS
  <1>6. req' = [req EXCEPT ![r] = p] /\ UNCHANGED <<logs, events, lock, now, origin, orderly>>
    BY <1>1, <1>2, <1>3, <1>4, <1>5 DEF Collect, Goto
  <1>7. IsRequest(q) /\ NoneTwice(q.out) /\ now \in Nat
    BY DEF IInv, RequestsInv, HandlerOK, ExportOK
  <1>8. RequestShape(q)
    BY <1>7 DEF IsRequest
  <1>9. /\ RequestShape(p)
        /\ p.out = q.out \o ids
        /\ p.at = (IF on THEN q.at ELSE next)
        /\ p.counted = (IF on THEN counted ELSE 0)
        /\ p.cursor = (IF on THEN page.cursor ELSE NoCursor)
        /\ p.tails = (IF on /\ page.cut THEN q.tails \union {<<q.at, page.cursor.at>>}
                                        ELSE q.tails)
        /\ p.kind = q.kind /\ p.kept = q.kept
    BY <1>5, <1>8 DEF RequestShape
  <1>10. PageAdded(q, p, page, rows, own)
    BY <1>1, <1>2, <1>7, <1>9, PageCollected DEF Pageable
  <1>11. q.counted \in Nat /\ Len(q.out) \in Nat /\ q.counted <= Len(q.out)
    <2>1. q.out \in Seq(LogIds \union EventIds) /\ q.counted \in Nat /\ q.counted <= Len(q.out)
      BY <1>7 DEF IsRequest
    <2>2. QED
      BY <2>1
  <1>12. counted \in Nat /\ counted <= Len(p.out) /\ Len(p.out) \in Nat /\ Len(q.out) <= Len(p.out)
    <2>1. Len(page.items) \in Nat /\ Len(p.out) = Len(q.out) + Len(page.items)
      BY <1>10 DEF PageAdded
    <2>2. PICK m \in Nat : m = Len(page.items)
      BY <2>1
    <2>3. PICK n \in Nat : n = Len(q.out)
      BY <1>11
    <2>4. PICK k \in Nat : k = q.counted
      BY <1>11
    <2>5. PICK l : l = Len(p.out)
      OBVIOUS
    <2>6. counted = k + m /\ l = n + m /\ k <= n
      BY <1>3, <1>11, <2>1, <2>2, <2>3, <2>4, <2>5
    <2>7. counted \in Nat /\ counted <= l /\ l \in Nat /\ n <= l
      BY <2>6
    <2>8. QED
      BY <2>3, <2>5, <2>7
  <1>13. p.counted \in Nat /\ p.counted <= Len(p.out)
    BY <1>9, <1>12
  <1>14. on => page.more /\ p.cursor = page.cursor
    BY <1>4, <1>9
  <1>15. p.cursor \in [at : Nat, us : {0}, id : Nat, start : BOOLEAN]
    <2>1. CASE on
      BY <1>10, <1>14, <2>1 DEF PageAdded
    <2>2. CASE ~on
      BY <1>9, <2>2 DEF NoCursor
    <2>3. QED
      BY <2>1, <2>2
  <1>16. p.at \in {"logs", "events", "event"}
    BY <1>9
  <1>17. IsRequest(p)
    <2>1. q.kind \in {"logs", "events", "both"} /\ q.kept \subseteq LogIds \union EventIds
      BY <1>7 DEF IsRequest
    <2>2. QED
      BY <1>9, <1>10, <1>13, <1>15, <1>16, <2>1 DEF IsRequest, PageAdded
  <1>18. ~on /\ Len(p.out) < MaxExport => ~page.more
    <2>1. page.more \in BOOLEAN
      BY <1>10 DEF PageAdded
    <2>2. MaxExport \in Nat
      BY AuditLogAssumption
    <2>3. QED
      BY <1>4, <1>12, <2>1, <2>2
  <1>19. /\ q.tails \subseteq p.tails
         /\ (on /\ page.cut = TRUE) => <<q.at, p.cursor.at>> \in p.tails
    BY <1>9, <1>14
  <1>20. ~on => p.cursor = NoCursor
    BY <1>9
  <1>21. Collected(q, p, on, next, rows, own)
    <2>1. ASSUME on
          PROVE  /\ CollectOK(p, rows, own)
                 /\ \A a \in Beyond(rows, q.cursor) : \/ a.id \in Exported(p)
                                                      \/ a \in Beyond(rows, p.cursor)
                                                      \/ <<q.at, a.at>> \in p.tails
      <3>1. \A a \in Beyond(rows, q.cursor) : \/ a.id \in Exported(p)
                                              \/ a \in Beyond(rows, p.cursor)
                                              \/ a.at = p.cursor.at /\ page.cut = TRUE
        BY <1>10, <1>14, <2>1 DEF PageAdded
      <3>2. QED
        BY <1>10, <1>14, <1>19, <2>1, <3>1 DEF PageAdded
    <2>2. QED
      BY <1>9, <1>10, <1>12, <1>14, <1>17, <1>18, <1>19, <1>20, <2>1 DEF Collected, PageAdded
  <1>22. QED
    BY <1>6, <1>21

(* CollectAuditLogs. *)
LEMMA CollectLogsStep ==
  ASSUME IInv, NEW r \in Requests, CollectAuditLogs(r)
  PROVE  IInv'
  <1>1. PICK q : q = req[r]
    OBVIOUS
  <1>2. PICK rows : rows = Timed(logs)
    OBVIOUS
  <1>3. PICK next : next = IF q.kind = "both" THEN "events" ELSE "event"
    OBVIOUS
  <1>4. /\ q.at = "logs" /\ ExportOK(q) /\ IsRequest(q)
        /\ LogsInv /\ EventsInv /\ now \in Nat
    BY <1>1 DEF CollectAuditLogs, IInv, HandlerOK, RequestsInv
  <1>5. /\ IsFiniteSet(rows) /\ UniqueIds(rows)
        /\ IdsOf(rows) = IdsOf(logs)
        /\ \A a \in rows : a \in TimedRow /\ a.id \in LogIds /\ a.at <= now
    BY <1>2, <1>4, TimedRows
  <1>6. /\ q.kind # "events"
        /\ q.kind = "logs" => q.kept \intersect EventIds = {}
        /\ q.kept \intersect EventIds \subseteq IdsOf(events)
        /\ q.kept \intersect LogIds \subseteq IdsOf(rows)
        /\ Exported(q) \subseteq LogIds
        /\ CollectOK(q, rows, LogIds)
        /\ NoneLost(q, rows, "logs")
    BY <1>2, <1>4 DEF ExportOK
  <1>7. Collect(r, rows, next) /\ next \in {"events", "event"}
    BY <1>1, <1>2, <1>3 DEF CollectAuditLogs
  <1>8. /\ UNCHANGED <<logs, events, lock, now, origin, orderly>>
        /\ \E p : /\ req' = [req EXCEPT ![r] = p]
                  /\ \E on \in BOOLEAN : Collected(q, p, on, next, rows, LogIds)
    <2>1. q.at \in {"logs", "events"} /\ CollectOK(q, rows, LogIds)
      BY <1>4, <1>6
    <2>2. Pageable(rows, LogIds) /\ LogIds \in SUBSET (LogIds \union EventIds)
      BY <1>5 DEF Pageable
    <2>3. QED
      BY <1>1, <1>7, <2>1, <2>2, CollectMove
  <1>9. PICK p : /\ req' = [req EXCEPT ![r] = p]
                 /\ \E on \in BOOLEAN : Collected(q, p, on, next, rows, LogIds)
    BY <1>8
  <1>10. PICK on \in BOOLEAN : Collected(q, p, on, next, rows, LogIds)
    BY <1>9
  <1>11. /\ IsRequest(p) /\ p.kind = q.kind /\ p.kept = q.kept /\ NoneTwice(p.out)
         /\ Exported(q) \subseteq Exported(p) /\ Exported(p) \subseteq LogIds
         /\ q.tails \subseteq p.tails
    BY <1>6, <1>10 DEF Collected
  <1>12. ExportOK(p)
    <2>1. CASE on
      <3>1. p.at = "logs" /\ CollectOK(p, rows, LogIds)
        BY <1>4, <1>10, <2>1 DEF Collected
      <3>2. NoneLost(p, rows, "logs")
        <4>1. ASSUME NEW a \in rows, a.id \in p.kept
              PROVE  \/ a.id \in Exported(p)
                     \/ a \in Beyond(rows, p.cursor)
                     \/ <<"logs", a.at>> \in p.tails
          <5>1. \/ a.id \in Exported(q) \/ a \in Beyond(rows, q.cursor)
                \/ <<"logs", a.at>> \in q.tails
            BY <1>6, <1>11, <4>1 DEF NoneLost
          <5>2. QED
            BY <1>4, <1>10, <1>11, <2>1, <5>1 DEF Collected
        <4>2. QED
          BY <4>1 DEF NoneLost
      <3>3. QED
        BY <1>2, <1>6, <1>11, <3>1, <3>2 DEF ExportOK
    <2>2. CASE ~on
      <3>1. p.at = next /\ p.cursor.start = TRUE
        BY <1>10, <2>2 DEF Collected, NoCursor
      <3>2. Len(p.out) < MaxExport => NoneMissing(p, rows, "logs")
        <4>1. ASSUME Len(p.out) < MaxExport, NEW a \in rows, a.id \in p.kept
              PROVE  a.id \in Exported(p) \/ <<"logs", a.at>> \in p.tails
          <5>1. \/ a.id \in Exported(q) \/ a \in Beyond(rows, q.cursor)
                \/ <<"logs", a.at>> \in q.tails
            BY <1>6, <1>11, <4>1 DEF NoneLost
          <5>2. QED
            BY <1>10, <1>11, <2>2, <4>1, <5>1 DEF Collected
        <4>2. QED
          BY <4>1 DEF NoneMissing
      <3>3. Exported(p) \intersect EventIds = {}
        BY <1>11, AuditLogAssumption
      <3>4. \A e \in events : e.id \in EventIds
        BY <1>4, EventRows
      <3>5. CollectOK(p, events, EventIds) /\ NoneLost(p, events, "events")
        BY <1>6, <1>11, <3>1, <3>3, <3>4 DEF CollectOK, NoneLost, Beyond
      <3>6. next = "event" => q.kind = "logs"
        BY <1>3, <1>4, <1>6 DEF IsRequest
      <3>7. next = "event" => NoneMissing(p, events, "events")
        BY <1>6, <1>11, <3>4, <3>6 DEF NoneMissing
      <3>8. QED
        BY <1>2, <1>6, <1>7, <1>11, <3>1, <3>2, <3>5, <3>7 DEF ExportOK
    <2>3. QED
      BY <2>1, <2>2
  <1>13. p.at \in {"logs", "events", "event"}
    BY <1>4, <1>7, <1>10 DEF Collected
  <1>14. InsertOK(p) /\ RangeOK(p)
    BY <1>13 DEF InsertOK, RangeOK
  <1>15. \A s \in Requests \ {r} : req[s].at = "insert" => lock' = s
    BY <1>8 DEF IInv, LockHeld
  <1>16. QED
    BY <1>8, <1>9, <1>11, <1>12, <1>13, <1>14, <1>15, QuietMove DEF HandlerOK

(* CollectSecurityEvents: an event that a truncated cursor skips is in a     *)
(* tail.                                                                     *)
LEMMA CollectEventsStep ==
  ASSUME IInv, NEW r \in Requests, CollectSecurityEvents(r)
  PROVE  IInv'
  <1>1. PICK q : q = req[r]
    OBVIOUS
  <1>2. /\ q.at = "events" /\ ExportOK(q) /\ IsRequest(q) /\ EventsInv /\ now \in Nat
        /\ Collect(r, events, "event")
    BY <1>1 DEF CollectSecurityEvents, IInv, HandlerOK, RequestsInv
  <1>3. PICK rows : rows = events
    OBVIOUS
  <1>4. /\ IsFiniteSet(rows) /\ UniqueIds(rows)
        /\ \A a \in rows : a \in TimedRow /\ a.id \in EventIds /\ a.at <= now
    BY <1>2, <1>3, EventRows
  <1>5. /\ q.kind = "logs" => q.kept \intersect EventIds = {}
        /\ q.kind = "events" => q.kept \intersect LogIds = {}
        /\ q.kept \intersect EventIds \subseteq IdsOf(rows)
        /\ q.kept \intersect LogIds \subseteq IdsOf(Timed(logs))
        /\ CollectOK(q, rows, EventIds)
        /\ NoneLost(q, rows, "events")
        /\ Len(q.out) < MaxExport => NoneMissing(q, Timed(logs), "logs")
    BY <1>2, <1>3 DEF ExportOK
  <1>6. /\ UNCHANGED <<logs, events, lock, now, origin, orderly>>
        /\ \E p : /\ req' = [req EXCEPT ![r] = p]
                  /\ \E on \in BOOLEAN : Collected(q, p, on, "event", rows, EventIds)
    <2>1. PICK next : next = "event"
      OBVIOUS
    <2>2. Collect(r, rows, next) /\ next \in {"events", "event"}
      BY <1>2, <1>3, <2>1
    <2>3. q.at \in {"logs", "events"} /\ CollectOK(q, rows, EventIds)
      BY <1>2, <1>5
    <2>4. Pageable(rows, EventIds) /\ EventIds \in SUBSET (LogIds \union EventIds)
      BY <1>4 DEF Pageable
    <2>5. /\ UNCHANGED <<logs, events, lock, now, origin, orderly>>
          /\ \E p : /\ req' = [req EXCEPT ![r] = p]
                    /\ \E on \in BOOLEAN : Collected(q, p, on, next, rows, EventIds)
      BY <1>1, <2>2, <2>3, <2>4, CollectMove
    <2>6. QED
      BY <2>1, <2>5
  <1>7. PICK p : /\ req' = [req EXCEPT ![r] = p]
                 /\ \E on \in BOOLEAN : Collected(q, p, on, "event", rows, EventIds)
    BY <1>6
  <1>8. PICK on \in BOOLEAN : Collected(q, p, on, "event", rows, EventIds)
    BY <1>7
  <1>9. /\ IsRequest(p) /\ p.kind = q.kind /\ p.kept = q.kept /\ NoneTwice(p.out)
        /\ Exported(q) \subseteq Exported(p) /\ Len(q.out) <= Len(p.out)
        /\ q.tails \subseteq p.tails
    BY <1>8 DEF Collected
  <1>10. p.at \in {"events", "event"} /\ (on => p.at = "events") /\ (~on => p.at = "event")
    BY <1>2, <1>8 DEF Collected
  <1>11. Len(p.out) < MaxExport => NoneMissing(p, Timed(logs), "logs")
    <2>1. Len(q.out) \in Nat /\ Len(p.out) \in Nat /\ MaxExport \in Nat
      <3>1. q.out \in Seq(LogIds \union EventIds) /\ p.out \in Seq(LogIds \union EventIds)
        BY <1>2, <1>9 DEF IsRequest
      <3>2. QED
        BY <3>1, AuditLogAssumption
    <2>2. Len(p.out) < MaxExport => Len(q.out) < MaxExport
      BY <1>9, <2>1
    <2>3. QED
      BY <1>5, <1>9, <2>2 DEF NoneMissing
  <1>12. ASSUME on
         PROVE  CollectOK(p, rows, EventIds) /\ NoneLost(p, rows, "events")
    <2>1. /\ CollectOK(p, rows, EventIds)
          /\ \A a \in Beyond(rows, q.cursor) : \/ a.id \in Exported(p)
                                               \/ a \in Beyond(rows, p.cursor)
                                               \/ <<"events", a.at>> \in p.tails
      BY <1>2, <1>8, <1>12 DEF Collected
    <2>2. QED
      BY <1>5, <1>9, <2>1 DEF NoneLost
  <1>13. ASSUME ~on, Len(p.out) < MaxExport
         PROVE  NoneMissing(p, rows, "events")
    <2>1. \A a \in Beyond(rows, q.cursor) : a.id \in Exported(p)
      BY <1>8, <1>13 DEF Collected
    <2>2. QED
      BY <1>5, <1>9, <2>1 DEF NoneLost, NoneMissing
  <1>14. ExportOK(p)
    BY <1>2, <1>3, <1>5, <1>9, <1>10, <1>11, <1>12, <1>13 DEF ExportOK
  <1>15. InsertOK(p) /\ RangeOK(p)
    BY <1>10 DEF InsertOK, RangeOK
  <1>16. \A s \in Requests \ {r} : req[s].at = "insert" => lock' = s
    BY <1>6 DEF IInv, LockHeld
  <1>17. QED
    BY <1>6, <1>7, <1>9, <1>10, <1>14, <1>15, <1>16, QuietMove DEF HandlerOK

-----------------------------------------------------------------------------
(* New rows. *)

(* A new row never comes in the way of an export. *)
LEMMA CollectGrows ==
  ASSUME now \in Nat, now' = now, NEW own, NEW rows, NEW more, rows \subseteq more,
         \A a \in more \ rows : a.at = now /\ a.id \in own /\ a.id \notin IdsOf(rows),
         NEW p, IsRequest(p), CollectOK(p, rows, own)
  PROVE  /\ CollectOK(p, more, own)'
         /\ \A a \in more \ rows : a.id \notin p.kept
         /\ Beyond(rows, p.cursor) \subseteq Beyond(more, p.cursor)
  <1>1. PICK c : c = p.cursor
    OBVIOUS
  <1>2. c.at \in Nat
    BY <1>1 DEF IsRequest
  <1>3. PICK ids : ids = Exported(p)
    OBVIOUS
  <1>4. /\ c.start => ids \intersect own = {}
        /\ c.start \/ c.at <= now
        /\ \A a \in rows : a.id \in ids => ~Older(a, c)
        /\ \A x \in (ids \intersect own) \ IdsOf(rows) : c.at < now
        /\ p.kept \intersect own \subseteq IdsOf(rows)
    BY <1>1, <1>3 DEF CollectOK
  <1>5. ASSUME NEW a \in more, a.id \in ids PROVE ~Older(a, c)
    <2>1. CASE a \in rows
      BY <1>4, <1>5, <2>1
    <2>2. CASE a \notin rows
      <3>1. a.at = now /\ c.at < now
        BY <1>4, <1>5, <2>2
      <3>2. QED
        BY <1>2, <3>1 DEF Older
    <2>3. QED
      BY <2>1, <2>2
  <1>6. IdsOf(rows) \subseteq IdsOf(more)
    BY DEF IdsOf
  <1>7. CollectOK(p, more, own)'
    BY <1>1, <1>3, <1>4, <1>5, <1>6 DEF CollectOK
  <1>8. \A a \in more \ rows : a.id \notin p.kept
    BY <1>4
  <1>9. QED
    BY <1>7, <1>8 DEF Beyond

(* New rows in either table, for any export in flight. *)
LEMMA ExportGrows ==
  ASSUME now \in Nat, now' = now, LogsInv, EventsInv,
         logs \subseteq logs', events \subseteq events',
         \A a \in logs' \ logs : a.at = now /\ a.id \in LogIds /\ a.id \notin IdsOf(logs),
         \A a \in events' \ events : /\ a.at = now /\ a.id \in EventIds
                                     /\ a.id \notin IdsOf(events),
         NEW p, IsRequest(p), ExportOK(p)
  PROVE  ExportOK(p)'
  <1>1. PICK old : old = Timed(logs)
    OBVIOUS
  <1>2. PICK new : new = Timed(logs')
    OBVIOUS
  <1>3. PICK ev : ev = events'
    OBVIOUS
  <1>4. IdsOf(old) = IdsOf(logs)
    BY <1>1, TimedRows
  <1>5. old \subseteq new
    BY <1>1, <1>2 DEF Timed
  <1>6. \A a \in new \ old : a.at = now /\ a.id \in LogIds /\ a.id \notin IdsOf(old)
    <2>1. ASSUME NEW a \in new \ old PROVE a.at = now /\ a.id \in LogIds /\ a.id \notin IdsOf(old)
      <3>1. PICK b \in logs' : a = [id |-> b.id, at |-> b.at, us |-> b.us]
        BY <1>2 DEF Timed
      <3>2. b \notin logs
        BY <1>1, <3>1 DEF Timed
      <3>3. a.at = b.at /\ a.id = b.id
        BY <3>1
      <3>4. QED
        BY <1>4, <3>2, <3>3
    <2>2. QED
      BY <2>1
  <1>7. ASSUME p.at = "logs"
        PROVE  /\ CollectOK(p, new, LogIds)'
               /\ \A a \in new \ old : a.id \notin p.kept
               /\ Beyond(old, p.cursor) \subseteq Beyond(new, p.cursor)
    <2>1. CollectOK(p, old, LogIds)
      BY <1>1, <1>7 DEF ExportOK
    <2>2. QED
      BY <1>5, <1>6, <2>1, CollectGrows
  <1>8. ASSUME p.at = "events"
        PROVE  /\ CollectOK(p, ev, EventIds)'
               /\ Beyond(events, p.cursor) \subseteq Beyond(ev, p.cursor)
    <2>1. PICK rows : rows = events
      OBVIOUS
    <2>2. CollectOK(p, rows, EventIds)
      BY <1>8, <2>1 DEF ExportOK
    <2>3. /\ rows \subseteq ev
          /\ \A a \in ev \ rows : a.at = now /\ a.id \in EventIds /\ a.id \notin IdsOf(rows)
      BY <1>3, <2>1
    <2>4. CollectOK(p, ev, EventIds)' /\ Beyond(rows, p.cursor) \subseteq Beyond(ev, p.cursor)
      BY <2>2, <2>3, CollectGrows
    <2>5. QED
      BY <2>1, <2>4
  <1>9. IdsOf(events) \subseteq IdsOf(ev) /\ IdsOf(old) \subseteq IdsOf(new)
    BY <1>3, <1>5 DEF IdsOf
  <1>10. ASSUME p.at \in {"logs", "events", "event"}
         PROVE  /\ \A a \in ev \ events : a.id \notin p.kept
                /\ \A a \in new \ old : a.id \notin p.kept
    BY <1>1, <1>3, <1>6, <1>10 DEF ExportOK
  <1>11. /\ NoneTwice(p.out)
         /\ p.at \in {"logs", "events", "event"} =>
               /\ p.kind = "logs" => p.kept \intersect EventIds = {}
               /\ p.kind = "events" => p.kept \intersect LogIds = {}
               /\ p.kept \intersect EventIds \subseteq IdsOf(ev)
               /\ p.kept \intersect LogIds \subseteq IdsOf(new)
    BY <1>1, <1>9 DEF ExportOK
  <1>12. ASSUME p.at = "logs"
         PROVE  /\ p.kind # "events" /\ Exported(p) \subseteq LogIds
                /\ NoneLost(p, new, "logs")
    BY <1>1, <1>7, <1>12 DEF ExportOK, NoneLost
  <1>13. ASSUME p.at = "events" PROVE NoneLost(p, ev, "events")
    BY <1>8, <1>10, <1>13 DEF ExportOK, NoneLost
  <1>14. /\ p.at \in {"events", "event"} =>
               (Len(p.out) < MaxExport => NoneMissing(p, new, "logs"))
         /\ p.at = "event" => (Len(p.out) < MaxExport => NoneMissing(p, ev, "events"))
    BY <1>1, <1>10 DEF ExportOK, NoneMissing
  <1>15. /\ p.at = "logs" => NoneLost(p, new, "logs")'
         /\ p.at = "events" => NoneLost(p, ev, "events")'
         /\ p.at \in {"events", "event"} =>
               (Len(p.out) < MaxExport => NoneMissing(p, new, "logs")')
         /\ p.at = "event" => (Len(p.out) < MaxExport => NoneMissing(p, ev, "events")')
    BY <1>12, <1>13, <1>14 DEF NoneLost, NoneMissing
  <1>16. QED
    BY <1>2, <1>3, <1>7, <1>8, <1>11, <1>12, <1>15 DEF ExportOK

(* Nobody moves. *)
LEMMA HandlersStay ==
  ASSUME IInv, UNCHANGED <<req, lock>>,
         \A p : IsRequest(p) /\ HandlerOK(p) => HandlerOK(p)'
  PROVE  /\ RequestsInv' /\ LockHeld'
         /\ \A s \in Requests : HandlerOK(req[s])'
  <1>1. RequestsInv'
    BY DEF IInv, RequestsInv
  <1>2. LockHeld'
    BY DEF IInv, LockHeld
  <1>3. ASSUME NEW s \in Requests PROVE HandlerOK(req[s])'
    <2>1. PICK p : p = req[s]
      OBVIOUS
    <2>2. HandlerOK(p)'
      BY <2>1 DEF IInv, RequestsInv
    <2>3. QED
      BY <2>1, <2>2
  <1>4. QED
    BY <1>1, <1>2, <1>3

(* The chain only depends on the chained rows. *)
LEMMA ChainKept ==
  ASSUME UNCHANGED <<now, origin, orderly>>, Chained(logs') = Chained(logs),
         OriginInv, OrderInv
  PROVE  /\ OriginInv' /\ OrderInv'
         /\ \A p : InsertOK(p) /\ RangeOK(p) => InsertOK(p)' /\ RangeOK(p)'
  <1>1. PICK rows : rows = Chained(logs)
    OBVIOUS
  <1>2. rows = Chained(logs')
    BY <1>1
  <1>3. OriginInv'
    BY DEF OriginInv, LinkOK
  <1>4. OrderInv'
    BY <1>1, <1>2 DEF OrderInv, NoneBetween
  <1>5. ASSUME NEW p, InsertOK(p), RangeOK(p) PROVE InsertOK(p)' /\ RangeOK(p)'
    <2>1. InsertOK(p)'
      BY <1>1, <1>2, <1>5 DEF InsertOK, LinkOK
    <2>2. RangeOK(p)'
      BY <1>5 DEF RangeOK, NoneBetween
    <2>3. QED
      BY <2>1, <2>2
  <1>6. QED
    BY <1>3, <1>4, <1>5

(* Events leave the log alone. *)
LEMMA EventAdded ==
  ASSUME IInv, NEW id \in FreeEventIds, AddEvent(id),
         UNCHANGED <<logs, now, origin, orderly>>
  PROVE  /\ OriginInv' /\ LogsInv' /\ EventsInv' /\ OrderInv' /\ now' \in Nat
         /\ \A p : IsRequest(p) /\ HandlerOK(p) => HandlerOK(p)'
  <1>1. PICK e : e = [id |-> id, at |-> now, us |-> 1]
    OBVIOUS
  <1>2. now \in Nat /\ OriginInv /\ LogsInv /\ EventsInv /\ OrderInv
    BY DEF IInv
  <1>3. /\ e.id = id /\ e.at = now /\ id \in EventIds /\ id \notin IdsOf(events)
        /\ e \in [id : EventIds, at : Nat, us : {0, 1}]
    BY <1>1, <1>2 DEF FreeEventIds
  <1>4. events' = events \union {e}
    BY <1>1 DEF AddEvent
  <1>5. EventsInv'
    <2>1. IsFiniteSet(events \union {e})
      BY <1>2, FS_AddElement DEF EventsInv
    <2>2. events' \subseteq [id : EventIds, at : Nat, us : {0, 1}] /\ \A a \in events' : a.at <= now
      BY <1>2, <1>3, <1>4 DEF EventsInv
    <2>3. UniqueIds(events')
      BY <1>2, <1>3, <1>4 DEF EventsInv, UniqueIds, IdsOf
    <2>4. QED
      BY <1>4, <2>1, <2>2, <2>3 DEF EventsInv
  <1>6. LogsInv'
    BY <1>2 DEF LogsInv
  <1>7. /\ OriginInv' /\ OrderInv'
        /\ \A p : InsertOK(p) /\ RangeOK(p) => InsertOK(p)' /\ RangeOK(p)'
    BY <1>2, ChainKept
  <1>8. \A a \in events' \ events : a.at = now /\ a.id \in EventIds /\ a.id \notin IdsOf(events)
    BY <1>3, <1>4
  <1>9. ASSUME NEW p, IsRequest(p), ExportOK(p) PROVE ExportOK(p)'
    BY <1>2, <1>4, <1>8, <1>9, ExportGrows
  <1>10. QED
    BY <1>2, <1>5, <1>6, <1>7, <1>9 DEF HandlerOK

(* An event of another handler. *)
LEMMA WriteEventStep ==
  ASSUME IInv, NEW id \in FreeEventIds, WriteEvent(id)
  PROVE  IInv'
  <1>1. AddEvent(id) /\ UNCHANGED <<logs, req, lock, now, origin, orderly>>
    BY DEF WriteEvent, Outside
  <1>2. /\ OriginInv' /\ LogsInv' /\ EventsInv' /\ OrderInv' /\ now' \in Nat
        /\ \A p : IsRequest(p) /\ HandlerOK(p) => HandlerOK(p)'
    BY <1>1, EventAdded
  <1>3. RequestsInv' /\ LockHeld' /\ \A s \in Requests : HandlerOK(req[s])'
    BY <1>1, <1>2, HandlersStay
  <1>4. QED
    BY <1>2, <1>3 DEF IInv

(* The event of an export that has all its pages. *)
LEMMA RecordEventStep ==
  ASSUME IInv, NEW r \in Requests, NEW id \in FreeEventIds, RecordEvent(r, id)
  PROVE  IInv'
  <1>1. PICK n : n = Idle
    OBVIOUS
  <1>2. PICK q : q = [n EXCEPT !.at = "lock"]
    OBVIOUS
  <1>3. /\ AddEvent(id) /\ req' = [req EXCEPT ![r] = q]
        /\ UNCHANGED <<logs, lock, now, origin, orderly>>
    BY <1>1, <1>2 DEF RecordEvent, Goto
  <1>4. IsRequest(n) /\ n.out = <<>>
    BY <1>1, IdleOK
  <1>5. /\ RequestShape(q) /\ q.at = "lock"
        /\ q.kind = n.kind /\ q.out = n.out /\ q.counted = n.counted
        /\ q.cursor = n.cursor /\ q.kept = n.kept
    BY <1>2, <1>4 DEF IsRequest, RequestShape
  <1>6. IsRequest(q)
    BY <1>4, <1>5 DEF IsRequest
  <1>7. HandlerOK(q)
    BY <1>4, <1>5 DEF HandlerOK, InsertOK, RangeOK, ExportOK, NoneTwice
  <1>8. /\ OriginInv' /\ LogsInv' /\ EventsInv' /\ OrderInv' /\ now' \in Nat
        /\ \A p : IsRequest(p) /\ HandlerOK(p) => HandlerOK(p)'
    BY <1>3, EventAdded
  <1>9. HandlerOK(q)'
    BY <1>6, <1>7, <1>8
  <1>10. \A s \in Requests \ {r} : req[s].at = "insert" => lock' = s
    BY <1>3 DEF IInv, LockHeld
  <1>11. RequestsInv' /\ LockHeld' /\ \A s \in Requests : HandlerOK(req[s])'
    BY <1>3, <1>5, <1>6, <1>8, <1>9, <1>10, HandlersMove
  <1>12. QED
    BY <1>8, <1>11 DEF IInv

(* createAuditLog of an unchained row. *)
LEMMA PlainRow ==
  ASSUME NEW id \in LogIds, NEW t \in Nat, NEW n,
         n = Plain(id, t, 0) \/ n = Plain(id, t, 1)
  PROVE  IsRow(n) /\ n.id = id /\ n.chained = FALSE
  <1>1. /\ n.id = id /\ n.at = t /\ n.us \in {0, 1} /\ n.chained = FALSE
        /\ n.body = "full" /\ n.prev = NoHash /\ n.hash = NoHash
    BY DEF Plain
  <1>2. RowShape(n)
    BY <1>1 DEF Plain, RowShape
  <1>3. QED
    BY <1>1, <1>2 DEF IsRow

(* n is a row as it is inserted into the chain. *)
Linked(n, id, t, prev) ==
    /\ IsRow(n) /\ n.id = id /\ n.at = t /\ n.chained = TRUE /\ n.body = "full"
    /\ n.prev = prev /\ n.hash = Digest(n)

(* createAuditLog of a chained one. *)
LEMMA ChainRow ==
  ASSUME NEW id \in LogIds, NEW t \in Nat, NEW prev
  PROVE  Linked(Chain(id, t, prev), id, t, prev)
  <1> DEFINE n == Chain(id, t, prev)
  <1>1. PICK w : w = Plain(id, t, 0)
    OBVIOUS
  <1>2. PICK v : v = [w EXCEPT !.chained = TRUE, !.prev = prev]
    OBVIOUS
  <1>3. n = [v EXCEPT !.hash = Digest(v)]
    BY <1>1, <1>2 DEF Chain
  <1> HIDE DEF n
  <1>4. v = [id |-> id, at |-> t, us |-> 0, chained |-> TRUE, body |-> "full",
             prev |-> prev, hash |-> NoHash]
    BY <1>1, <1>2 DEF Plain
  <1>5. PICK h : h = Digest(v)
    OBVIOUS
  <1>6. n = [id |-> id, at |-> t, us |-> 0, chained |-> TRUE, body |-> "full",
             prev |-> prev, hash |-> h]
    BY <1>3, <1>4, <1>5
  <1>7. /\ n.id = id /\ n.at = t /\ n.us = 0 /\ n.chained = TRUE /\ n.body = "full"
        /\ n.prev = prev /\ n.hash = h
    BY <1>6
  <1>8. v.id = id /\ v.at = t /\ v.body = "full" /\ v.prev = prev
    BY <1>4
  <1>9. Digest(n) = h
    BY <1>5, <1>7, <1>8 DEF Digest
  <1>10. RowShape(n)
    BY <1>6, <1>7 DEF RowShape
  <1>11. QED
    BY <1>7, <1>9, <1>10 DEF IsRow, Linked, n

(* A row under a new id. *)
LEMMA RowAdded ==
  ASSUME now \in Nat, LogsInv, NEW n, IsRow(n), n.at = now, n.id \notin IdsOf(logs)
  PROVE  /\ IsFiniteSet(logs \union {n})
         /\ \A a \in logs \union {n} : IsRow(a) /\ a.at <= now
         /\ UniqueIds(logs \union {n})
         /\ \A a \in (logs \union {n}) \ logs :
               a.at = now /\ a.id \in LogIds /\ a.id \notin IdsOf(logs)
  <1>1. IsFiniteSet(logs \union {n})
    BY FS_AddElement DEF LogsInv
  <1>2. UniqueIds(logs \union {n})
    BY DEF LogsInv, UniqueIds, IdsOf
  <1>3. n.id \in LogIds
    BY DEF IsRow
  <1>4. QED
    BY <1>1, <1>2, <1>3 DEF LogsInv

(* An unchained row of another handler or of the retention job. *)
LEMMA WriteStep ==
  ASSUME IInv, NEW id \in FreeIds, Write(id) \/ WriteRetention(id)
  PROVE  IInv'
  <1>1. PICK n : /\ n = Plain(id, now, 0) \/ n = Plain(id, now, 1)
                 /\ logs' = logs \union {n}
    BY DEF Write, WriteRetention, AddPlain
  <1>2. logs' = logs \union {n} /\ UNCHANGED <<events, req, lock, now, origin, orderly>>
    BY <1>1 DEF Write, WriteRetention, AddPlain, Outside
  <1>3. now \in Nat /\ OriginInv /\ LogsInv /\ EventsInv /\ OrderInv
    BY DEF IInv
  <1>4. id \in LogIds /\ id \notin IdsOf(logs) /\ \A o \in origin : o.row.id # id
    BY DEF FreeIds
  <1>5. IsRow(n) /\ n.id = id /\ n.at = now /\ n.chained = FALSE
    <2>1. n.at = now
      BY <1>1 DEF Plain
    <2>2. id \in LogIds /\ now \in Nat
      BY <1>3, <1>4
    <2>3. IsRow(n) /\ n.id = id /\ n.chained = FALSE
      BY <1>1, <2>2, PlainRow
    <2>4. QED
      BY <2>1, <2>3
  <1>6. /\ IsFiniteSet(logs')
        /\ \A a \in logs' : IsRow(a) /\ a.at <= now
        /\ UniqueIds(logs')
        /\ \A a \in logs' \ logs : a.at = now /\ a.id \in LogIds /\ a.id \notin IdsOf(logs)
    BY <1>2, <1>3, <1>4, <1>5, RowAdded
  <1>7. Chained(logs') = Chained(logs)
    BY <1>2, <1>5 DEF Chained
  <1>8. \A o \in origin : o.row.id \in IdsOf(logs') <=> o.row.id \in IdsOf(logs)
    BY <1>2, <1>4, <1>5 DEF IdsOf
  <1>9. LogsInv'
    BY <1>2, <1>3, <1>6, <1>7, <1>8 DEF LogsInv
  <1>10. EventsInv'
    BY <1>2, <1>3 DEF EventsInv
  <1>11. /\ OriginInv' /\ OrderInv'
         /\ \A p : InsertOK(p) /\ RangeOK(p) => InsertOK(p)' /\ RangeOK(p)'
    BY <1>2, <1>3, <1>7, ChainKept
  <1>12. ASSUME NEW p, IsRequest(p), ExportOK(p) PROVE ExportOK(p)'
    BY <1>2, <1>3, <1>6, <1>12, ExportGrows
  <1>13. RequestsInv' /\ LockHeld' /\ \A s \in Requests : HandlerOK(req[s])'
    <2>1. \A p : IsRequest(p) /\ HandlerOK(p) => HandlerOK(p)'
      BY <1>11, <1>12 DEF HandlerOK
    <2>2. QED
      BY <1>2, <2>1, HandlersStay
  <1>14. QED
    BY <1>2, <1>3, <1>9, <1>10, <1>11, <1>13 DEF IInv

(* The new row of the chain. *)
LEMMA ChainGrows ==
  ASSUME IInv, NEW q, IsRequest(q), InsertOK(q), q.at = "insert",
         NEW n, IsRow(n), n.at = now, n.chained = TRUE, n.body = "full",
         n.prev = q.prev, n.hash = Digest(n),
         n.id \notin IdsOf(logs), \A o \in origin : o.row.id # n.id,
         logs' = logs \union {n},
         origin' = origin \union {[row |-> n, pred |-> q.pred]},
         orderly' = (orderly /\ \A a \in Chained(logs) : Before(a, n)),
         now' = now
  PROVE  /\ OriginInv' /\ LogsInv' /\ OrderInv'
         /\ \A p : RangeOK(p) => RangeOK(p)'
  <1>1. PICK new : new = [row |-> n, pred |-> q.pred]
    OBVIOUS
  <1>2. now \in Nat /\ OriginInv /\ LogsInv /\ OrderInv
    BY DEF IInv
  <1>3. new.row = n /\ new.pred = q.pred /\ new = [row |-> new.row, pred |-> new.pred]
    BY <1>1
  <1>4. origin' = origin \union {new}
    BY <1>1
  <1>5. Chained(logs') = Chained(logs) \union {n}
    BY DEF Chained
  <1>6. \A prev, pred : LinkOK(prev, pred) => LinkOK(prev, pred)'
    BY <1>4 DEF LinkOK
  (* the new row is nobody's predecessor *)
  <1>7. \A prev, pred : LinkOK(prev, pred) => pred # n.id
    <2>1. n.id # None
      BY AuditLogAssumption DEF IsRow
    <2>2. QED
      BY <2>1 DEF LinkOK
  <1>8. LinkOK(q.prev, q.pred) /\ \A o \in origin : LinkOK(o.row.prev, o.pred)
    BY <1>2 DEF InsertOK, OriginInv
  <1>9. q.pred # n.id /\ \A o \in origin : o.pred # n.id
    BY <1>7, <1>8
  <1>10. OriginInv'
    <2>1. ASSUME NEW o \in origin'
          PROVE  /\ o = [row |-> o.row, pred |-> o.pred]
                 /\ IsRow(o.row) /\ o.row.chained = TRUE /\ o.row.body = "full"
                 /\ o.row.hash = Digest(o.row)
                 /\ o.row.at <= now'
                 /\ LinkOK(o.row.prev, o.pred)'
      <3>1. CASE o \in origin
        BY <1>2, <1>6, <3>1 DEF OriginInv
      <3>2. CASE o = new
        <4>1. o.row = n /\ o.pred = q.pred /\ o = [row |-> o.row, pred |-> o.pred]
          BY <1>3, <3>2
        <4>2. LinkOK(n.prev, q.pred)'
          BY <1>6, <1>8
        <4>3. n.at <= now'
          BY <1>2
        <4>4. QED
          BY <4>1, <4>2, <4>3
      <3>3. QED
        BY <1>4, <3>1, <3>2
    <2>2. \A o, p \in origin' : o.row.id = p.row.id => o = p
      BY <1>2, <1>3, <1>4 DEF OriginInv
    <2>3. QED
      BY <2>1, <2>2 DEF OriginInv
  <1>11. LogsInv'
    <2>1. /\ IsFiniteSet(logs')
          /\ \A a \in logs' : IsRow(a) /\ a.at <= now
          /\ UniqueIds(logs')
      BY <1>2, RowAdded
    <2>2. \A a \in Chained(logs') : \E o \in origin' : WrittenAs(a, o)
      <3>1. WrittenAs(n, new)
        BY <1>3 DEF WrittenAs
      <3>2. \A a \in Chained(logs) : \E o \in origin : WrittenAs(a, o)
        BY <1>2 DEF LogsInv
      <3>3. QED
        BY <1>4, <1>5, <3>1, <3>2
    <2>3. \A x : x \in IdsOf(logs') <=> x \in IdsOf(logs) \/ x = n.id
      BY DEF IdsOf
    <2>4. ASSUME NEW o \in origin', o.row.id \in IdsOf(logs')
          PROVE  \E a \in Chained(logs') : a.id = o.row.id
      <3>1. CASE o = new
        BY <1>3, <1>5, <3>1
      <3>2. CASE o \in origin
        <4>1. o.row.id \in IdsOf(logs)
          BY <2>3, <2>4, <3>2
        <4>2. \E a \in Chained(logs) : a.id = o.row.id
          BY <1>2, <3>2, <4>1 DEF LogsInv
        <4>3. QED
          BY <1>5, <4>2
      <3>3. QED
        BY <1>4, <3>1, <3>2
    <2>5. ASSUME NEW o \in origin', o.row.id \notin IdsOf(logs') PROVE o.row.at < now
      <3>1. o \in origin /\ o.row.id \notin IdsOf(logs)
        BY <1>3, <1>4, <2>3, <2>5
      <3>2. QED
        BY <1>2, <3>1 DEF LogsInv
    <2>6. QED
      BY <2>1, <2>2, <2>4, <2>5 DEF LogsInv
  <1>12. ASSUME orderly', NEW o \in origin PROVE Before(o.row, n) /\ ~Before(n, o.row)
    <2>1. IsRow(o.row)
      BY <1>2 DEF OriginInv
    <2>2. Before(o.row, n)
      <3>1. CASE o.row.id \in IdsOf(logs)
        <4>1. PICK a \in Chained(logs) : a.id = o.row.id
          BY <1>2, <3>1 DEF LogsInv
        <4>2. WrittenAs(a, o)
          BY <1>2, <4>1, OneOrigin DEF LogsInv
        <4>3. Before(a, n)
          BY <1>12
        <4>4. QED
          BY <4>2, <4>3, SameOrder DEF WrittenAs
      <3>2. CASE o.row.id \notin IdsOf(logs)
        BY <1>2, <3>2 DEF LogsInv, Before
      <3>3. QED
        BY <3>1, <3>2
    <2>3. QED
      BY <2>1, <2>2, BeforeIsOrder
  (* a new row changes nothing about what lies between two others *)
  <1>13. ASSUME NEW rows, NEW x, NEW pred, NoneBetween(rows, x, pred), pred # n.id
         PROVE  NoneBetween(rows, x, pred)'
    BY <1>3, <1>4, <1>13 DEF NoneBetween
  <1>14. OrderInv'
    <2> PICK rows : rows = Chained(logs)
      OBVIOUS
    <2> DEFINE all == rows \union {n}
    <2>3. rows = Chained(logs) /\ Chained(logs') = all
      BY <1>5
    <2> HIDE DEF all
    <2>1. SUFFICES ASSUME orderly', NEW o \in origin'
                   PROVE  /\ \A p \in origin' : p.row.id = o.pred => Before(p.row, o.row)
                          /\ NoneBetween(all, o.row, o.pred)'
      BY <2>3 DEF OrderInv
    <2>2. orderly
      BY <2>1
    <2>4. CASE o \in origin
      <3>1. \A p \in origin' : p.row.id = o.pred => Before(p.row, o.row)
        BY <1>2, <1>3, <1>4, <1>9, <2>2, <2>4 DEF OrderInv
      <3>2. NoneBetween(rows, o.row, o.pred)
        BY <1>2, <2>2, <2>3, <2>4 DEF OrderInv
      <3>3. NoneBetween(rows, o.row, o.pred)'
        BY <1>9, <1>13, <2>4, <3>2
      <3>4. ~Before(n, o.row)
        BY <1>12, <2>1, <2>4
      <3>5. QED
        BY <3>1, <3>3, <3>4 DEF NoneBetween, all
    <2>5. CASE o = new
      <3>1. o.row = n /\ o.pred = q.pred
        BY <1>3, <2>5
      <3>2. \A p \in origin' : p.row.id = q.pred => Before(p.row, n)
        BY <1>3, <1>4, <1>9, <1>12, <2>1
      <3>3. ~Before(n, n)
        BY BeforeIsOrder
      <3>4. \A c \in rows : /\ q.pred # None
                            /\ \A p \in origin' : p.row.id = q.pred => ~Before(p.row, c)
        BY <1>3, <1>4, <1>9, <2>3 DEF InsertOK
      <3>5. NoneBetween(all, n, q.pred)'
        BY <3>3, <3>4 DEF NoneBetween, all
      <3>6. QED
        BY <3>1, <3>2, <3>5
    <2>6. QED
      BY <1>4, <2>1, <2>4, <2>5
  <1>15. ASSUME NEW p, RangeOK(p) PROVE RangeOK(p)'
    <2>1. SUFFICES ASSUME p.at = "previous"
                   PROVE  RangeOK(p)'
      BY DEF RangeOK
    <2>2. /\ IsFiniteSet(p.rows) /\ UniqueIds(p.rows)
          /\ \A a \in p.rows : /\ IsRow(a) /\ a.chained = TRUE
                               /\ \E o \in origin : WrittenAs(a, o)
          /\ orderly => \A a \in p.rows, o \in origin :
                            a.id = o.row.id => NoneBetween(p.rows, o.row, o.pred)
      BY <1>15, <2>1 DEF RangeOK
    <2>3. \A a \in p.rows : \E o \in origin' : WrittenAs(a, o)
      BY <1>4, <2>2
    <2>4. \A a \in p.rows : a.id # n.id
      BY <2>2 DEF WrittenAs
    <2>5. ASSUME orderly', NEW a \in p.rows, NEW o \in origin', a.id = o.row.id
          PROVE  NoneBetween(p.rows, o.row, o.pred)'
      <3>1. o \in origin
        BY <1>3, <1>4, <2>4, <2>5
      <3>2. NoneBetween(p.rows, o.row, o.pred)
        BY <2>2, <2>5, <3>1
      <3>3. QED
        BY <1>9, <1>13, <3>1, <3>2
    <2>6. QED
      BY <2>2, <2>3, <2>5 DEF RangeOK
  <1>16. QED
    BY <1>10, <1>11, <1>14, <1>15

(* InsertAuditLog: only the holder of the lock is there. *)
LEMMA InsertStep ==
  ASSUME IInv, NEW r \in Requests, NEW id \in FreeIds, InsertAuditLog(r, id)
  PROVE  IInv'
  <1>1. PICK q : q = req[r]
    OBVIOUS
  <1>2. PICK n : n = Chain(id, now, q.prev)
    OBVIOUS
  <1>3. PICK z : z = Idle
    OBVIOUS
  <1>4. /\ q.at = "insert" /\ lock' = None
        /\ logs' = logs \union {n}
        /\ origin' = origin \union {[row |-> n, pred |-> q.pred]}
        /\ orderly' = (orderly /\ \A a \in Chained(logs) : Before(a, n))
        /\ req' = [req EXCEPT ![r] = z]
        /\ now' = now /\ events' = events
    BY <1>1, <1>2, <1>3 DEF InsertAuditLog, Goto
  <1>5. now \in Nat /\ LogsInv /\ EventsInv /\ IsRequest(q) /\ InsertOK(q)
    BY <1>1 DEF IInv, RequestsInv, HandlerOK
  <1>6. id \in LogIds /\ id \notin IdsOf(logs) /\ \A o \in origin : o.row.id # id
    BY DEF FreeIds
  <1>7. /\ IsRow(n) /\ n.id = id /\ n.chained = TRUE /\ n.body = "full"
        /\ n.prev = q.prev /\ n.hash = Digest(n)
    <2>1. PICK prev : prev = q.prev
      OBVIOUS
    <2>2. PICK t : t = now
      OBVIOUS
    <2>3. t \in Nat /\ n = Chain(id, t, prev)
      BY <1>2, <1>5, <2>1, <2>2
    <2>4. Linked(n, id, t, prev)
      BY <1>6, <2>3, ChainRow
    <2>5. QED
      BY <2>1, <2>4 DEF Linked
  <1>8. n.at = now
    BY <1>2 DEF Chain, Plain
  <1>9. n.id \notin IdsOf(logs) /\ \A o \in origin : o.row.id # n.id
    BY <1>6, <1>7
  <1>10. /\ OriginInv' /\ LogsInv' /\ OrderInv'
         /\ \A p : RangeOK(p) => RangeOK(p)'
    BY <1>4, <1>5, <1>7, <1>8, <1>9, ChainGrows
  <1>11. EventsInv'
    BY <1>4, <1>5 DEF EventsInv
  <1>12. \A a \in logs' \ logs : a.at = now /\ a.id \in LogIds /\ a.id \notin IdsOf(logs)
    BY <1>4, <1>6, <1>7, <1>8
  <1>13. ASSUME NEW p, IsRequest(p), ExportOK(p) PROVE ExportOK(p)'
    BY <1>4, <1>5, <1>12, <1>13, ExportGrows
  (* nobody else has the lock *)
  <1>14. \A s \in Requests \ {r} : req[s].at # "insert"
    BY <1>1, <1>4 DEF IInv, LockHeld
  <1>15. ASSUME NEW s \in Requests \ {r}, NEW p, p = req[s], IsRequest(p), HandlerOK(p)
         PROVE  HandlerOK(p)'
    <2>1. p.at # "insert"
      BY <1>14, <1>15
    <2>2. InsertOK(p)'
      BY <2>1 DEF InsertOK
    <2>3. QED
      BY <1>10, <1>13, <1>15, <2>2 DEF HandlerOK
  <1>16. IsRequest(z) /\ z.at = "idle" /\ NoneTwice(z.out)
    BY <1>3, IdleOK DEF NoneTwice
  <1>17. HandlerOK(z)'
    BY <1>16 DEF HandlerOK, InsertOK, RangeOK, ExportOK
  <1>18. RequestsInv' /\ LockHeld' /\ \A s \in Requests : HandlerOK(req[s])'
    <2>1. \A s \in Requests \ {r} : req[s].at = "insert" => lock' = s
      BY <1>14
    <2>2. QED
      BY <1>4, <1>15, <1>16, <1>17, <2>1, HandlersMove
  <1>19. QED
    BY <1>4, <1>5, <1>10, <1>11, <1>18 DEF IInv

-----------------------------------------------------------------------------
(* The clock. *)

(* Time only makes room. *)
LEMMA TickStep ==
  ASSUME IInv, Tick
  PROVE  IInv'
  <1>1. now' = now + 1 /\ UNCHANGED <<logs, events, lock, req, origin, orderly>>
    BY DEF Tick
  <1>2. now \in Nat /\ OriginInv /\ LogsInv /\ EventsInv /\ OrderInv
    BY DEF IInv
  <1>3. \A t \in Nat : (t <= now => t <= now') /\ (t < now => t < now')
    BY <1>1, <1>2
  <1>4. OriginInv'
    <2>1. \A o \in origin : o.row.at \in Nat /\ o.row.at <= now
      BY <1>2 DEF OriginInv, IsRow
    <2>2. \A o \in origin : o.row.at <= now'
      BY <1>3, <2>1
    <2>3. QED
      BY <1>1, <1>2, <2>2 DEF OriginInv, LinkOK
  <1>5. LogsInv'
    <2>1. \A a \in logs : a.at <= now'
      BY <1>2, <1>3 DEF LogsInv, IsRow
    <2>2. \A o \in origin : o.row.id \notin IdsOf(logs) => o.row.at < now'
      BY <1>2, <1>3 DEF LogsInv, OriginInv, IsRow
    <2>3. QED
      BY <1>1, <1>2, <2>1, <2>2 DEF LogsInv
  <1>6. EventsInv'
    <2>1. \A e \in events : e.at <= now'
      BY <1>2, <1>3 DEF EventsInv
    <2>2. QED
      BY <1>1, <1>2, <2>1 DEF EventsInv
  <1>7. OrderInv'
    BY <1>1, <1>2 DEF OrderInv, NoneBetween
  <1>8. ASSUME NEW p, IsRequest(p), HandlerOK(p) PROVE HandlerOK(p)'
    <2>1. InsertOK(p)'
      BY <1>1, <1>8 DEF HandlerOK, InsertOK, LinkOK
    <2>2. RangeOK(p)'
      BY <1>1, <1>8 DEF HandlerOK, RangeOK, NoneBetween
    <2>3. p.cursor.at \in Nat
      BY <1>8 DEF IsRequest
    <2>4. \A rows, own : CollectOK(p, rows, own) => CollectOK(p, rows, own)'
      <3>1. ASSUME NEW rows, NEW own, CollectOK(p, rows, own) PROVE CollectOK(p, rows, own)'
        <4>1. p.cursor.start \/ p.cursor.at <= now'
          BY <1>3, <2>3, <3>1 DEF CollectOK
        <4>2. \A x \in (Exported(p) \intersect own) \ IdsOf(rows) : p.cursor.at < now'
          BY <1>3, <2>3, <3>1 DEF CollectOK
        <4>3. QED
          BY <3>1, <4>1, <4>2 DEF CollectOK
      <3>2. QED
        BY <3>1
    <2>5. ExportOK(p)'
      <3>1. PICK rows : rows = Timed(logs)
        OBVIOUS
      <3>2. PICK ev : ev = events
        OBVIOUS
      <3>3. rows = Timed(logs') /\ ev = events'
        BY <1>1, <3>1, <3>2
      <3>4. /\ p.at = "logs" => CollectOK(p, rows, LogIds)'
            /\ p.at = "events" => CollectOK(p, ev, EventIds)'
        BY <1>8, <2>4, <3>1, <3>2 DEF HandlerOK, ExportOK
      <3>5. QED
        BY <1>8, <3>1, <3>2, <3>3, <3>4 DEF HandlerOK, ExportOK, NoneLost, NoneMissing
    <2>6. QED
      BY <2>1, <2>2, <2>5 DEF HandlerOK
  <1>9. RequestsInv' /\ LockHeld' /\ \A s \in Requests : HandlerOK(req[s])'
    BY <1>1, <1>8, HandlersStay
  <1>10. QED
    BY <1>1, <1>2, <1>4, <1>5, <1>6, <1>7, <1>9 DEF IInv

-----------------------------------------------------------------------------
(* The retention job and the removal of accounts. *)

(* b is a with another body. *)
SameButBody(a, b) ==
    /\ IsRow(b) /\ b.id = a.id /\ b.at = a.at /\ b.us = a.us /\ b.chained = a.chained
    /\ b.prev = a.prev /\ b.hash = a.hash

(* Blanking keeps the id, the time and the hashes of a row. *)
LEMMA EditedRow ==
  ASSUME NEW a, IsRow(a), NEW body
  PROVE  SameButBody(a, [a EXCEPT !.body = body])
  <1>1. PICK b : b = [a EXCEPT !.body = body]
    OBVIOUS
  <1>2. a = [id |-> a.id, at |-> a.at, us |-> a.us, chained |-> a.chained,
             body |-> a.body, prev |-> a.prev, hash |-> a.hash]
    BY DEF IsRow, RowShape
  <1>3. b = [id |-> a.id, at |-> a.at, us |-> a.us, chained |-> a.chained,
             body |-> body, prev |-> a.prev, hash |-> a.hash]
    BY <1>1, <1>2
  <1>4. /\ b.id = a.id /\ b.at = a.at /\ b.us = a.us /\ b.chained = a.chained /\ b.body = body
        /\ b.prev = a.prev /\ b.hash = a.hash
    BY <1>3
  <1>5. RowShape(b)
    BY <1>3, <1>4 DEF RowShape
  <1>6. SameButBody(a, b)
    BY <1>4, <1>5 DEF SameButBody, IsRow
  <1>7. QED
    BY <1>1, <1>6

(* Blanking rows keeps the chain, the pages and what handlers know of them. *)
LEMMA EditStep ==
  ASSUME IInv, NEW ids, NEW body, Edit(ids, body)
  PROVE  IInv'
  <1> DEFINE f == [a \in logs |-> IF a.id \in ids THEN [a EXCEPT !.body = body] ELSE a]
  <1>1. logs' = {f[a] : a \in logs} /\ UNCHANGED <<events, req, lock, now, origin, orderly>>
    BY DEF Edit, Outside
  <1>2. now \in Nat /\ OriginInv /\ LogsInv /\ EventsInv /\ OrderInv
    BY DEF IInv
  <1>3. ASSUME NEW a \in logs PROVE SameButBody(a, f[a]) /\ f[a] \in logs'
    <2>1. IsRow(a)
      BY <1>2 DEF LogsInv
    <2>2. SameButBody(a, a)
      BY <2>1 DEF SameButBody
    <2>3. SameButBody(a, f[a])
      BY <2>1, <2>2, EditedRow
    <2>4. QED
      BY <1>1, <2>3
  <1>4. IsFiniteSet(logs')
    <2>1. f \in [logs -> logs'] /\ \A b \in logs' : \E a \in logs : f[a] = b
      BY <1>1, <1>3
    <2>2. PICK new : new = logs'
      OBVIOUS
    <2>3. PICK old : old = logs
      OBVIOUS
    <2>4. PICK g : g = f
      OBVIOUS
    <2>5. g \in [old -> new] /\ \A b \in new : \E a \in old : g[a] = b
      BY <2>1, <2>2, <2>3, <2>4
    <2>6. g \in Surjection(old, new)
      BY <2>5, Fun_IsSurj
    <2>7. IsFiniteSet(new)
      BY <1>2, <2>3, <2>6, FS_Surjection DEF LogsInv
    <2>8. QED
      BY <2>2, <2>7
  <1>5. /\ \A a \in logs : \E b \in logs' : SameButBody(a, b)
        /\ \A b \in logs' : \E a \in logs : SameButBody(a, b)
    BY <1>1, <1>3
  <1>6. UniqueIds(logs')
    <2>1. ASSUME NEW a \in logs, NEW b \in logs, f[a].id = f[b].id PROVE f[a] = f[b]
      <3>1. a.id = b.id
        BY <1>3, <2>1 DEF SameButBody
      <3>2. a = b
        BY <1>2, <3>1 DEF LogsInv, UniqueIds
      <3>3. QED
        BY <3>2
    <2> HIDE DEF f
    <2>2. ASSUME NEW c \in logs', NEW d \in logs', c.id = d.id PROVE c = d
      <3>1. PICK a \in logs : c = f[a]
        BY <1>1
      <3>2. PICK b \in logs : d = f[b]
        BY <1>1
      <3>3. QED
        BY <2>1, <2>2, <3>1, <3>2
    <2>3. QED
      BY <2>2 DEF UniqueIds
  <1> HIDE DEF f
  <1>7. /\ \A a \in Chained(logs) : \E b \in Chained(logs') : SameButBody(a, b)
        /\ \A b \in Chained(logs') : \E a \in Chained(logs) : SameButBody(a, b)
    BY <1>5 DEF Chained, SameButBody
  <1>8. IdsOf(logs') = IdsOf(logs)
    BY <1>5 DEF IdsOf, SameButBody
  <1>9. Timed(logs') = Timed(logs)
    BY <1>5 DEF Timed, SameButBody
  <1>10. LogsInv'
    <2>1. \A b \in logs' : IsRow(b) /\ b.at <= now
      BY <1>2, <1>5 DEF LogsInv, SameButBody
    <2>2. \A b \in Chained(logs') : \E o \in origin : WrittenAs(b, o)
      BY <1>2, <1>7 DEF LogsInv, WrittenAs, SameButBody
    <2>3. \A o \in origin : o.row.id \in IdsOf(logs') => \E b \in Chained(logs') : b.id = o.row.id
      BY <1>2, <1>7, <1>8 DEF LogsInv, SameButBody
    <2>4. \A o \in origin : o.row.id \notin IdsOf(logs') => o.row.at < now
      BY <1>2, <1>8 DEF LogsInv
    <2>5. QED
      BY <1>1, <1>4, <1>6, <2>1, <2>2, <2>3, <2>4 DEF LogsInv
  <1>11. EventsInv'
    BY <1>1, <1>2 DEF EventsInv
  <1>12. OriginInv'
    BY <1>1, <1>2 DEF OriginInv, LinkOK
  <1>13. \A a, b, x : SameButBody(a, b) => /\ Before(a, x) <=> Before(b, x)
                                           /\ Before(x, a) <=> Before(x, b)
    BY SameOrder DEF SameButBody
  <1>14. OrderInv'
    <2>1. PICK old : old = Chained(logs)
      OBVIOUS
    <2>2. PICK new : new = Chained(logs')
      OBVIOUS
    <2>3. \A b \in new : \E a \in old : SameButBody(a, b)
      BY <1>7, <2>1, <2>2
    <2>4. \A x, pred : NoneBetween(old, x, pred) => NoneBetween(new, x, pred)
      BY <1>13, <2>3 DEF NoneBetween
    <2>5. orderly => \A o \in origin : NoneBetween(new, o.row, o.pred)
      BY <1>2, <2>1, <2>4 DEF OrderInv
    <2>6. orderly => \A o \in origin, p \in origin : p.row.id = o.pred => Before(p.row, o.row)
      BY <1>2 DEF OrderInv
    <2>7. QED
      BY <1>1, <2>2, <2>5, <2>6 DEF OrderInv, NoneBetween
  <1>15. ASSUME NEW p, HandlerOK(p) PROVE HandlerOK(p)'
    <2>1. InsertOK(p)'
      <3>1. SUFFICES ASSUME p.at = "insert"
                     PROVE  InsertOK(p)'
        BY DEF InsertOK
      <3>2. LinkOK(p.prev, p.pred)'
        BY <1>1, <1>15, <3>1 DEF HandlerOK, InsertOK, LinkOK
      <3>3. \A c \in Chained(logs) :
               p.pred # None /\ \A s \in origin : s.row.id = p.pred => ~Before(s.row, c)
        BY <1>15, <3>1 DEF HandlerOK, InsertOK
      <3>4. \A c \in Chained(logs') :
               p.pred # None /\ \A s \in origin : s.row.id = p.pred => ~Before(s.row, c)
        <4>1. ASSUME NEW c \in Chained(logs')
              PROVE  p.pred # None /\ \A s \in origin : s.row.id = p.pred => ~Before(s.row, c)
          <5>1. PICK a \in Chained(logs) : SameButBody(a, c)
            BY <1>7
          <5>2. \A x : Before(x, a) <=> Before(x, c)
            BY <1>13, <5>1
          <5>3. QED
            BY <3>3, <5>2
        <4>2. QED
          BY <4>1
      <3>5. QED
        BY <1>1, <3>2, <3>4 DEF InsertOK
    <2>2. RangeOK(p)'
      BY <1>1, <1>15 DEF HandlerOK, RangeOK, NoneBetween
    <2>3. ExportOK(p)'
      <3>1. PICK rows : rows = Timed(logs)
        OBVIOUS
      <3>2. rows = Timed(logs')
        BY <1>9, <3>1
      <3>3. QED
        BY <1>1, <1>15, <3>1, <3>2 DEF HandlerOK, ExportOK, CollectOK, NoneLost, NoneMissing
    <2>4. QED
      BY <2>1, <2>2, <2>3 DEF HandlerOK
  <1>16. RequestsInv' /\ LockHeld' /\ \A s \in Requests : HandlerOK(req[s])'
    BY <1>1, <1>15, HandlersStay
  <1>17. QED
    BY <1>1, <1>2, <1>10, <1>11, <1>12, <1>14, <1>16 DEF IInv

(* Only rows of an earlier time are deleted. *)
LEMMA OldRows ==
  ASSUME IInv, NEW ids,
         ids \in SUBSET Old(logs, DeleteAge) \/ ids \in SUBSET Old(events, DeleteAge)
  PROVE  /\ \A a \in logs : a.id \in ids => a.at < now
         /\ \A e \in events : e.id \in ids => e.at < now
  <1>1. now \in Nat /\ LogsInv /\ EventsInv /\ DeleteAge \in Nat
    BY AuditLogAssumption DEF IInv
  <1>2. /\ \A a \in logs : a.at \in Nat /\ a.id \in LogIds
        /\ \A e \in events : e.at \in Nat /\ e.id \in EventIds
    BY <1>1 DEF LogsInv, EventsInv, IsRow
  <1>3. \A t \in Nat : t + DeleteAge < now => t < now
    BY <1>1
  <1>4. LogIds \intersect EventIds = {}
    BY AuditLogAssumption
  <1>5. CASE ids \in SUBSET Old(logs, DeleteAge)
    <2>1. \A x \in ids : \E a \in logs : a.id = x /\ a.at + DeleteAge < now
      BY <1>5 DEF Old, IdsOf
    <2>2. \A x \in ids : \E a \in logs : a.id = x /\ a.at < now
      BY <1>2, <1>3, <2>1
    <2>3. QED
      BY <1>1, <1>2, <1>4, <2>2 DEF LogsInv, UniqueIds
  <1>6. CASE ids \in SUBSET Old(events, DeleteAge)
    <2>1. \A x \in ids : \E e \in events : e.id = x /\ e.at + DeleteAge < now
      BY <1>6 DEF Old, IdsOf
    <2>2. \A x \in ids : \E e \in events : e.id = x /\ e.at < now
      BY <1>2, <1>3, <2>1
    <2>3. QED
      BY <1>1, <1>2, <1>4, <2>2 DEF EventsInv, UniqueIds
  <1>7. QED
    BY <1>5, <1>6

(* What is gone was not beyond the cursor if it was exported: its time has   *)
(* passed for new rows.                                                      *)
LEMMA CollectShrinks ==
  ASSUME now \in Nat, now' = now, NEW own, NEW ids, NEW rows,
         \A a \in rows : a.at \in Nat /\ (a.id \in ids => a.at < now),
         NEW less, less = {a \in rows : a.id \notin ids},
         NEW p, IsRequest(p), CollectOK(p, rows, own),
         NEW q, q.out = p.out, q.cursor = p.cursor, q.kept = p.kept \ ids
  PROVE  CollectOK(q, less, own)'
  <1>1. PICK c : c = p.cursor
    OBVIOUS
  <1>2. PICK out : out = Exported(p)
    OBVIOUS
  <1>3. c.at \in Nat /\ q.cursor = c /\ Exported(q) = out
    BY <1>1, <1>2 DEF IsRequest, Exported
  <1>4. /\ c.start => out \intersect own = {}
        /\ c.start \/ c.at <= now
        /\ \A a \in rows : a.id \in out => ~Older(a, c)
        /\ \A x \in (out \intersect own) \ IdsOf(rows) : c.at < now
        /\ p.kept \intersect own \subseteq IdsOf(rows)
    BY <1>1, <1>2 DEF CollectOK
  <1>5. ASSUME NEW x \in (out \intersect own) \ IdsOf(less) PROVE c.at < now
    <2>1. CASE x \notin IdsOf(rows)
      BY <1>4, <2>1
    <2>2. CASE x \in IdsOf(rows)
      <3>1. PICK a \in rows : a.id = x
        BY <2>2 DEF IdsOf
      <3>2. a.id \in ids
        BY <1>5, <3>1 DEF IdsOf
      <3>3. ~Older(a, c) /\ a.at < now /\ a.at \in Nat
        BY <1>4, <3>1, <3>2
      <3>4. QED
        BY <1>3, <3>3 DEF Older
    <2>3. QED
      BY <2>1, <2>2
  <1>6. q.kept \intersect own \subseteq IdsOf(less)
    BY <1>4 DEF IdsOf
  <1>7. QED
    BY <1>3, <1>4, <1>5, <1>6 DEF CollectOK

(* Deleted rows, for any export in flight. *)
LEMMA ExportShrinks ==
  ASSUME now \in Nat, now' = now, LogsInv, EventsInv, NEW ids,
         logs' = {a \in logs : a.id \notin ids}, events' = {a \in events : a.id \notin ids},
         \A a \in logs : a.id \in ids => a.at < now,
         \A e \in events : e.id \in ids => e.at < now,
         NEW p, IsRequest(p), ExportOK(p),
         NEW q, q.at = p.at, q.kind = p.kind, q.out = p.out, q.cursor = p.cursor,
         q.tails = p.tails, q.kept = p.kept \ ids
  PROVE  ExportOK(q)'
  <1>1. PICK old : old = Timed(logs)
    OBVIOUS
  <1>2. PICK new : new = Timed(logs')
    OBVIOUS
  <1>3. PICK was : was = events
    OBVIOUS
  <1>4. PICK ev : ev = events'
    OBVIOUS
  <1>5. new = {a \in old : a.id \notin ids}
    BY <1>1, <1>2 DEF Timed
  <1>6. \A a \in old : a.at \in Nat /\ (a.id \in ids => a.at < now)
    BY <1>1 DEF Timed, LogsInv, IsRow
  <1>7. /\ ev = {a \in was : a.id \notin ids}
        /\ \A e \in was : e.at \in Nat /\ (e.id \in ids => e.at < now)
    BY <1>3, <1>4 DEF EventsInv
  <1>8. Exported(q) = Exported(p)
    BY DEF Exported
  <1>9. ASSUME p.at = "logs" PROVE CollectOK(q, new, LogIds)'
    <2>1. CollectOK(p, old, LogIds)
      BY <1>1, <1>9 DEF ExportOK
    <2>2. QED
      BY <1>5, <1>6, <2>1, CollectShrinks
  <1>10. ASSUME p.at = "events" PROVE CollectOK(q, ev, EventIds)'
    <2>1. CollectOK(p, was, EventIds)
      BY <1>3, <1>10 DEF ExportOK
    <2>2. QED
      BY <1>7, <2>1, CollectShrinks
  <1>11. \A c : /\ \A a \in new : a \in Beyond(old, c) => a \in Beyond(new, c)
                /\ \A e \in ev : e \in Beyond(was, c) => e \in Beyond(ev, c)
    BY DEF Beyond
  <1>12. /\ NoneTwice(q.out)
         /\ q.at \in {"logs", "events", "event"} =>
               /\ q.kind = "logs" => q.kept \intersect EventIds = {}
               /\ q.kind = "events" => q.kept \intersect LogIds = {}
               /\ q.kept \intersect EventIds \subseteq IdsOf(ev)
               /\ q.kept \intersect LogIds \subseteq IdsOf(new)
    <2>1. IdsOf(was) \ ids \subseteq IdsOf(ev) /\ IdsOf(old) \ ids \subseteq IdsOf(new)
      BY <1>5, <1>7 DEF IdsOf
    <2>2. QED
      BY <1>1, <1>3, <2>1 DEF ExportOK
  <1>13. ASSUME q.at = "logs"
         PROVE  /\ q.kind # "events" /\ Exported(q) \subseteq LogIds
                /\ NoneLost(q, new, "logs")
    BY <1>1, <1>5, <1>8, <1>11, <1>13 DEF ExportOK, NoneLost
  <1>14. ASSUME q.at = "events" PROVE NoneLost(q, ev, "events")
    BY <1>3, <1>7, <1>8, <1>11, <1>14 DEF ExportOK, NoneLost
  <1>15. /\ q.at \in {"events", "event"} =>
               (Len(q.out) < MaxExport => NoneMissing(q, new, "logs"))
         /\ q.at = "event" => (Len(q.out) < MaxExport => NoneMissing(q, ev, "events"))
    BY <1>1, <1>3, <1>5, <1>7, <1>8 DEF ExportOK, NoneMissing
  <1>16. /\ q.at = "logs" => NoneLost(q, new, "logs")'
         /\ q.at = "events" => NoneLost(q, ev, "events")'
         /\ q.at \in {"events", "event"} =>
               (Len(q.out) < MaxExport => NoneMissing(q, new, "logs")')
         /\ q.at = "event" => (Len(q.out) < MaxExport => NoneMissing(q, ev, "events")')
    BY <1>13, <1>14, <1>15 DEF NoneLost, NoneMissing
  <1>17. QED
    BY <1>2, <1>4, <1>9, <1>10, <1>12, <1>13, <1>16 DEF ExportOK

(* Deleting old rows. *)
LEMMA DeleteStep ==
  ASSUME IInv, NEW ids, Delete(ids),
         ids \in SUBSET Old(logs, DeleteAge) \/ ids \in SUBSET Old(events, DeleteAge)
  PROVE  IInv'
  <1>1. /\ logs' = {a \in logs : a.id \notin ids} /\ events' = {a \in events : a.id \notin ids}
        /\ req' = [r \in Requests |-> [req[r] EXCEPT !.kept = @ \ ids]]
        /\ UNCHANGED <<lock, now, origin, orderly>>
    BY DEF Delete, Outside
  <1>2. now \in Nat /\ OriginInv /\ LogsInv /\ EventsInv /\ OrderInv
    BY DEF IInv
  <1>3. /\ \A a \in logs : a.id \in ids => a.at < now
        /\ \A e \in events : e.id \in ids => e.at < now
    BY OldRows
  <1>4. logs' \in SUBSET logs /\ events' \in SUBSET events /\ Chained(logs') \subseteq Chained(logs)
    BY <1>1 DEF Chained
  <1>5. OriginInv'
    BY <1>1, <1>2 DEF OriginInv, LinkOK
  <1>6. LogsInv'
    <2>1. IsFiniteSet(logs')
      BY <1>2, <1>4, FS_Subset DEF LogsInv
    <2>2. (\A a \in logs' : IsRow(a) /\ a.at <= now) /\ UniqueIds(logs')
      BY <1>2, <1>4 DEF LogsInv, UniqueIds
    <2>3. \A a \in Chained(logs') : \E o \in origin : WrittenAs(a, o)
      BY <1>2, <1>4 DEF LogsInv
    <2>4. ASSUME NEW o \in origin, o.row.id \in IdsOf(logs')
          PROVE  \E a \in Chained(logs') : a.id = o.row.id
      <3>1. o.row.id \in IdsOf(logs) /\ o.row.id \notin ids
        BY <1>1, <2>4 DEF IdsOf
      <3>2. PICK a \in Chained(logs) : a.id = o.row.id
        BY <1>2, <3>1 DEF LogsInv
      <3>3. a \in Chained(logs')
        BY <1>1, <3>1, <3>2 DEF Chained
      <3>4. QED
        BY <3>2, <3>3
    <2>5. ASSUME NEW o \in origin, o.row.id \notin IdsOf(logs') PROVE o.row.at < now
      <3>1. CASE o.row.id \notin IdsOf(logs)
        BY <1>2, <3>1 DEF LogsInv
      <3>2. CASE o.row.id \in IdsOf(logs)
        <4>1. PICK a \in Chained(logs) : a.id = o.row.id
          BY <1>2, <3>2 DEF LogsInv
        <4>2. WrittenAs(a, o)
          BY <1>2, <4>1, OneOrigin DEF LogsInv
        <4>3. a \in logs /\ a \notin logs'
          BY <2>5, <4>1 DEF Chained, IdsOf
        <4>4. a.at < now
          BY <1>1, <1>3, <4>3
        <4>5. QED
          BY <4>2, <4>4 DEF WrittenAs
      <3>3. QED
        BY <3>1, <3>2
    <2>6. QED
      BY <1>1, <2>1, <2>2, <2>3, <2>4, <2>5 DEF LogsInv
  <1>7. EventsInv'
    <2>1. IsFiniteSet(events')
      BY <1>2, <1>4, FS_Subset DEF EventsInv
    <2>2. QED
      BY <1>1, <1>2, <1>4, <2>1 DEF EventsInv, UniqueIds
  <1>8. OrderInv'
    BY <1>1, <1>2, <1>4 DEF OrderInv, NoneBetween
  <1>9. ASSUME NEW p, IsRequest(p), HandlerOK(p), NEW q, q = [p EXCEPT !.kept = @ \ ids]
        PROVE  IsRequest(q) /\ q.at = p.at /\ HandlerOK(q)'
    <2>1. RequestShape(p)
      BY <1>9 DEF IsRequest
    <2>2. /\ RequestShape(q)
          /\ q.at = p.at /\ q.kind = p.kind /\ q.out = p.out /\ q.counted = p.counted
          /\ q.cursor = p.cursor /\ q.rows = p.rows /\ q.prev = p.prev /\ q.pred = p.pred
          /\ q.kept = p.kept \ ids /\ q.tails = p.tails
      BY <1>9, <2>1 DEF RequestShape
    <2>3. IsRequest(q)
      BY <1>9, <2>2 DEF IsRequest
    <2>4. InsertOK(q)'
      BY <1>1, <1>4, <1>9, <2>2 DEF HandlerOK, InsertOK, LinkOK
    <2>5. RangeOK(q)'
      BY <1>1, <1>9, <2>2 DEF HandlerOK, RangeOK, NoneBetween
    <2>6. ExportOK(q)'
      BY <1>1, <1>2, <1>3, <1>9, <2>2, ExportShrinks DEF HandlerOK
    <2>7. QED
      BY <2>2, <2>3, <2>4, <2>5, <2>6 DEF HandlerOK
  <1>10. ASSUME NEW s \in Requests
         PROVE  IsRequest(req'[s]) /\ req'[s].at = req[s].at /\ HandlerOK(req[s])'
    <2>1. PICK p : p = req[s]
      OBVIOUS
    <2>2. PICK q : q = [p EXCEPT !.kept = @ \ ids]
      OBVIOUS
    <2>3. req'[s] = q
      BY <1>1, <2>1, <2>2
    <2>4. IsRequest(p) /\ HandlerOK(p)
      BY <2>1 DEF IInv, RequestsInv
    <2>5. IsRequest(q) /\ q.at = p.at /\ HandlerOK(q)'
      BY <1>9, <2>2, <2>4
    <2>6. QED
      BY <2>1, <2>3, <2>5
  <1>11. RequestsInv'
    <2>1. req' = [s \in Requests |-> req'[s]]
      BY <1>1
    <2>2. QED
      BY <1>10, <2>1 DEF RequestsInv
  <1>12. LockHeld'
    BY <1>1, <1>10 DEF IInv, LockHeld
  <1>13. QED
    BY <1>1, <1>2, <1>5, <1>6, <1>7, <1>8, <1>10, <1>11, <1>12 DEF IInv

-----------------------------------------------------------------------------
(* The invariant. *)

(* Every step keeps the invariant. *)
LEMMA NextInv ==
  ASSUME IInv, [Next]_vars
  PROVE  IInv'
  <1>1. CASE \E r \in Requests, from \in 0..now, to \in 0..now : VerifyRange(r, from, to)
    BY <1>1, VerifyStep
  <1>2. CASE \E r \in Requests, kind \in {"logs", "events", "both"} : CreateExport(r, kind)
    BY <1>2, ExportStep
  <1>3. CASE \E r \in Requests, id \in FreeIds : InsertAuditLog(r, id)
    BY <1>3, InsertStep
  <1>4. CASE \E r \in Requests : VerifyPrevious(r) \/ Fail(r)
    BY <1>4, EndSteps
  <1>5. CASE \E r \in Requests : CollectAuditLogs(r)
    BY <1>5, CollectLogsStep
  <1>6. CASE \E r \in Requests : CollectSecurityEvents(r)
    BY <1>6, CollectEventsStep
  <1>7. CASE \E r \in Requests : LockAuditChain(r)
    BY <1>7, LockStep
  <1>8. CASE \E r \in Requests, id \in FreeEventIds : RecordEvent(r, id)
    BY <1>8, RecordEventStep
  <1>9. CASE \E id \in FreeIds : Write(id) \/ WriteRetention(id)
    BY <1>9, WriteStep
  <1>10. CASE \E id \in FreeEventIds : WriteEvent(id)
    BY <1>10, WriteEventStep
  <1>11. CASE \E ids, body : Edit(ids, body)
    BY <1>11, EditStep
  <1>12. CASE \E ids : /\ Delete(ids)
                       /\ \/ ids \in SUBSET Old(logs, DeleteAge)
                          \/ ids \in SUBSET Old(events, DeleteAge)
    BY <1>12, DeleteStep
  <1>13. CASE Tick
    BY <1>13, TickStep
  <1>14. CASE UNCHANGED vars
    <2>1. UNCHANGED <<logs, events, lock, req, now, origin, orderly>>
      BY <1>14 DEF vars
    <2>2. /\ OriginInv' /\ LogsInv' /\ EventsInv' /\ OrderInv' /\ now' \in Nat
          /\ \A p : HandlerOK(p) => HandlerOK(p)'
      BY <2>1, TablesKept DEF IInv
    <2>3. RequestsInv' /\ LockHeld' /\ \A s \in Requests : HandlerOK(req[s])'
      BY <2>1, <2>2, HandlersStay
    <2>4. QED
      BY <2>2, <2>3 DEF IInv
  <1>15. QED
    BY <1>1, <1>2, <1>3, <1>4, <1>5, <1>6, <1>7, <1>8, <1>9, <1>10, <1>11, <1>12,
       <1>13, <1>14 DEF Next

(* The rows there are at the start. *)
FirstRowOK(i) ==
    /\ IsRow(FirstChain[i]) /\ FirstChain[i].at <= 1
    /\ FirstChain[i].chained = TRUE /\ FirstChain[i].body = "full"
    /\ FirstChain[i].prev = (IF i = 1 THEN NoHash ELSE FirstChain[i - 1].hash)
    /\ FirstChain[i].hash = Digest(FirstChain[i])
    /\ FirstChain[i].id \in LogIds /\ FirstChain[i].id \notin FirstPlain

(* The rows of the first chain are rows as createAuditLog writes them. *)
LEMMA FirstRows ==
  ASSUME NEW i \in 1..Len(FirstChain)
  PROVE  FirstRowOK(i)
  <1>1. PICK a : a = FirstChain[i]
    OBVIOUS
  <1>2. PICK prev : prev = IF i = 1 THEN NoHash ELSE FirstChain[i - 1].hash
    OBVIOUS
  <1>3. PICK x : x = a.id
    OBVIOUS
  <1>4. PICK t : t = a.at
    OBVIOUS
  <1>5. a = Chain(x, t, prev) /\ x \in LogIds /\ x \notin FirstPlain /\ t \in {0, 1}
    <2>1. /\ FirstChain[i] = Chain(FirstChain[i].id, FirstChain[i].at,
                                   IF i = 1 THEN NoHash ELSE FirstChain[i - 1].hash)
          /\ FirstChain[i].id \in LogIds \ FirstPlain
          /\ FirstChain[i].at \in {0, 1}
      BY FirstRowsAssumption
    <2>2. a = Chain(x, t, prev)
      BY <1>1, <1>2, <1>3, <1>4, <2>1, Zenon
    <2>3. QED
      BY <1>1, <1>3, <1>4, <2>1, <2>2
  <1>6. t \in Nat /\ t <= 1
    BY <1>5
  <1>7. Linked(a, x, t, prev)
    BY <1>5, <1>6, ChainRow
  <1>8. /\ IsRow(a) /\ a.chained = TRUE /\ a.body = "full"
        /\ a.prev = prev /\ a.hash = Digest(a)
    BY <1>7 DEF Linked
  <1>9. a.at <= 1 /\ a.id \in LogIds /\ a.id \notin FirstPlain
    BY <1>3, <1>4, <1>5, <1>6
  <1>10. QED
    BY <1>1, <1>2, <1>8, <1>9, Zenon DEF FirstRowOK

(* They are in the order in which they were written. *)
LEMMA FirstOrder ==
  ASSUME NEW i \in 1..Len(FirstChain), NEW j \in 1..Len(FirstChain)
  PROVE  /\ FirstChain[i].id = FirstChain[j].id => i = j
         /\ j < i => Before(FirstChain[j], FirstChain[i])
         /\ Before(FirstChain[j], FirstChain[i]) => j < i
  <1>1. i \in Nat /\ j \in Nat /\ IsRow(FirstChain[i]) /\ IsRow(FirstChain[j])
    <2>1. FirstRowOK(i) /\ FirstRowOK(j)
      BY FirstRows
    <2>2. QED
      BY <2>1, FirstRowsAssumption DEF FirstRowOK
  <1>2. /\ j < i => /\ Before(FirstChain[j], FirstChain[i])
                    /\ FirstChain[j].id # FirstChain[i].id
        /\ i < j => /\ Before(FirstChain[i], FirstChain[j])
                    /\ FirstChain[i].id # FirstChain[j].id
    <2>1. (j < i => j \in 1..(i - 1)) /\ (i < j => i \in 1..(j - 1))
      BY FirstRowsAssumption
    <2>2. QED
      BY <2>1, FirstRowsAssumption
  <1>3. ~Before(FirstChain[i], FirstChain[i])
    BY <1>1, BeforeIsOrder
  <1>4. Before(FirstChain[i], FirstChain[j]) => ~Before(FirstChain[j], FirstChain[i])
    BY <1>1, BeforeIsOrder
  <1>5. i = j \/ i < j \/ j < i
    BY <1>1
  <1>6. QED
    BY <1>1, <1>2, <1>3, <1>4, <1>5

(* The sets of them are finite. *)
LEMMA FirstFinite ==
  /\ IsFiniteSet({FirstChain[i] : i \in 1..Len(FirstChain)})
  /\ IsFiniteSet({FirstOther(id) : id \in FirstPlain})
  <1>1. IsFiniteSet(1..Len(FirstChain))
    BY FS_Interval, FirstRowsAssumption
  <1>2. PICK S : S = 1..Len(FirstChain)
    OBVIOUS
  <1>3. PICK T : T = {FirstChain[i] : i \in S}
    OBVIOUS
  <1>4. PICK f : f = [i \in S |-> FirstChain[i]]
    OBVIOUS
  <1>5. f \in [S -> T] /\ \A t \in T : \E i \in S : f[i] = t
    BY <1>3, <1>4
  <1>6. IsFiniteSet(T)
    <2>1. f \in Surjection(S, T)
      BY <1>5, Fun_IsSurj
    <2>2. QED
      BY <1>1, <1>2, <2>1, FS_Surjection
  <1>7. PICK P : P = {FirstOther(id) : id \in FirstPlain}
    OBVIOUS
  <1>8. PICK g : g = [id \in FirstPlain |-> FirstOther(id)]
    OBVIOUS
  <1>9. g \in [FirstPlain -> P] /\ \A t \in P : \E id \in FirstPlain : g[id] = t
    BY <1>7, <1>8
  <1>10. IsFiniteSet(P)
    <2>1. g \in Surjection(FirstPlain, P)
      BY <1>9, Fun_IsSurj
    <2>2. QED
      BY <2>1, FS_Surjection, AuditLogAssumption
  <1>11. QED
    BY <1>2, <1>3, <1>6, <1>7, <1>10

(* The invariant holds at the start. *)
LEMMA InitInv ==
  ASSUME Init
  PROVE  IInv
  <1> DEFINE N == Len(FirstChain)
             c(i) == FirstChain[i]
             pred(i) == IF i = 1 THEN None ELSE FirstChain[i - 1].id
             firsts == {FirstChain[i] : i \in 1..N}
             plains == {FirstOther(id) : id \in FirstPlain}
  <1>1. /\ logs = firsts \union plains
        /\ origin = {[row |-> c(i), pred |-> pred(i)] : i \in 1..N}
        /\ events = FirstEvents /\ lock = None /\ now = 1 /\ orderly = TRUE
        /\ req = [r \in Requests |-> Idle]
    BY DEF Init
  <1>2. N \in Nat
    BY FirstRowsAssumption
  <1>3. now \in Nat
    BY <1>1
  <1>4. \A i \in 1..N : FirstRowOK(i)
    BY FirstRows
  <1>5. \A i, j \in 1..N : /\ c(i).id = c(j).id => i = j
                           /\ j < i => Before(c(j), c(i))
                           /\ Before(c(j), c(i)) => j < i
    BY FirstOrder
  <1>6. ASSUME NEW id \in FirstPlain
        PROVE  /\ IsRow(FirstOther(id)) /\ FirstOther(id).id = id
               /\ FirstOther(id).chained = FALSE /\ FirstOther(id).at = 1
    <2>1. id \in LogIds
      BY AuditLogAssumption
    <2>2. PICK n : n = FirstOther(id)
      OBVIOUS
    <2>3. n = Plain(id, 1, 0) \/ n = Plain(id, 1, 1)
      BY <2>2 DEF FirstOther
    <2>4. IsRow(n) /\ n.id = id /\ n.chained = FALSE
      BY <2>1, <2>3, PlainRow
    <2>5. n.at = 1
      BY <2>3 DEF Plain
    <2>6. QED
      BY <2>2, <2>4, <2>5
  <1>7. \A a \in firsts : \E i \in 1..N : a = c(i)
    OBVIOUS
  <1>8. \A o \in origin : \E i \in 1..N : /\ o.row = c(i) /\ o.pred = pred(i)
                                          /\ o = [row |-> o.row, pred |-> o.pred]
    BY <1>1
  <1>9. \A i \in 1..N : \E o \in origin : o.row = c(i) /\ o.pred = pred(i)
    <2>1. ASSUME NEW i \in 1..N PROVE \E o \in origin : o.row = c(i) /\ o.pred = pred(i)
      <3>1. PICK o : o = [row |-> c(i), pred |-> pred(i)]
        OBVIOUS
      <3>2. o \in origin
        BY <1>1, <3>1
      <3>3. o.row = c(i) /\ o.pred = pred(i)
        BY <3>1
      <3>4. QED
        BY <3>2, <3>3
    <2>2. QED
      BY <2>1
  <1>10. \A i \in 1..N : c(i) \in logs
    BY <1>1
  <1>11. \A a \in logs : (\E i \in 1..N : a = c(i)) \/ (\E id \in FirstPlain : a = FirstOther(id))
    BY <1>1
  <1>12. \A i \in 1..N : i # 1 => i - 1 \in 1..N /\ i - 1 < i
    BY <1>2
  <1>13. \A i \in 1..N : c(i).id # None /\ c(i).id \in LogIds
    BY <1>4, AuditLogAssumption DEF FirstRowOK
  <1>14. IsFiniteSet(logs)
    BY <1>1, FirstFinite, FS_Union
  <1> HIDE DEF firsts, plains
  <1>15. \A o, p \in origin : o.row.id = p.row.id => o = p
    <2>1. ASSUME NEW o \in origin, NEW p \in origin, o.row.id = p.row.id PROVE o = p
      <3>1. PICK i \in 1..N : /\ o.row = c(i) /\ o.pred = pred(i)
                              /\ o = [row |-> o.row, pred |-> o.pred]
        BY <1>8
      <3>2. PICK j \in 1..N : /\ p.row = c(j) /\ p.pred = pred(j)
                              /\ p = [row |-> p.row, pred |-> p.pred]
        BY <1>8
      <3>3. i = j
        BY <1>5, <2>1, <3>1, <3>2
      <3>4. QED
        BY <3>1, <3>2, <3>3
    <2>2. QED
      BY <2>1
  <1>16. OriginInv
    <2>1. ASSUME NEW o \in origin
          PROVE  /\ o = [row |-> o.row, pred |-> o.pred]
                 /\ IsRow(o.row) /\ o.row.chained = TRUE /\ o.row.body = "full"
                 /\ o.row.hash = Digest(o.row)
                 /\ o.row.at <= now
                 /\ LinkOK(o.row.prev, o.pred)
      <3>1. PICK i \in 1..N : /\ o.row = c(i) /\ o.pred = pred(i)
                              /\ o = [row |-> o.row, pred |-> o.pred]
        BY <1>8
      <3>2. FirstRowOK(i)
        BY <1>4
      <3>3. /\ IsRow(o.row) /\ o.row.chained = TRUE /\ o.row.body = "full"
            /\ o.row.hash = Digest(o.row) /\ o.row.at <= now
        BY <1>1, <3>1, <3>2 DEF FirstRowOK
      <3>4. o.row.prev = IF i = 1 THEN NoHash ELSE FirstChain[i - 1].hash
        BY <3>1, <3>2 DEF FirstRowOK
      <3>5. LinkOK(o.row.prev, o.pred)
        <4>1. CASE i = 1
          BY <3>1, <3>4, <4>1 DEF LinkOK
        <4>2. CASE i # 1
          <5>1. PICK p \in origin : p.row = c(i - 1)
            BY <1>9, <1>12, <4>2
          <5>2. o.pred = p.row.id /\ o.row.prev = p.row.hash /\ o.pred # None
            BY <1>12, <1>13, <3>1, <3>4, <4>2, <5>1
          <5>3. QED
            BY <5>2 DEF LinkOK
        <4>3. QED
          BY <4>1, <4>2
      <3>6. QED
        BY <3>1, <3>3, <3>5
    <2>2. QED
      BY <1>15, <2>1 DEF OriginInv
  <1>17. \A i \in 1..N : c(i) \in Chained(logs)
    BY <1>4, <1>10 DEF Chained, FirstRowOK
  <1>18. \A a \in Chained(logs) : \E i \in 1..N : a = c(i)
    BY <1>6, <1>11 DEF Chained
  <1>19. LogsInv
    <2>1. \A a \in logs : IsRow(a) /\ a.at <= now
      <3>1. \A i \in 1..N : IsRow(c(i)) /\ c(i).at <= 1
        BY <1>4 DEF FirstRowOK
      <3>2. \A id \in FirstPlain : IsRow(FirstOther(id)) /\ FirstOther(id).at <= 1
        <4>1. ASSUME NEW id \in FirstPlain PROVE IsRow(FirstOther(id)) /\ FirstOther(id).at = 1
          BY <1>6
        <4>2. QED
          BY <4>1
      <3>3. QED
        BY <1>1, <1>11, <3>1, <3>2
    <2>2. UniqueIds(logs)
      <3>1. ASSUME NEW a \in logs, NEW b \in logs, a.id = b.id PROVE a = b
        <4>1. CASE \E i \in 1..N : a = c(i)
          <5>1. PICK i \in 1..N : a = c(i)
            BY <4>1
          <5>2. a.id \notin FirstPlain
            BY <1>4, <5>1 DEF FirstRowOK
          <5>3. PICK j \in 1..N : b = c(j)
            <6>1. \A x \in FirstPlain : b # FirstOther(x)
              <7>1. \A x \in FirstPlain : FirstOther(x).id = x
                BY <1>6
              <7>2. QED
                BY <3>1, <5>2, <7>1
            <6>2. QED
              BY <1>11, <6>1
          <5>4. QED
            BY <1>5, <3>1, <5>1, <5>3
        <4>2. CASE \E x \in FirstPlain : a = FirstOther(x)
          <5>1. PICK x \in FirstPlain : a = FirstOther(x)
            BY <4>2
          <5>2. a.id = x
            BY <1>6, <5>1
          <5>3. \A i \in 1..N : b # c(i)
            BY <1>4, <3>1, <5>2 DEF FirstRowOK
          <5>4. PICK y \in FirstPlain : b = FirstOther(y)
            BY <1>11, <5>3
          <5>5. x = y
            BY <1>6, <3>1, <5>2, <5>4
          <5>6. QED
            BY <5>1, <5>4, <5>5
        <4>3. QED
          BY <1>11, <4>1, <4>2
      <3>2. QED
        BY <3>1 DEF UniqueIds
    <2>3. \A a \in Chained(logs) : \E o \in origin : WrittenAs(a, o)
      BY <1>9, <1>18 DEF WrittenAs
    <2>4. \A o \in origin : /\ \E a \in Chained(logs) : a.id = o.row.id
                            /\ o.row.id \in IdsOf(logs)
      BY <1>8, <1>10, <1>17 DEF IdsOf
    <2>5. QED
      BY <1>14, <2>1, <2>2, <2>3, <2>4 DEF LogsInv
  <1>20. EventsInv
    BY <1>1, FirstRowsAssumption DEF EventsInv, UniqueIds
  <1>21. OrderInv
    <2>1. ASSUME NEW o \in origin
          PROVE  /\ \A p \in origin : p.row.id = o.pred => Before(p.row, o.row)
                 /\ NoneBetween(Chained(logs), o.row, o.pred)
      <3>1. PICK i \in 1..N : o.row = c(i) /\ o.pred = pred(i)
        BY <1>8
      <3>2. ASSUME NEW p \in origin, p.row.id = o.pred
            PROVE  i # 1 /\ p.row = c(i - 1)
        <4>1. PICK j \in 1..N : p.row = c(j)
          BY <1>8
        <4>2. i # 1
          BY <1>13, <3>1, <3>2, <4>1
        <4>3. c(j).id = c(i - 1).id /\ i - 1 \in 1..N
          BY <1>12, <3>1, <3>2, <4>1, <4>2
        <4>4. j = i - 1
          BY <1>5, <4>3
        <4>5. QED
          BY <4>1, <4>2, <4>4
      <3>3. \A p \in origin : p.row.id = o.pred => Before(p.row, o.row)
        BY <1>5, <1>12, <3>1, <3>2
      <3>4. ASSUME NEW a \in Chained(logs), Before(a, o.row)
            PROVE  /\ o.pred # None
                   /\ \A p \in origin : p.row.id = o.pred => ~Before(p.row, a)
        <4>1. PICK j \in 1..N : a = c(j)
          BY <1>18
        <4>2. j < i
          BY <1>5, <3>1, <3>4, <4>1
        <4>3. i # 1 /\ i - 1 \in 1..N /\ ~(i - 1 < j)
          BY <1>2, <4>2
        <4>4. o.pred # None
          BY <1>13, <3>1, <4>3
        <4>5. ~Before(c(i - 1), c(j))
          BY <1>5, <4>3
        <4>6. QED
          BY <3>2, <4>1, <4>4, <4>5
      <3>5. QED
        BY <3>3, <3>4 DEF NoneBetween
    <2>2. QED
      BY <2>1 DEF OrderInv
  <1>22. \A r \in Requests : req[r] = Idle
    BY <1>1
  <1>23. RequestsInv
    <2>1. req = [r \in Requests |-> req[r]]
      BY <1>1
    <2>2. QED
      BY <1>22, <2>1, IdleOK DEF RequestsInv
  <1>24. LockHeld /\ \A r \in Requests : HandlerOK(req[r])
    BY <1>22, IdleOK DEF LockHeld
  <1>25. QED
    BY <1>3, <1>16, <1>19, <1>20, <1>21, <1>23, <1>24 DEF IInv

(* The tables and the handlers are as the parts of IInv say at every time:   *)
(* what the two theorems below rest on.                                      *)
THEOREM Invariance == Spec => []IInv
  <1>1. Init => IInv
    BY InitInv
  <1>2. IInv /\ [Next]_vars => IInv'
    BY NextInv
  <1>3. QED
    BY <1>1, <1>2, PTL DEF Spec

-----------------------------------------------------------------------------
(* What the invariant gives. *)

(* What an export without repetitions has, it has once. *)
LEMMA TimesInExport ==
  ASSUME NEW s \in Seq(LogIds \union EventIds), NoneTwice(s), NEW x
  PROVE  /\ Times(s, x) <= 1
         /\ x \in Entries(s) => Times(s, x) = 1
  <1>1. PICK places : places = {i \in 1..Len(s) : s[i] = x}
    OBVIOUS
  <1>2. DOMAIN s = 1..Len(s)
    OBVIOUS
  <1>3. Times(s, x) = Cardinality(places)
    BY <1>1, <1>2 DEF Times
  <1>4. CASE places = {}
    <2>1. Cardinality(places) = 0
      BY <1>4, FS_EmptySet
    <2>2. x \notin Entries(s)
      BY <1>1, <1>4 DEF Entries
    <2>3. QED
      BY <1>3, <2>1, <2>2
  <1>5. CASE places # {}
    <2>1. PICK i : i \in places
      BY <1>5
    <2>2. places = {i}
      BY <1>1, <2>1 DEF NoneTwice
    <2>3. Cardinality(places) = 1
      BY <2>2, FS_Singleton
    <2>4. QED
      BY <1>3, <2>3
  <1>6. QED
    BY <1>4, <1>5

(* An export that is done and not truncated is complete. *)
LEMMA ExportIsComplete ==
  ASSUME IInv
  PROVE  ExportComplete
  <1>1. SUFFICES ASSUME NEW r \in Requests, req[r].at = "event", Len(req[r].out) < MaxExport,
                        NEW x \in LogIds \union EventIds
                 PROVE  /\ Times(req[r].out, x) <= 1
                        /\ x \in req[r].kept /\ ~InTail(req[r], x) => Times(req[r].out, x) = 1
    BY DEF ExportComplete
  <1>2. PICK q : q = req[r]
    OBVIOUS
  <1>3. IsRequest(q) /\ ExportOK(q) /\ q.at = "event" /\ Len(q.out) < MaxExport
    BY <1>1, <1>2 DEF IInv, RequestsInv, HandlerOK
  <1>4. /\ Times(q.out, x) <= 1
        /\ x \in Exported(q) => Times(q.out, x) = 1
    <2>1. q.out \in Seq(LogIds \union EventIds) /\ NoneTwice(q.out)
      BY <1>3 DEF IsRequest, ExportOK
    <2>2. QED
      BY <2>1, TimesInExport DEF Exported
  <1>5. /\ q.kept \intersect LogIds \subseteq IdsOf(Timed(logs))
        /\ q.kept \intersect EventIds \subseteq IdsOf(events)
        /\ NoneMissing(q, Timed(logs), "logs") /\ NoneMissing(q, events, "events")
    BY <1>3 DEF ExportOK
  <1>6. ASSUME x \in q.kept, ~InTail(q, x)
        PROVE  x \in Exported(q)
    <2>1. CASE x \in LogIds
      <3>1. PICK t \in Timed(logs) : t.id = x
        BY <1>5, <1>6, <2>1 DEF IdsOf
      <3>2. PICK a \in logs : a.id = t.id /\ a.at = t.at
        BY <3>1 DEF Timed
      <3>3. QED
        BY <1>5, <1>6, <3>1, <3>2 DEF NoneMissing, InTail
    <2>2. CASE x \in EventIds
      <3>1. PICK e \in events : e.id = x
        BY <1>5, <1>6, <2>2 DEF IdsOf
      <3>2. QED
        BY <1>5, <1>6, <3>1 DEF NoneMissing, InTail
    <2>3. QED
      BY <1>1, <2>1, <2>2
  <1>7. QED
    BY <1>2, <1>4, <1>6

(* verifyIntegrityRange, for any log, any number of handlers and however     *)
(* retention, account removal and exports come between its two reads: as     *)
(* long as rows were written in the order of their timestamps and ids, the   *)
(* verdict is positive just if every row of the range is as it was written   *)
(* and the row it was linked to is still there.                              *)
THEOREM VerdictsAreExact == Spec => []VerifyExact
  <1>1. IInv => VerifyExact
    BY VerdictIsExact DEF VerifyExact
  <1>2. QED
    BY <1>1, Invariance, PTL

(* createExport, for any page size and whatever is written and deleted       *)
(* between its pages: an export below EXPORT_MAX_RECORDS has no row twice,   *)
(* and every row that was there all the time once, but for rows of the       *)
(* millisecond of an event or of a row of the retention job at which a full  *)
(* page of their table ended.                                                *)
THEOREM ExportsAreComplete == Spec => []ExportComplete
  <1>1. IInv => ExportComplete
    BY ExportIsComplete
  <1>2. QED
    BY <1>1, Invariance, PTL
=============================================================================
