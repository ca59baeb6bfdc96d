-------------------------- MODULE StatsTableProofs --------------------------
(***************************************************************************)
(* Proofs about StatsTable, for any ids, sizes and width of int, any hash  *)
(* table and any number of objects: types, one record per request, what    *)
(* the list holds, what is freed, and that the table implements            *)
(* RequestTally.                                                           *)
(***************************************************************************)
EXTENDS StatsTable, FiniteSetTheorems, TLAPS

USE WidthAssumption

-----------------------------------------------------------------------------
\* Arithmetic.

\* The product of the bucket computation is a natural number.
LEMMA BucketCountType == BucketCount \in Nat
<1>1. \A a, b \in Nat : a * b \in Nat
  OBVIOUS
<1> QED
  BY <1>1, BucketAssumption DEF BucketCount

\* An int holds what ToInt returns, and ToInt keeps what an int holds.
LEMMA RemainderRange ==
  ASSUME NEW n \in Int, NEW d \in Nat \ {0}
  PROVE  n % d \in 0 .. d - 1
OBVIOUS

\* The remainder of a number below the modulus is the number.
LEMMA RemainderSmall ==
  ASSUME NEW d \in Nat \ {0}, NEW n \in 0 .. d - 1
  PROVE  n % d = n
OBVIOUS

\* What is cut to an int is an int.
LEMMA ToIntRange ==
  ASSUME NEW n \in Int
  PROVE  ToInt(n) \in -MaxInt - 1 .. MaxInt
<1>1. 2 * (MaxInt + 1) \in Nat \ {0}
  OBVIOUS
<1>2. n + MaxInt + 1 \in Int
  OBVIOUS
<1>3. (n + MaxInt + 1) % (2 * (MaxInt + 1)) \in 0 .. 2 * (MaxInt + 1) - 1
  BY <1>1, <1>2, RemainderRange
<1> QED
  BY <1>3 DEF ToInt

\* Cutting changes no int.
LEMMA ToIntFits ==
  ASSUME NEW n \in -MaxInt - 1 .. MaxInt
  PROVE  ToInt(n) = n
<1>1. 2 * (MaxInt + 1) \in Nat \ {0}
  OBVIOUS
<1>2. n + MaxInt + 1 \in 0 .. 2 * (MaxInt + 1) - 1
  OBVIOUS
<1>3. (n + MaxInt + 1) % (2 * (MaxInt + 1)) = n + MaxInt + 1
  BY <1>1, <1>2, RemainderSmall
<1> QED
  BY <1>3 DEF ToInt

-----------------------------------------------------------------------------
\* The chain of a bucket.

\* Records whose counts are at most n, in a chain of at most n records.
Bounded(chain, n) ==
    /\ chain \in Seq(Record)
    /\ Len(chain) <= n
    /\ \A k \in DOMAIN chain : chain[k].objectCount <= n /\ chain[k].arrayCount <= n
\* The records of a chain are those of different ids that belong into bucket s.
Distinct(chain, s) ==
    /\ \A k \in DOMAIN chain : Bucket(chain[k].requestId) = s
    /\ \A j, k \in DOMAIN chain : chain[j].requestId = chain[k].requestId => j = k
\* The chain in which the record of tag has been looked up, after the visit.
Visited(chain, tag, size, isArray) ==
    [k \in DOMAIN chain |->
        IF chain[k].requestId = tag THEN Count(chain[k], size, isArray) ELSE chain[k]]
\* A record with one more object.
Counted(r, size, isArray) ==
    [requestId |-> r.requestId,
     objectCount |-> r.objectCount + (IF isArray THEN 0 ELSE 1),
     arrayCount |-> r.arrayCount + (IF isArray THEN 1 ELSE 0),
     memoryUsed |-> ToInt(r.memoryUsed + size)]
\* The ids in a chain, and the records of an id.
IdsOf(chain) == {chain[k].requestId : k \in DOMAIN chain}
RecordsIn(chain, id) == {r \in Range(chain) : r.requestId = id}

\* findOrCreateRequestStats: the chain it leaves holds one record of the id, the
\* records it held before, and records of no other id.
LEMMA FindOrCreateChain ==
  ASSUME NEW s \in Slots, NEW tag \in Ids, s = Bucket(tag), NEW n \in 0 .. MaxObjects - 1,
         table \in [Slots -> Seq(Record)], Bounded(table[s], n), Distinct(table[s], s)
  PROVE  LET chain == FindOrCreate(s, tag)
         IN  /\ Bounded(chain, n + 1) /\ Distinct(chain, s)
             /\ \A k \in DOMAIN chain : chain[k].objectCount <= n /\ chain[k].arrayCount <= n
             /\ IdsOf(chain) = IdsOf(table[s]) \cup {tag}
             /\ \A id : id # tag => RecordsIn(chain, id) = RecordsIn(table[s], id)
             /\ RecordsIn(chain, tag) = IF RecordsIn(table[s], tag) # {} THEN RecordsIn(table[s], tag)
                                                                      ELSE {NewRecord(tag)}
<1> DEFINE old == table[s]
           head == NewRecord(tag)
           chain == FindOrCreate(s, tag)
<1>1. old \in Seq(Record)
  OBVIOUS
<1>2. CASE Found(s, tag) # {}
  <2>1. chain = old
    BY <1>2 DEF FindOrCreate
  <2>2. tag \in IdsOf(old)
    BY <1>2 DEF Found, IdsOf
  <2>3. Bounded(old, n + 1)
    <3>1. Len(old) \in Nat /\ \A k \in DOMAIN old : old[k] \in Record
      BY <1>1
    <3>2. \A r \in Record : r.objectCount \in Nat /\ r.arrayCount \in Nat
      BY DEF Record
    <3> HIDE DEF old
    <3>3. Bounded(old, n)
      BY DEF old
    <3> QED
      BY <3>1, <3>2, <3>3 DEF Bounded
  <2>4. \A k \in DOMAIN old : old[k].objectCount <= n /\ old[k].arrayCount <= n
    BY DEF Bounded
  <2>5. IdsOf(old) = IdsOf(old) \cup {tag}
    BY <2>2
  <2>6. RecordsIn(old, tag) # {}
    BY <2>2 DEF RecordsIn, IdsOf, Range
  <2> QED
    BY <2>1, <2>3, <2>4, <2>5, <2>6
<1>3. CASE Found(s, tag) = {}
  <2>1. chain = <<head>> \o old
    BY <1>3 DEF FindOrCreate
  <2>2. head \in Record
    BY DEF NewRecord, Record
  <2>3. head.requestId = tag /\ head.objectCount = 0 /\ head.arrayCount = 0
    BY DEF NewRecord
  <2>4. <<head>> \in Seq(Record) /\ Len(<<head>>) = 1 /\ <<head>>[1] = head
    BY <2>2
  <2> HIDE DEF head
  <2>5. /\ chain \in Seq(Record)
        /\ Len(chain) = Len(old) + 1
        /\ chain[1] = head
        /\ \A k \in 2 .. Len(old) + 1 : chain[k] = old[k - 1]
    BY <1>1, <2>1, <2>4
  <2> HIDE DEF chain, old
  <2>6. DOMAIN chain = 1 .. Len(old) + 1 /\ DOMAIN old = 1 .. Len(old) /\ Len(old) \in Nat
    BY <1>1, <2>5
  <2>7. \A k \in DOMAIN chain : k = 1 \/ (k - 1 \in DOMAIN old /\ chain[k] = old[k - 1])
    BY <2>5, <2>6
  <2>8. \A k \in DOMAIN old : old[k].requestId # tag
    BY <1>3 DEF Found, old
  <2>9. \A k \in DOMAIN chain : chain[k].objectCount <= n /\ chain[k].arrayCount <= n
    BY <2>3, <2>5, <2>7 DEF Bounded, old
  <2>10. Bounded(chain, n + 1)
    <3>1. Len(old) <= n
      BY DEF Bounded, old
    <3>2. \A k \in DOMAIN chain : chain[k] \in Record
      BY <2>5
    <3>3. \A r \in Record : r.objectCount \in Nat /\ r.arrayCount \in Nat
      BY DEF Record
    <3> QED
      BY <2>5, <2>6, <2>9, <3>1, <3>2, <3>3 DEF Bounded
  <2>11. Distinct(chain, s)
    <3>1. \A k \in DOMAIN chain : Bucket(chain[k].requestId) = s
      BY <2>3, <2>5, <2>7 DEF Distinct, old
    <3>2. ASSUME NEW j \in DOMAIN chain, NEW k \in DOMAIN chain,
                 chain[j].requestId = chain[k].requestId
          PROVE  j = k
      <4>1. j = 1 <=> k = 1
        BY <2>3, <2>5, <2>7, <2>8, <3>2
      <4>2. \A a, b \in DOMAIN old : old[a].requestId = old[b].requestId => a = b
        BY DEF Distinct, old
      <4>3. CASE j = 1
        BY <4>1, <4>3
      <4>4. CASE j # 1 /\ k # 1
        <5>1. j - 1 \in DOMAIN old /\ k - 1 \in DOMAIN old
          BY <2>7, <4>4
        <5>2. old[j - 1].requestId = old[k - 1].requestId
          BY <2>7, <3>2, <4>4
        <5>3. j - 1 = k - 1
          BY <4>2, <5>1, <5>2
        <5> QED
          BY <2>6, <5>3
      <4> QED
        BY <4>1, <4>3, <4>4
    <3> QED
      BY <3>1, <3>2 DEF Distinct
  <2>12. IdsOf(chain) = IdsOf(old) \cup {tag}
    <3>1. 1 \in DOMAIN chain
      BY <2>6
    <3>2. \A k \in DOMAIN old : k + 1 \in DOMAIN chain /\ chain[k + 1] = old[k]
      BY <2>5, <2>6
    <3>3. ASSUME NEW id \in IdsOf(chain) PROVE id \in IdsOf(old) \cup {tag}
      <4>1. PICK k \in DOMAIN chain : id = chain[k].requestId
        BY DEF IdsOf
      <4>2. CASE k = 1
        BY <2>3, <2>5, <4>1, <4>2
      <4>3. CASE k # 1
        BY <2>7, <4>1, <4>3 DEF IdsOf
      <4> QED
        BY <4>2, <4>3
    <3>4. tag \in IdsOf(chain)
      BY <2>3, <2>5, <3>1 DEF IdsOf
    <3>5. ASSUME NEW id \in IdsOf(old) PROVE id \in IdsOf(chain)
      BY <3>2 DEF IdsOf
    <3> QED
      BY <3>3, <3>4, <3>5
  <2>13. Range(chain) = Range(old) \cup {head}
    <3>1. 1 \in DOMAIN chain /\ chain[1] = head
      BY <2>5, <2>6
    <3>2. \A k \in DOMAIN old : k + 1 \in DOMAIN chain /\ chain[k + 1] = old[k]
      BY <2>5, <2>6
    <3>3. \A k \in DOMAIN chain : chain[k] \in Range(old) \cup {head}
      BY <2>5, <2>7 DEF Range
    <3> QED
      BY <3>1, <3>2, <3>3 DEF Range
  <2>14. RecordsIn(old, tag) = {}
    BY <2>8 DEF RecordsIn, Range
  <2>15. /\ \A id : id # tag => RecordsIn(chain, id) = RecordsIn(old, id)
         /\ RecordsIn(chain, tag) = {head}
    BY <2>3, <2>13, <2>14 DEF RecordsIn
  <2> QED
    BY <2>9, <2>10, <2>11, <2>12, <2>14, <2>15 DEF chain, old, head
<1> QED
  BY <1>2, <1>3

\* cbObjectSpaceCounter, field by field.
ARecord(id, objects, arrays, memory) ==
    [requestId |-> id, objectCount |-> objects, arrayCount |-> arrays, memoryUsed |-> memory]

\* Counting an object into a record with its fields written out.
LEMMA CountRecord ==
  ASSUME NEW id, NEW objects, NEW arrays, NEW memory, NEW size, NEW isArray
  PROVE  Count(ARecord(id, objects, arrays, memory), size, isArray) =
           ARecord(id, ToInt(objects + IF isArray THEN 0 ELSE 1),
                   ToInt(arrays + IF isArray THEN 1 ELSE 0), ToInt(memory + size))
<1> DEFINE r == ARecord(id, objects, arrays, memory)
           r1 == [r EXCEPT !.memoryUsed = ToInt(@ + size)]
           r2 == [r1 EXCEPT !.arrayCount = ToInt(@ + IF isArray THEN 1 ELSE 0)]
           r3 == [r2 EXCEPT !.objectCount = ToInt(@ + IF isArray THEN 0 ELSE 1)]
<1>1. r1 = ARecord(id, objects, arrays, ToInt(memory + size))
  BY DEF ARecord
<1>2. r2 = ARecord(id, objects, ToInt(arrays + IF isArray THEN 1 ELSE 0), ToInt(memory + size))
  <2> HIDE DEF r1
  <2> QED
    BY <1>1 DEF ARecord
<1>3. r3 = ARecord(id, ToInt(objects + IF isArray THEN 0 ELSE 1),
                   ToInt(arrays + IF isArray THEN 1 ELSE 0), ToInt(memory + size))
  <2> HIDE DEF r2
  <2> QED
    BY <1>2 DEF ARecord
<1>4. Count(r, size, isArray) = r3
  BY DEF Count
<1> QED
  BY <1>3, <1>4

\* cbObjectSpaceCounter changes the counts of the record it found, by what was
\* visited, and nothing else.
LEMMA VisitedChain ==
  ASSUME NEW chain, NEW s, NEW tag, NEW size \in Sizes, NEW isArray \in BOOLEAN,
         NEW n \in 0 .. MaxObjects - 1, Bounded(chain, n + 1), Distinct(chain, s),
         \A k \in DOMAIN chain : chain[k].objectCount <= n /\ chain[k].arrayCount <= n
  PROVE  /\ Bounded(Visited(chain, tag, size, isArray), n + 1)
         /\ Distinct(Visited(chain, tag, size, isArray), s)
         /\ IdsOf(Visited(chain, tag, size, isArray)) = IdsOf(chain)
         /\ DOMAIN Visited(chain, tag, size, isArray) = DOMAIN chain
         /\ \A k \in DOMAIN chain :
                Visited(chain, tag, size, isArray)[k] =
                    IF chain[k].requestId = tag THEN Counted(chain[k], size, isArray)
                    ELSE chain[k]
<1> DEFINE new == Visited(chain, tag, size, isArray)
           one(r) == Counted(r, size, isArray)
<1>1. ASSUME NEW r \in Record, r.objectCount <= n, r.arrayCount <= n
      PROVE  /\ Count(r, size, isArray) = one(r)
             /\ one(r) \in Record
             /\ one(r).objectCount <= n + 1 /\ one(r).arrayCount <= n + 1
  <2>1. /\ r.requestId \in Ids /\ r.objectCount \in 0 .. n /\ r.arrayCount \in 0 .. n
        /\ r.memoryUsed \in Int
        /\ r = [requestId |-> r.requestId, objectCount |-> r.objectCount,
                arrayCount |-> r.arrayCount, memoryUsed |-> r.memoryUsed]
    BY <1>1 DEF Record
  <2>2. /\ ToInt(r.objectCount + 0) = r.objectCount /\ ToInt(r.objectCount + 1) = r.objectCount + 1
        /\ ToInt(r.arrayCount + 0) = r.arrayCount /\ ToInt(r.arrayCount + 1) = r.arrayCount + 1
    BY <2>1, ToIntFits
  <2>3. size \in Nat /\ r.memoryUsed + size \in Int
    BY <2>1, SizesAssumption
  <2>4. ToInt(r.memoryUsed + size) \in -MaxInt - 1 .. MaxInt
    BY <2>3, ToIntRange
  <2>5. Count(r, size, isArray) =
          [requestId |-> r.requestId,
           objectCount |-> ToInt(r.objectCount + IF isArray THEN 0 ELSE 1),
           arrayCount |-> ToInt(r.arrayCount + IF isArray THEN 1 ELSE 0),
           memoryUsed |-> ToInt(r.memoryUsed + size)]
    <3>1. Count(r, size, isArray) =
            Count(ARecord(r.requestId, r.objectCount, r.arrayCount, r.memoryUsed), size, isArray)
      BY <2>1 DEF ARecord
    <3> QED
      BY <3>1, CountRecord DEF ARecord
  <2>6. Count(r, size, isArray) = one(r)
    BY <2>1, <2>2, <2>5 DEF Counted
  <2>7. one(r) \in Record /\ one(r).objectCount <= n + 1 /\ one(r).arrayCount <= n + 1
    BY <2>1, <2>4 DEF Record, Counted
  <2> QED
    BY <2>6, <2>7
<1>2. chain \in Seq(Record) /\ Len(chain) \in Nat /\ DOMAIN chain = 1 .. Len(chain)
  BY DEF Bounded
<1>3. \A k \in DOMAIN chain : chain[k] \in Record
  BY <1>2
<1>4. DOMAIN new = DOMAIN chain
  BY DEF Visited
<1>5. \A k \in DOMAIN chain :
          new[k] = IF chain[k].requestId = tag THEN one(chain[k]) ELSE chain[k]
  BY <1>1, <1>3 DEF Visited
<1>6. \A k \in DOMAIN chain : new[k] \in Record /\ new[k].objectCount <= n + 1
                                  /\ new[k].arrayCount <= n + 1
  BY <1>1, <1>3, <1>5 DEF Bounded
<1>7. \A k \in DOMAIN chain : new[k].requestId = chain[k].requestId
  <2>1. \A r : one(r).requestId = r.requestId
    BY DEF Counted
  <2> HIDE DEF one, new
  <2> QED
    BY <1>5, <2>1
<1> HIDE DEF one
<1>8. new \in Seq(Record) /\ Len(new) = Len(chain)
  BY <1>2, <1>6 DEF Visited
<1> HIDE DEF new
<1>9. Bounded(new, n + 1)
  BY <1>4, <1>6, <1>8 DEF Bounded
<1>10. Distinct(new, s)
  BY <1>4, <1>7 DEF Distinct
<1>11. IdsOf(new) = IdsOf(chain)
  BY <1>4, <1>7 DEF IdsOf
<1> QED
  BY <1>4, <1>5, <1>9, <1>10, <1>11 DEF new, one

-----------------------------------------------------------------------------
\* Types and chains.

\* A chain is no longer, and a count no larger, than the number of objects
\* visited; a record is in the chain of its id, and alone there.
ChainsInv ==
    /\ table \in [Slots -> Seq(Record)]
    /\ \A s \in Slots : Bounded(table[s], visited) /\ Distinct(table[s], s)
\* The numbers are in their ranges.
Numbers ==
    /\ visited \in 0 .. MaxObjects
    /\ i \in 0 .. BucketCount
    /\ at \in 1 .. MaxObjects + 1
Others ==
    /\ pc \in Places
    /\ result \in {"", "list", "exception"}
    /\ allocated \in SUBSET Ids /\ freed \in SUBSET Ids
\* The inductive invariant of the table.
TableInv == ChainsInv /\ Numbers /\ Others /\ list \in Seq(Record)

\* A visited object leaves every chain in order, adds its id to the chain of its
\* bucket and changes no other record than its own.
LEMMA VisitTable ==
  ASSUME TableInv, NEW tag \in Ids, NEW size \in Sizes, NEW isArray \in BOOLEAN,
         VisitObject(tag, size, isArray), Bucket(tag) \in Slots
  PROVE  /\ visited \in 0 .. MaxObjects - 1 /\ visited' = visited + 1
         /\ table' = [table EXCEPT ![Bucket(tag)] =
                Visited(FindOrCreate(Bucket(tag), tag), tag, size, isArray)]
         /\ table' \in [Slots -> Seq(Record)]
         /\ \A s \in Slots : Bounded(table'[s], visited + 1) /\ Distinct(table'[s], s)
         /\ \A s \in Slots \ {Bucket(tag)} : table'[s] = table[s]
         /\ IdsOf(table'[Bucket(tag)]) = IdsOf(table[Bucket(tag)]) \cup {tag}
<1> DEFINE s == Bucket(tag)
           chain == FindOrCreate(s, tag)
           new == Visited(chain, tag, size, isArray)
<1>1. visited \in 0 .. MaxObjects - 1 /\ visited' = visited + 1
  BY DEF VisitObject, TableInv, Numbers
<1>2. table' = [table EXCEPT ![s] = new]
  BY DEF VisitObject, Visited
<1>3. /\ table \in [Slots -> Seq(Record)]
      /\ \A b \in Slots : Bounded(table[b], visited) /\ Distinct(table[b], b)
  BY DEF TableInv, ChainsInv
<1> HIDE DEF s
<1>4. s \in Slots /\ s = Bucket(tag)
  BY DEF s
<1>5. /\ Bounded(chain, visited + 1) /\ Distinct(chain, s)
      /\ \A k \in DOMAIN chain : chain[k].objectCount <= visited /\ chain[k].arrayCount <= visited
      /\ IdsOf(chain) = IdsOf(table[s]) \cup {tag}
  BY <1>1, <1>3, <1>4, FindOrCreateChain
<1> HIDE DEF chain
<1>6. /\ Bounded(new, visited + 1) /\ Distinct(new, s)
      /\ IdsOf(new) = IdsOf(chain)
  <2>1. size \in Sizes /\ isArray \in BOOLEAN
    OBVIOUS
  <2>2. \A k \in DOMAIN chain : chain[k].objectCount <= visited /\ chain[k].arrayCount <= visited
    BY <1>5
  <2>3. Bounded(chain, visited + 1) /\ Distinct(chain, s)
    BY <1>5
  <2> QED
    BY ONLY <1>1, <2>1, <2>2, <2>3, VisitedChain
<1> HIDE DEF new
<1>7. new \in Seq(Record)
  BY <1>6 DEF Bounded
<1>8. table' \in [Slots -> Seq(Record)] /\ table'[s] = new
  BY <1>2, <1>3, <1>4, <1>7
<1>9. \A b \in Slots \ {s} : table'[b] = table[b]
  BY <1>2, <1>3
<1>10. ASSUME NEW b \in Slots, b # s
       PROVE  Bounded(table'[b], visited + 1) /\ Distinct(table'[b], b)
  <2>1. Bounded(table[b], visited) /\ Distinct(table[b], b) /\ table'[b] = table[b]
    BY <1>3, <1>9, <1>10
  <2>2. \A r \in Record : r.objectCount \in Nat /\ r.arrayCount \in Nat
    BY DEF Record
  <2>3. table[b] \in Seq(Record) /\ Len(table[b]) \in Nat
        /\ \A k \in DOMAIN table[b] : table[b][k] \in Record
    BY <1>3
  <2>4. Bounded(table[b], visited + 1)
    BY <1>1, <2>1, <2>2, <2>3 DEF Bounded
  <2> QED
    BY <2>1, <2>4
<1>11. \A b \in Slots : Bounded(table'[b], visited + 1) /\ Distinct(table'[b], b)
  BY <1>6, <1>8, <1>10
<1> QED
  BY <1>1, <1>2, <1>5, <1>6, <1>8, <1>9, <1>11 DEF s, chain, new

\* Without a visit the chains stay as they are.
LEMMA ChainsStay == ChainsInv /\ UNCHANGED <<table, visited>> => ChainsInv'
BY DEF ChainsInv

\* The record a loop is at.
LEMMA RecordAtCursor ==
  ASSUME TableInv, i < BucketCount, ~ ChainEnds
  PROVE  /\ i \in Slots /\ at \in 1 .. Len(table[i]) /\ at + 1 \in 1 .. MaxObjects + 1
         /\ at \in DOMAIN table[i] /\ table[i][at] \in Record
<1>1. i \in Slots
  BY BucketCountType DEF TableInv, Numbers, Slots
<1>2. table[i] \in Seq(Record) /\ Bounded(table[i], visited)
  BY <1>1 DEF TableInv, ChainsInv
<1>3. Len(table[i]) \in Nat /\ Len(table[i]) <= visited
  BY <1>2 DEF Bounded
<1>4. visited \in 0 .. MaxObjects /\ at \in 1 .. MaxObjects + 1
  BY DEF TableInv, Numbers
<1>5. at \in 1 .. Len(table[i])
  BY <1>3, <1>4 DEF ChainEnds
<1> QED
  BY <1>1, <1>2, <1>3, <1>4, <1>5

\* A larger bound is a bound.
LEMMA BoundedByMore ==
  ASSUME NEW n \in Nat, NEW chain, Bounded(chain, n)
  PROVE  Bounded(chain, n + 1)
<1>1. \A r \in Record : r.objectCount \in Nat /\ r.arrayCount \in Nat
  BY DEF Record
<1>2. chain \in Seq(Record) /\ Len(chain) \in Nat /\ Len(chain) <= n
  BY DEF Bounded
<1>3. \A k \in DOMAIN chain : chain[k] \in Record
  BY <1>2
<1> QED
  BY <1>1, <1>2, <1>3 DEF Bounded

\* Every step keeps the table in order.
LEMMA TableStep == TableInv /\ [Next]_vars => TableInv'
<1> SUFFICES ASSUME TableInv, [Next]_vars PROVE TableInv'
  OBVIOUS
<1>a. BucketCount \in Nat
  BY BucketCountType
<1>b. ChainsInv /\ Numbers /\ Others /\ list \in Seq(Record)
  BY DEF TableInv
<1>1. ASSUME AllocStats PROVE TableInv'
  <2>1. Numbers'
    BY <1>1, <1>b DEF AllocStats, Numbers
  <2>2. Others'
    BY <1>1, <1>b DEF AllocStats, Others, Places
  <2> QED
    BY <1>1, <1>b, <2>1, <2>2, ChainsStay DEF AllocStats, TableInv
<1>2. ASSUME AllocTable PROVE TableInv'
  <2>1. Numbers'
    BY <1>2, <1>b DEF AllocTable, Numbers
  <2>2. Others'
    BY <1>2, <1>b DEF AllocTable, Others, Places
  <2> QED
    BY <1>2, <1>b, <2>1, <2>2, ChainsStay DEF AllocTable, TableInv
<1>3. ASSUME NEW tag \in Ids, VisitFails(tag) PROVE TableInv'
  <2>1. Numbers'
    BY <1>3, <1>b DEF VisitFails, Numbers
  <2>2. Others'
    BY <1>3, <1>b DEF VisitFails, Others, Places
  <2> QED
    BY <1>3, <1>b, <2>1, <2>2, ChainsStay DEF VisitFails, TableInv
<1>4. ASSUME NEW tag \in Ids, NEW size \in Sizes, NEW isArray \in BOOLEAN,
             VisitObject(tag, size, isArray)
      PROVE  TableInv'
  <2>1. list' = list
    BY <1>4 DEF VisitObject
  <2>2. visited \in 0 .. MaxObjects - 1 /\ visited' = visited + 1
    BY <1>4, <1>b DEF VisitObject, Numbers
  <2>3. CASE Bucket(tag) \in Slots
    <3>1. ChainsInv'
      BY <1>4, <2>2, <2>3, VisitTable DEF ChainsInv
    <3>2. pc' = pc /\ allocated' = allocated \cup {tag} /\ UNCHANGED <<result, i, at, freed>>
      BY <1>4, <2>3 DEF VisitObject
    <3>3. Numbers'
      BY <1>b, <2>2, <3>2 DEF Numbers
    <3>4. Others'
      BY <1>b, <3>2 DEF Others
    <3> QED
      BY <1>b, <2>1, <3>1, <3>3, <3>4 DEF TableInv
  <2>4. CASE Bucket(tag) \notin Slots
    <3>1. pc' = "wild_bucket" /\ UNCHANGED <<table, allocated, result, i, at, freed>>
      BY <1>4, <2>4 DEF VisitObject
    <3>2. ChainsInv'
      BY <1>b, <2>2, <3>1, BoundedByMore DEF ChainsInv
    <3>3. Numbers'
      BY <1>b, <2>2, <3>1 DEF Numbers
    <3>4. Others'
      BY <1>b, <3>1 DEF Others, Places
    <3> QED
      BY <1>b, <2>1, <3>2, <3>3, <3>4 DEF TableInv
  <2> QED
    BY <2>3, <2>4
<1>5. ASSUME WalkEnds PROVE TableInv'
  <2>1. Numbers'
    BY <1>5, <1>b DEF WalkEnds, Numbers
  <2>2. Others'
    BY <1>5, <1>b DEF WalkEnds, Others, Places
  <2> QED
    BY <1>5, <1>b, <2>1, <2>2, ChainsStay DEF WalkEnds, TableInv
<1>6. ASSUME ReportBucketDone PROVE TableInv'
  <2>1. Numbers'
    BY <1>6, <1>a, <1>b DEF ReportBucketDone, NextBucket, Numbers
  <2>2. Others'
    BY <1>6, <1>b DEF ReportBucketDone, Others
  <2> QED
    BY <1>6, <1>b, <2>1, <2>2, ChainsStay DEF ReportBucketDone, TableInv
<1>7. ASSUME ReportRecord PROVE TableInv'
  <2>1. at' \in 1 .. MaxObjects + 1 /\ table[i][at] \in Record
    BY <1>7, RecordAtCursor DEF ReportRecord
  <2>2. list' \in Seq(Record)
    BY <1>7, <1>b, <2>1 DEF ReportRecord
  <2>3. Numbers'
    BY <1>7, <1>b, <2>1 DEF ReportRecord, Numbers
  <2>4. Others'
    BY <1>7, <1>b DEF ReportRecord, Others
  <2> QED
    BY <1>7, <1>b, <2>2, <2>3, <2>4, ChainsStay DEF ReportRecord, TableInv
<1>8. ASSUME ReportFails PROVE TableInv'
  <2>1. Numbers'
    BY <1>8, <1>a, <1>b DEF ReportFails, Numbers
  <2>2. Others'
    BY <1>8, <1>b DEF ReportFails, Others, Places
  <2> QED
    BY <1>8, <1>b, <2>1, <2>2, ChainsStay DEF ReportFails, TableInv
<1>9. ASSUME ReportEnds PROVE TableInv'
  <2>1. Numbers'
    BY <1>9, <1>a, <1>b DEF ReportEnds, Numbers
  <2>2. Others'
    BY <1>9, <1>b DEF ReportEnds, Others, Places
  <2> QED
    BY <1>9, <1>b, <2>1, <2>2, ChainsStay DEF ReportEnds, TableInv
<1>10. ASSUME FreeBucketDone PROVE TableInv'
  <2>1. Numbers'
    BY <1>10, <1>a, <1>b DEF FreeBucketDone, NextBucket, Numbers
  <2>2. Others'
    BY <1>10, <1>b DEF FreeBucketDone, Others
  <2> QED
    BY <1>10, <1>b, <2>1, <2>2, ChainsStay DEF FreeBucketDone, TableInv
<1>11. ASSUME FreeRecord PROVE TableInv'
  <2>1. at' \in 1 .. MaxObjects + 1 /\ table[i][at] \in Record
    BY <1>11, RecordAtCursor DEF FreeRecord
  <2>2. table[i][at].requestId \in Ids
    BY <2>1 DEF Record
  <2>3. Numbers'
    BY <1>11, <1>b, <2>1 DEF FreeRecord, Numbers
  <2>4. Others'
    BY <1>11, <1>b, <2>2 DEF FreeRecord, Others, Places
  <2> QED
    BY <1>11, <1>b, <2>3, <2>4, ChainsStay DEF FreeRecord, TableInv
<1>12. ASSUME FreeEnds PROVE TableInv'
  <2>1. Numbers'
    BY <1>12, <1>b DEF FreeEnds, Numbers
  <2>2. Others'
    BY <1>12, <1>b DEF FreeEnds, Others, Places
  <2> QED
    BY <1>12, <1>b, <2>1, <2>2, ChainsStay DEF FreeEnds, TableInv
<1>13. CASE UNCHANGED vars
  <2>1. Numbers'
    BY <1>13, <1>b DEF vars, Numbers
  <2>2. Others'
    BY <1>13, <1>b DEF vars, Others
  <2> QED
    BY <1>13, <1>b, <2>1, <2>2, ChainsStay DEF vars, TableInv
<1> QED
  BY <1>1, <1>2, <1>3, <1>4, <1>5, <1>6, <1>7, <1>8, <1>9, <1>10, <1>11, <1>12, <1>13
  DEF Next, Progress, Visits, Stopped

\* The empty table is in order.
LEMMA TableInit == Init => TableInv
<1> SUFFICES ASSUME Init PROVE TableInv
  OBVIOUS
<1>1. BucketCount \in Nat
  BY BucketCountType
<1>2. << >> \in Seq(Record) /\ Len(<< >>) = 0 /\ DOMAIN << >> = {}
  OBVIOUS
<1>3. /\ visited = 0 /\ i = 0 /\ at = 1
      /\ table = [s \in Slots |-> << >>]
  BY DEF Init
<1>4. ChainsInv
  <2>1. \A s : Bounded(<< >>, 0) /\ Distinct(<< >>, s)
    BY <1>2 DEF Bounded, Distinct
  <2> QED
    BY <1>2, <1>3, <2>1 DEF ChainsInv
<1>5. Numbers
  BY <1>1, <1>3 DEF Numbers
<1>6. Others
  BY DEF Init, Others, Places
<1> QED
  BY <1>2, <1>4, <1>5, <1>6 DEF Init, TableInv

\* Whatever is visited, reported and freed, and whatever fails on the way, the
\* chains, the cursors of the loops and the history agree with each other.
THEOREM TableInvariant == Spec => []TableInv
BY TableInit, TableStep, PTL DEF Spec

\* The chains, and all variables, keep their types: counts stay below the number
\* of objects visited, and the places in the loops inside of the table.
THEOREM Types == Spec => []TypeOK
<1>1. TableInv => TypeOK
  <2> SUFFICES ASSUME TableInv PROVE TypeOK
    OBVIOUS
  <2>1. ASSUME NEW s \in Slots PROVE Range(table[s]) \subseteq Record
    BY DEF TableInv, ChainsInv, Range
  <2>2. Records \subseteq Record
    BY <2>1 DEF Records
  <2>3. Range(list) \subseteq Record
    BY DEF TableInv, Range
  <2>4. DOMAIN table = Slots
    BY DEF TableInv, ChainsInv
  <2> QED
    BY <2>2, <2>3, <2>4 DEF TableInv, Numbers, Others, TypeOK
<1> QED
  BY <1>1, TableInvariant, PTL

\* findOrCreateRequestStats never makes a second record for a request, whatever
\* ids share a bucket: what it looks through is the chain the record is in.
THEOREM OneRecord == Spec => []OneRecordPerRequest
<1>1. TableInv => OneRecordPerRequest
  <2> SUFFICES ASSUME TableInv, NEW s \in Slots
               PROVE  /\ \A r \in Range(table[s]) : Bucket(r.requestId) = s
                      /\ \A j, k \in DOMAIN table[s] :
                             table[s][j].requestId = table[s][k].requestId => j = k
    BY DEF OneRecordPerRequest
  <2>1. Distinct(table[s], s)
    BY DEF TableInv, ChainsInv
  <2> QED
    BY <2>1 DEF Distinct, Range
<1> QED
  BY <1>1, TableInvariant, PTL

-----------------------------------------------------------------------------
\* The two loops over the table.

\* Place k of bucket s is behind the loop.
Passed(s, k) == s < i \/ (s = i /\ k < at)
\* The walk and what is before it.
Filling == {"alloc_stats", "alloc_table", "walk"}

\* A loop begins with nothing passed, ...
LEMMA NothingPassed ==
  ASSUME i = 0, at = 1, NEW s \in Slots, NEW k \in Nat \ {0}
  PROVE  ~ Passed(s, k)
BY BucketCountType DEF Passed, Slots

\* ... ends with everything passed, ...
LEMMA EverythingPassed ==
  ASSUME i = BucketCount, NEW s \in Slots, NEW k
  PROVE  Passed(s, k)
BY BucketCountType DEF Passed, Slots

\* ... passes one record at a time, ...
LEMMA RecordPassed ==
  ASSUME TableInv, i' = i, at' = at + 1, NEW s \in Slots, NEW k \in Nat \ {0}
  PROVE  Passed(s, k)' <=> Passed(s, k) \/ (s = i /\ k = at)
<1>1. i \in Int /\ at \in Int /\ s \in Int
  BY BucketCountType DEF TableInv, Numbers, Slots
<1> QED
  BY <1>1 DEF Passed

\* ... and none when it goes to the next bucket.
LEMMA BucketPassed ==
  ASSUME TableInv, NextBucket, NEW s \in Slots, NEW k \in DOMAIN table[s]
  PROVE  Passed(s, k)' <=> Passed(s, k)
<1>1. i \in Int /\ at \in Int /\ s \in Int
  BY BucketCountType DEF TableInv, Numbers, Slots
<1>2. i' = i + 1 /\ at' = 1 /\ at > Len(table[i])
  BY DEF NextBucket, ChainEnds
<1>3. k \in 1 .. Len(table[s]) /\ Len(table[s]) \in Nat
  BY DEF TableInv, ChainsInv
<1>4. s = i => k < at
  BY <1>1, <1>2, <1>3
<1> QED
  BY <1>1, <1>2, <1>3, <1>4 DEF Passed

\* A place of a chain is a number above 0.
LEMMA PlacesOfChain ==
  ASSUME TableInv, NEW s \in Slots, NEW k \in DOMAIN table[s]
  PROVE  k \in Nat \ {0}
<1>1. table[s] \in Seq(Record)
  BY DEF TableInv, ChainsInv
<1> QED
  BY <1>1

-----------------------------------------------------------------------------
\* What is freed.

\* What is allocated is what the table holds.
AllocatedInv ==
    /\ \A id : id \in allocated <=> \E s \in Slots : id \in IdsOf(table[s])
    /\ pc = "alloc_stats" => allocated = {}
\* What the cursor of freeStats has passed is freed.
FreedInv ==
    /\ pc \in Filling => i = 0 /\ at = 1
    /\ pc \in Filling \cup {"report"} => freed = {}
    /\ pc = "free" =>
           \A id : id \in freed <=> \E s \in Slots : \E k \in DOMAIN table[s] :
                                        id = table[s][k].requestId /\ Passed(s, k)
    /\ pc = "return" => freed = allocated

\* The ids allocated for are those of the records in the table.
LEMMA AllocatedStep == TableInv /\ AllocatedInv /\ [Next]_vars => AllocatedInv'
<1> SUFFICES ASSUME TableInv, AllocatedInv, [Next]_vars PROVE AllocatedInv'
  OBVIOUS
<1>1. ASSUME UNCHANGED <<table, allocated>>, pc' # "alloc_stats" \/ pc' = pc PROVE AllocatedInv'
  BY <1>1 DEF AllocatedInv, IdsOf
<1>2. ASSUME NEW tag \in Ids, NEW size \in Sizes, NEW isArray \in BOOLEAN,
             VisitObject(tag, size, isArray)
      PROVE  AllocatedInv'
  <2>1. CASE Bucket(tag) \in Slots
    <3>1. /\ \A s \in Slots \ {Bucket(tag)} : table'[s] = table[s]
          /\ IdsOf(table'[Bucket(tag)]) = IdsOf(table[Bucket(tag)]) \cup {tag}
      BY <1>2, <2>1, VisitTable
    <3>2. allocated' = allocated \cup {tag} /\ pc' # "alloc_stats"
      BY <1>2, <2>1 DEF VisitObject
    <3>3. ASSUME NEW id
          PROVE  id \in allocated' <=> \E s \in Slots : id \in IdsOf(table'[s])
      BY <2>1, <3>1, <3>2 DEF AllocatedInv
    <3>4. (\A id : id \in allocated <=> \E s \in Slots : id \in IdsOf(table[s]))'
      BY <3>3 DEF IdsOf
    <3> QED
      BY <3>2, <3>4 DEF AllocatedInv
  <2>2. CASE Bucket(tag) \notin Slots
    BY <1>1, <1>2, <2>2 DEF VisitObject
  <2> QED
    BY <2>1, <2>2
<1>3. ASSUME NEW tag \in Ids, VisitFails(tag) PROVE AllocatedInv'
  BY <1>1, <1>3 DEF VisitFails
<1>4. CASE AllocStats \/ AllocTable \/ WalkEnds
  BY <1>1, <1>4 DEF AllocStats, AllocTable, WalkEnds
<1>5. CASE ReportBucketDone \/ ReportRecord \/ ReportFails \/ ReportEnds
  BY <1>1, <1>5 DEF ReportBucketDone, ReportRecord, ReportFails, ReportEnds
<1>6. CASE FreeBucketDone \/ FreeRecord \/ FreeEnds
  BY <1>1, <1>6 DEF FreeBucketDone, FreeRecord, FreeEnds
<1>7. CASE UNCHANGED vars
  BY <1>1, <1>7 DEF vars
<1> QED
  BY <1>2, <1>3, <1>4, <1>5, <1>6, <1>7 DEF Next, Progress, Visits, Stopped

\* freeStats frees the record it passes, and passes every record.
LEMMA FreedStep ==
  TableInv /\ AllocatedInv /\ FreedInv /\ [Next]_vars => FreedInv'
<1> SUFFICES ASSUME TableInv, AllocatedInv, FreedInv, [Next]_vars PROVE FreedInv'
  OBVIOUS
<1> DEFINE FreedPassed ==
        \A id : id \in freed <=> \E s \in Slots : \E k \in DOMAIN table[s] :
                                     id = table[s][k].requestId /\ Passed(s, k)
<1>1. CASE AllocStats
  BY <1>1 DEF AllocStats, AllocatedInv, FreedInv, Filling
<1>2. CASE AllocTable \/ WalkEnds
  BY <1>2 DEF AllocTable, WalkEnds, FreedInv, Filling
<1>3. ASSUME NEW tag \in Ids, NEW size \in Sizes, NEW isArray \in BOOLEAN,
             VisitObject(tag, size, isArray)
      PROVE  FreedInv'
  <2>1. pc = "walk" /\ pc' \in {"walk", "wild_bucket"} /\ UNCHANGED <<i, at, freed>>
    BY <1>3 DEF VisitObject
  <2> QED
    BY <2>1 DEF FreedInv, Filling
<1>4. ASSUME pc \in Filling \cup {"report"}, pc' = "free", i' = 0, at' = 1, UNCHANGED <<table, freed>>
      PROVE  FreedInv'
  <2>1. ASSUME NEW s \in Slots, NEW k \in DOMAIN table[s] PROVE ~ Passed(s, k)'
    <3>1. k \in Nat \ {0}
      BY PlacesOfChain
    <3>2. s \in Int /\ s >= 0
      BY BucketCountType DEF Slots
    <3> QED
      BY <1>4, <3>1, <3>2 DEF Passed
  <2>2. freed' = {}
    BY <1>4 DEF FreedInv
  <2>3. FreedPassed'
    BY <1>4, <2>1, <2>2
  <2> QED
    BY <1>4, <2>3 DEF FreedInv, Filling
<1>5. ASSUME NEW tag \in Ids, VisitFails(tag) PROVE FreedInv'
  <2>1. i = 0 /\ at = 1
    BY <1>5 DEF VisitFails, FreedInv, Filling
  <2> QED
    BY <1>4, <1>5, <2>1 DEF VisitFails, Filling
<1>6. CASE ReportBucketDone \/ ReportRecord
  BY <1>6 DEF ReportBucketDone, ReportRecord, FreedInv, Filling
<1>7. CASE ReportFails \/ ReportEnds
  BY <1>4, <1>7 DEF ReportFails, ReportEnds
<1>8. CASE FreeBucketDone
  <2>1. pc = "free" /\ pc' = "free" /\ NextBucket /\ UNCHANGED <<table, freed>>
    BY <1>8 DEF FreeBucketDone
  <2>2. \A s \in Slots : \A k \in DOMAIN table[s] : Passed(s, k)' <=> Passed(s, k)
    BY <2>1, BucketPassed
  <2>3. FreedPassed'
    BY <2>1, <2>2 DEF FreedInv
  <2> QED
    BY <2>1, <2>3 DEF FreedInv, Filling
<1>9. CASE FreeRecord
  <2>1. /\ pc = "free" /\ pc' \in {"free", "wild_next"} /\ UNCHANGED <<table, i>> /\ at' = at + 1
        /\ freed' = freed \cup {table[i][at].requestId}
    BY <1>9 DEF FreeRecord
  <2>2. i \in Slots /\ at \in DOMAIN table[i]
    BY <1>9, RecordAtCursor DEF FreeRecord
  <2>3. \A s \in Slots : \A k \in DOMAIN table[s] :
            Passed(s, k)' <=> Passed(s, k) \/ (s = i /\ k = at)
    BY <2>1, RecordPassed, PlacesOfChain
  <2>4. FreedPassed
    BY <2>1 DEF FreedInv
  <2>5. FreedPassed'
    <3>1. ASSUME NEW id
          PROVE  id \in freed' <=> \E s \in Slots : \E k \in DOMAIN table[s] :
                                       id = table[s][k].requestId /\ Passed(s, k)'
      BY <2>1, <2>2, <2>3, <2>4
    <3> QED
      BY <2>1, <3>1
  <2> QED
    BY <2>1, <2>5 DEF FreedInv, Filling
<1>10. CASE FreeEnds
  <2>1. pc = "free" /\ pc' = "return" /\ i = BucketCount /\ UNCHANGED <<allocated, freed>>
    BY <1>10 DEF FreeEnds
  <2>2. \A id : id \in freed <=> \E s \in Slots : \E k \in DOMAIN table[s] :
                                     id = table[s][k].requestId
    BY <2>1, EverythingPassed DEF FreedInv
  <2>3. freed = allocated
    BY <2>2 DEF AllocatedInv, IdsOf
  <2> QED
    BY <2>1, <2>3 DEF FreedInv, Filling
<1>11. CASE UNCHANGED vars
  <2>1. FreedPassed' <=> FreedPassed
    BY <1>11 DEF vars, Passed
  <2> QED
    BY <1>11, <2>1 DEF vars, FreedInv
<1> QED
  BY <1>1, <1>2, <1>3, <1>5, <1>6, <1>7, <1>8, <1>9, <1>10, <1>11
  DEF Next, Progress, Visits, Stopped

-----------------------------------------------------------------------------
\* What the list holds.

\* What the cursor of the list loop has passed is in the list.
ListInv ==
    /\ pc \in Filling => list = << >>
    /\ pc \in Filling \cup {"report"} => result = ""
    /\ IsFiniteSet(Range(list)) /\ Cardinality(Range(list)) = Len(list)
    /\ pc = "report" =>
           \A r : r \in Range(list) <=> \E s \in Slots : \E k \in DOMAIN table[s] :
                                            r = table[s][k] /\ Passed(s, k)
    /\ result = "list" => Range(list) = Records

\* The list is empty at first.
LEMMA NothingInRange == Range(<< >>) = {} /\ Len(<< >>) = 0
BY DEF Range

\* A record is in one place.
LEMMA OnePlace ==
  ASSUME TableInv, NEW s \in Slots, NEW k \in DOMAIN table[s],
         NEW b \in Slots, NEW j \in DOMAIN table[b],
         table[s][k].requestId = table[b][j].requestId
  PROVE  s = b /\ k = j
<1>1. Distinct(table[s], s) /\ Distinct(table[b], b)
  BY DEF TableInv, ChainsInv
<1>2. s = b
  BY <1>1 DEF Distinct
<1> QED
  BY <1>1, <1>2 DEF Distinct

\* Every step keeps what the list holds of the table.
LEMMA ListStep == TableInv /\ FreedInv /\ ListInv /\ [Next]_vars => ListInv'
<1> SUFFICES ASSUME TableInv, FreedInv, ListInv, [Next]_vars PROVE ListInv'
  OBVIOUS
<1> DEFINE Listed ==
        \A r : r \in Range(list) <=> \E s \in Slots : \E k \in DOMAIN table[s] :
                                         r = table[s][k] /\ Passed(s, k)
<1>1. ASSUME pc \in Filling, list' = list, pc' # "report", result' # "list",
             pc' \in Filling => result' = ""
      PROVE  ListInv'
  BY <1>1 DEF ListInv
<1>2. CASE AllocStats \/ AllocTable
  BY <1>1, <1>2 DEF AllocStats, AllocTable, ListInv, Filling
<1>3. ASSUME NEW tag \in Ids, VisitFails(tag) PROVE ListInv'
  BY <1>1, <1>3 DEF VisitFails, Filling
<1>4. ASSUME NEW tag \in Ids, NEW size \in Sizes, NEW isArray \in BOOLEAN,
             VisitObject(tag, size, isArray)
      PROVE  ListInv'
  <2>1. pc = "walk" /\ pc' \in {"walk", "wild_bucket"} /\ UNCHANGED <<list, result>>
    BY <1>4 DEF VisitObject
  <2> QED
    BY <1>1, <2>1 DEF ListInv, Filling
<1>5. CASE WalkEnds
  <2>1. pc = "walk" /\ pc' = "report" /\ UNCHANGED <<table, list, result, i, at>>
    BY <1>5 DEF WalkEnds
  <2>2. list = << >> /\ result = "" /\ i = 0 /\ at = 1
    BY <2>1 DEF ListInv, FreedInv, Filling
  <2>3. ASSUME NEW s \in Slots, NEW k \in DOMAIN table[s] PROVE ~ Passed(s, k)
    BY <2>2, NothingPassed, PlacesOfChain
  <2>4. Range(list) = {}
    BY <2>2, NothingInRange
  <2>5. Listed
    BY <2>3, <2>4
  <2>6. Listed'
    BY <2>1, <2>5 DEF Passed
  <2> QED
    BY <2>1, <2>2, <2>6 DEF ListInv, Filling
<1>6. CASE ReportBucketDone
  <2>1. pc = "report" /\ pc' = "report" /\ NextBucket /\ UNCHANGED <<table, list, result>>
    BY <1>6 DEF ReportBucketDone
  <2>2. \A s \in Slots : \A k \in DOMAIN table[s] : Passed(s, k)' <=> Passed(s, k)
    BY <2>1, BucketPassed
  <2>3. Listed'
    BY <2>1, <2>2 DEF ListInv
  <2> QED
    BY <2>1, <2>3 DEF ListInv, Filling
<1>7. CASE ReportRecord
  <2> DEFINE new == table[i][at]
  <2>1. /\ pc = "report" /\ pc' = "report" /\ UNCHANGED <<table, result, i>> /\ at' = at + 1
        /\ list' = Append(list, new)
    BY <1>7 DEF ReportRecord
  <2>2. i \in Slots /\ at \in DOMAIN table[i] /\ new \in Record
    BY <1>7, RecordAtCursor DEF ReportRecord
  <2>3. list \in Seq(Record)
    BY DEF TableInv
  <2>4. Listed
    BY <2>1 DEF ListInv
  <2>5. \A s \in Slots : \A k \in DOMAIN table[s] :
            Passed(s, k)' <=> Passed(s, k) \/ (s = i /\ k = at)
    BY <2>1, RecordPassed, PlacesOfChain
  <2>6. ~ Passed(i, at)
    BY <2>2, BucketCountType DEF Passed, TableInv, Numbers
  <2>7. new \notin Range(list)
    <3> SUFFICES ASSUME new \in Range(list) PROVE FALSE
      OBVIOUS
    <3>1. PICK s \in Slots : \E k \in DOMAIN table[s] : new = table[s][k] /\ Passed(s, k)
      BY <2>4
    <3>2. PICK k \in DOMAIN table[s] : new = table[s][k] /\ Passed(s, k)
      BY <3>1
    <3>3. s = i /\ k = at
      BY <2>2, <3>2, OnePlace
    <3> QED
      BY <2>6, <3>2, <3>3
  <2> HIDE DEF new
  <2>8. Range(list') = Range(list) \cup {new} /\ Len(list') = Len(list) + 1
    <3>1. /\ list' \in Seq(Record) /\ Len(list') = Len(list) + 1 /\ list'[Len(list) + 1] = new
          /\ \A k \in 1 .. Len(list) : list'[k] = list[k]
      BY <2>1, <2>2, <2>3
    <3>2. DOMAIN list' = 1 .. Len(list) + 1 /\ DOMAIN list = 1 .. Len(list) /\ Len(list) \in Nat
      BY <2>3, <3>1
    <3>3. DOMAIN list' = DOMAIN list \cup {Len(list) + 1}
      BY <3>2
    <3> QED
      BY <3>1, <3>2, <3>3 DEF Range
  <2>9. IsFiniteSet(Range(list)) /\ Cardinality(Range(list)) = Len(list)
    BY DEF ListInv
  <2>10. IsFiniteSet(Range(list')) /\ Cardinality(Range(list')) = Len(list')
    BY <2>7, <2>8, <2>9, FS_AddElement
  <2>11. Listed'
    <3>1. ASSUME NEW r
          PROVE  r \in Range(list') <=> \E s \in Slots : \E k \in DOMAIN table[s] :
                                            r = table[s][k] /\ Passed(s, k)'
      BY <2>2, <2>4, <2>5, <2>8 DEF new
    <3> QED
      BY <2>1, <3>1
  <2> QED
    BY <2>1, <2>10, <2>11 DEF ListInv, Filling
<1>8. CASE ReportFails
  BY <1>8 DEF ReportFails, ListInv, Filling
<1>9. CASE ReportEnds
  <2>1. /\ pc = "report" /\ pc' = "free" /\ i = BucketCount /\ result' = "list"
        /\ UNCHANGED <<table, list>>
    BY <1>9 DEF ReportEnds
  <2>2. Range(list) = Records
    <3>1. \A r : r \in Range(list) <=> \E s \in Slots : \E k \in DOMAIN table[s] : r = table[s][k]
      BY <2>1, EverythingPassed DEF ListInv
    <3>2. \A r : r \in Records <=> \E s \in Slots : r \in Range(table[s])
      BY DEF Records
    <3>3. \A s \in Slots : \A r : r \in Range(table[s]) <=> \E k \in DOMAIN table[s] : r = table[s][k]
      BY DEF Range
    <3>4. ASSUME NEW r PROVE r \in Range(list) <=> r \in Records
      <4>1. r \in Range(list) <=> \E s \in Slots : \E k \in DOMAIN table[s] : r = table[s][k]
        BY <3>1
      <4>2. r \in Records <=> \E s \in Slots : \E k \in DOMAIN table[s] : r = table[s][k]
        <5>1. r \in Records <=> \E s \in Slots : r \in Range(table[s])
          BY <3>2
        <5>2. ASSUME NEW s \in Slots
              PROVE  r \in Range(table[s]) <=> \E k \in DOMAIN table[s] : r = table[s][k]
          BY <3>3
        <5> QED
          BY <5>1, <5>2
      <4> QED
        BY <4>1, <4>2
    <3> QED
      BY <3>4
  <2>3. Records' = Records
    BY <2>1 DEF Records
  <2> QED
    BY <2>1, <2>2, <2>3 DEF ListInv, Filling
<1>10. ASSUME pc \in {"free", "return"} \cup Undefined, pc' \in {"free", "return"} \cup Undefined,
              UNCHANGED <<table, list, result>>
       PROVE  ListInv'
  <2>1. Records' = Records
    BY <1>10 DEF Records
  <2> QED
    BY <1>10, <2>1 DEF ListInv, Filling, Undefined
<1>11. CASE FreeBucketDone \/ FreeRecord \/ FreeEnds
  BY <1>10, <1>11 DEF FreeBucketDone, FreeRecord, FreeEnds, Undefined
<1>12. CASE UNCHANGED vars
  <2>1. (Listed' <=> Listed) /\ Records' = Records
    BY <1>12 DEF vars, Passed, Records
  <2> QED
    BY <1>12, <2>1 DEF vars, ListInv
<1> QED
  BY <1>2, <1>3, <1>4, <1>5, <1>6, <1>7, <1>8, <1>9, <1>11, <1>12
  DEF Next, Progress, Visits, Stopped

\* The loops have passed nothing at first.
LEMMA LoopInit == Init => AllocatedInv /\ FreedInv /\ ListInv
<1> SUFFICES ASSUME Init PROVE AllocatedInv /\ FreedInv /\ ListInv
  OBVIOUS
<1>1. \A s \in Slots : table[s] = << >>
  BY DEF Init
<1>2. \A s \in Slots : IdsOf(table[s]) = {}
  BY <1>1 DEF IdsOf
<1>3. AllocatedInv /\ FreedInv
  BY <1>2 DEF Init, AllocatedInv, FreedInv, Filling
<1>4. list = << >> /\ Range(list) = {} /\ Len(list) = 0
  BY NothingInRange DEF Init
<1>5. ListInv
  BY <1>4, FS_EmptySet DEF Init, ListInv
<1> QED
  BY <1>3, <1>5

\* The loops over the buckets and their chains: what was allocated is in the table
\* until it is freed, what the cursor has passed is freed, and what it has passed
\* on the way to the list is in the list.
THEOREM LoopInvariant == Spec => [](AllocatedInv /\ FreedInv /\ ListInv)
BY LoopInit, TableInvariant, AllocatedStep, FreedStep, ListStep, PTL DEF Spec

\* A list that is returned without an exception holds each record of the table
\* once: the loop over the buckets and their chains skips none and repeats none.
THEOREM ListIsComplete == Spec => []ListComplete
<1>1. ListInv => ListComplete
  BY DEF ListInv, ListComplete
<1> QED
  BY <1>1, LoopInvariant, PTL

\* Whatever happens on the way, the native returns with every record freed that
\* it allocated: also when the walk ran out of memory half way, and when building
\* the list failed.
THEOREM NothingLeaks == Spec => []NoLeak
<1>1. FreedInv => NoLeak
  BY DEF FreedInv, NoLeak
<1> QED
  BY <1>1, LoopInvariant, PTL

-----------------------------------------------------------------------------
\* The table implements RequestTally.

\* The tally of a set of records of one request.
TallyIn(records) ==
    IF records = {} THEN [objectCount |-> 0, arrayCount |-> 0, memoryUsed |-> 0]
    ELSE LET r == CHOOSE r \in records : TRUE
         IN  [objectCount |-> r.objectCount, arrayCount |-> r.arrayCount,
              memoryUsed |-> r.memoryUsed]
\* One more object in a tally or in a record.
OneMore(r, size, isArray) ==
    [objectCount |-> r.objectCount + (IF isArray THEN 0 ELSE 1),
     arrayCount |-> r.arrayCount + (IF isArray THEN 1 ELSE 0),
     memoryUsed |-> ToInt(r.memoryUsed + size)]

\* The records of a request are in the chain of its bucket.
LEMMA RecordsInBucket ==
  ASSUME NEW t \in [Slots -> Seq(Record)], \A s \in Slots : Distinct(t[s], s), NEW id
  PROVE  {r \in UNION {Range(t[s]) : s \in Slots} : r.requestId = id} =
            IF Bucket(id) \in Slots THEN RecordsIn(t[Bucket(id)], id) ELSE {}
<1>1. ASSUME NEW s \in Slots, NEW r \in Range(t[s]), r.requestId = id
      PROVE  s = Bucket(id)
  <2>1. PICK k \in DOMAIN t[s] : r = t[s][k]
    BY DEF Range
  <2> QED
    BY <1>1, <2>1 DEF Distinct
<1> QED
  BY <1>1 DEF RecordsIn

\* There is one at most.
LEMMA OneInChain ==
  ASSUME NEW chain, NEW s, Distinct(chain, s), NEW id, NEW r \in RecordsIn(chain, id)
  PROVE  RecordsIn(chain, id) = {r}
BY DEF Distinct, RecordsIn, Range

\* A visit adds to the record of the id and leaves the others alone.
LEMMA VisitedRecords ==
  ASSUME NEW chain, NEW s, NEW tag, NEW size \in Sizes, NEW isArray \in BOOLEAN,
         NEW n \in 0 .. MaxObjects - 1, Bounded(chain, n + 1), Distinct(chain, s),
         \A k \in DOMAIN chain : chain[k].objectCount <= n /\ chain[k].arrayCount <= n
  PROVE  LET new == Visited(chain, tag, size, isArray)
         IN  /\ \A id : id # tag => RecordsIn(new, id) = RecordsIn(chain, id)
             /\ \A r \in RecordsIn(chain, tag) :
                    TallyIn(RecordsIn(new, tag)) = OneMore(r, size, isArray)
<1> DEFINE new == Visited(chain, tag, size, isArray)
           counted(r) == Counted(r, size, isArray)
<1>1. /\ Distinct(new, s)
      /\ DOMAIN new = DOMAIN chain
      /\ \A k \in DOMAIN chain :
             new[k] = IF chain[k].requestId = tag THEN counted(chain[k]) ELSE chain[k]
  BY VisitedChain
<1>2. \A r : counted(r).requestId = r.requestId
  BY DEF Counted
<1>3. ASSUME NEW r PROVE TallyIn({counted(r)}) = OneMore(r, size, isArray)
  <2>1. (CHOOSE q \in {counted(r)} : TRUE) = counted(r)
    OBVIOUS
  <2> QED
    BY <2>1 DEF TallyIn, OneMore, Counted
<1> HIDE DEF new, counted
<1>4. ASSUME NEW id, id # tag PROVE RecordsIn(new, id) = RecordsIn(chain, id)
  BY <1>1, <1>2, <1>4 DEF RecordsIn, Range
<1>5. ASSUME NEW r \in RecordsIn(chain, tag)
      PROVE  TallyIn(RecordsIn(new, tag)) = OneMore(r, size, isArray)
  <2>1. PICK k \in DOMAIN chain : r = chain[k] /\ chain[k].requestId = tag
    BY DEF RecordsIn, Range
  <2>2. new[k] = counted(r) /\ k \in DOMAIN new
    BY <1>1, <2>1
  <2>3. counted(r) \in RecordsIn(new, tag)
    BY <1>2, <2>2 DEF RecordsIn, Range
  <2>4. RecordsIn(new, tag) = {counted(r)}
    BY <1>1, <2>3, OneInChain
  <2> QED
    BY <1>3, <2>4
<1> QED
  BY <1>4, <1>5 DEF new

\* The tally before and after the visit of an object.
LEMMA VisitTally ==
  ASSUME TableInv, NEW tag \in Ids, NEW size \in Sizes, NEW isArray \in BOOLEAN,
         VisitObject(tag, size, isArray), Bucket(tag) \in Slots
  PROVE  /\ \A id \in Ids \ {tag} : TallyOf(id)' = TallyOf(id)
         /\ TallyOf(tag)' = OneMore(TallyOf(tag), size, isArray)
<1> DEFINE s == Bucket(tag)
           chain == FindOrCreate(s, tag)
           new == Visited(chain, tag, size, isArray)
           Of(t, id) == IF Bucket(id) \in Slots THEN RecordsIn(t[Bucket(id)], id) ELSE {}
<1>1. /\ visited \in 0 .. MaxObjects - 1
      /\ table' = [table EXCEPT ![s] = new]
      /\ table' \in [Slots -> Seq(Record)]
      /\ \A b \in Slots : Distinct(table'[b], b)
      /\ \A b \in Slots \ {s} : table'[b] = table[b]
  BY VisitTable
<1>2. /\ table \in [Slots -> Seq(Record)]
      /\ \A b \in Slots : Bounded(table[b], visited) /\ Distinct(table[b], b)
  BY DEF TableInv, ChainsInv
<1>3. \A id : RecordsOf(id) = Of(table, id)
  BY <1>2, RecordsInBucket DEF RecordsOf, Records
<1>4. \A id : RecordsOf(id)' = Of(table', id)
  BY <1>1, RecordsInBucket DEF RecordsOf, Records
<1>5. \A id : TallyOf(id) = TallyIn(Of(table, id)) /\ TallyOf(id)' = TallyIn(Of(table', id))
  BY <1>3, <1>4 DEF TallyOf, TallyIn
<1> HIDE DEF s
<1>6. s \in Slots /\ s = Bucket(tag)
  BY DEF s
<1>7. /\ Bounded(chain, visited + 1) /\ Distinct(chain, s)
      /\ \A k \in DOMAIN chain : chain[k].objectCount <= visited /\ chain[k].arrayCount <= visited
      /\ \A id : id # tag => RecordsIn(chain, id) = RecordsIn(table[s], id)
      /\ RecordsIn(chain, tag) = IF RecordsIn(table[s], tag) # {} THEN RecordsIn(table[s], tag)
                                                               ELSE {NewRecord(tag)}
  BY <1>1, <1>2, <1>6, FindOrCreateChain
<1> HIDE DEF chain
<1>8. /\ \A id : id # tag => RecordsIn(new, id) = RecordsIn(chain, id)
      /\ \A r \in RecordsIn(chain, tag) :
             TallyIn(RecordsIn(new, tag)) = OneMore(r, size, isArray)
  BY <1>1, <1>7, VisitedRecords
<1> HIDE DEF new
<1>9. table'[s] = new
  BY <1>1, <1>2, <1>6
<1>10. ASSUME NEW id \in Ids \ {tag} PROVE TallyOf(id)' = TallyOf(id)
  <2>1. Of(table', id) = Of(table, id)
    <3>1. CASE Bucket(id) = s
      BY <1>6, <1>7, <1>8, <1>9, <3>1
    <3>2. CASE Bucket(id) # s
      BY <1>1, <3>2
    <3> QED
      BY <3>1, <3>2
  <2> QED
    BY <1>5, <2>1
<1>11. TallyOf(tag)' = OneMore(TallyOf(tag), size, isArray)
  <2>1. Of(table', tag) = RecordsIn(new, tag) /\ Of(table, tag) = RecordsIn(table[s], tag)
    BY <1>6, <1>9
  <2>2. CASE RecordsIn(table[s], tag) = {}
    <3>1. NewRecord(tag) \in RecordsIn(chain, tag)
      BY <1>7, <2>2
    <3>2. TallyOf(tag)' = OneMore(NewRecord(tag), size, isArray)
      BY <1>5, <1>8, <2>1, <3>1
    <3>3. TallyOf(tag) = [objectCount |-> 0, arrayCount |-> 0, memoryUsed |-> 0]
      BY <1>5, <2>1, <2>2 DEF TallyIn
    <3>4. OneMore(NewRecord(tag), size, isArray) = OneMore(TallyOf(tag), size, isArray)
      BY <3>3 DEF OneMore, NewRecord
    <3> QED
      BY <3>2, <3>4
  <2>3. CASE RecordsIn(table[s], tag) # {}
    <3>1. PICK r \in RecordsIn(table[s], tag) : TRUE
      BY <2>3
    <3>2. RecordsIn(table[s], tag) = {r}
      BY <1>2, <1>6, <3>1, OneInChain
    <3>3. TallyOf(tag)' = OneMore(r, size, isArray)
      BY <1>5, <1>7, <1>8, <2>1, <2>3, <3>1
    <3>4. TallyOf(tag) = [objectCount |-> r.objectCount, arrayCount |-> r.arrayCount,
                          memoryUsed |-> r.memoryUsed]
      <4>1. (CHOOSE q \in {r} : TRUE) = r
        OBVIOUS
      <4> QED
        BY <1>5, <2>1, <3>2, <4>1 DEF TallyIn
    <3>5. OneMore(r, size, isArray) = OneMore(TallyOf(tag), size, isArray)
      BY <3>4 DEF OneMore
    <3> QED
      BY <3>3, <3>5
  <2> QED
    BY <2>2, <2>3
<1> QED
  BY <1>10, <1>11

\* A step that leaves the table alone leaves the tally alone.
LEMMA TallyStays == UNCHANGED table => TallyNow' = TallyNow
BY DEF TallyNow, TallyOf, RecordsOf, Records

\* Every step is one of the tally or a stutter.
LEMMA TallyStep ==
  TableInv /\ ListInv /\ [Next]_vars => [Tally!Next]_<<TallyNow, Outcome>>
<1> SUFFICES ASSUME TableInv, ListInv, [Next]_vars
             PROVE  Tally!Next \/ UNCHANGED <<TallyNow, Outcome>>
  OBVIOUS
<1>a. ASSUME UNCHANGED <<table, result>> PROVE UNCHANGED <<TallyNow, Outcome>>
  BY <1>a, TallyStays DEF Outcome
<1>b. ASSUME pc \in Filling \cup {"report"}, result' \in {"list", "exception"}, UNCHANGED table
      PROVE  Tally!Next
  <2>1. Outcome = "walking" /\ Outcome' \in {"delivered", "failed"}
    BY <1>b DEF ListInv, Outcome
  <2> QED
    BY <1>b, <2>1, TallyStays DEF Tally!Next, Tally!Finish
<1>1. ASSUME NEW tag \in Ids, NEW size \in Sizes, NEW isArray \in BOOLEAN,
             VisitObject(tag, size, isArray)
      PROVE  Tally!Next \/ UNCHANGED <<TallyNow, Outcome>>
  <2>1. CASE Bucket(tag) \in Slots
    <3>1. pc = "walk" /\ result' = result
      BY <1>1, <2>1 DEF VisitObject
    <3>2. Outcome = "walking" /\ Outcome' = Outcome
      BY <3>1 DEF ListInv, Filling, Outcome
    <3>3. /\ \A id \in Ids \ {tag} : TallyOf(id)' = TallyOf(id)
          /\ TallyOf(tag)' = OneMore(TallyOf(tag), size, isArray)
      BY <1>1, <2>1, VisitTally
    <3>4. \A m : Tally!ToInt(m) = ToInt(m)
      BY DEF Tally!ToInt, ToInt
    <3>5. TallyNow' = [TallyNow EXCEPT ![tag] = OneMore(TallyNow[tag], size, isArray)]
      BY <3>3 DEF TallyNow
    <3>6. TallyNow' = [TallyNow EXCEPT ![tag] =
                         [objectCount |-> TallyNow[tag].objectCount + (IF isArray THEN 0 ELSE 1),
                          arrayCount |-> TallyNow[tag].arrayCount + (IF isArray THEN 1 ELSE 0),
                          memoryUsed |-> Tally!ToInt(TallyNow[tag].memoryUsed + size)]]
      BY <3>4, <3>5 DEF OneMore
    <3>7. Tally!Visit(tag, size, isArray)
      BY <3>2, <3>6 DEF Tally!Visit
    <3> QED
      BY <3>7 DEF Tally!Next
  <2>2. CASE Bucket(tag) \notin Slots
    BY <1>1, <1>a, <2>2 DEF VisitObject
  <2> QED
    BY <2>1, <2>2
<1>2. ASSUME NEW tag \in Ids, VisitFails(tag) PROVE Tally!Next
  BY <1>2, <1>b DEF VisitFails, Filling
<1>3. CASE AllocStats
  BY <1>3, <1>a, <1>b DEF AllocStats, Filling
<1>4. CASE AllocTable \/ WalkEnds \/ ReportBucketDone \/ ReportRecord
  BY <1>4, <1>a DEF AllocTable, WalkEnds, ReportBucketDone, ReportRecord
<1>5. CASE ReportFails \/ ReportEnds
  BY <1>5, <1>b DEF ReportFails, ReportEnds
<1>6. CASE FreeBucketDone \/ FreeRecord \/ FreeEnds
  BY <1>6, <1>a DEF FreeBucketDone, FreeRecord, FreeEnds
<1>7. CASE UNCHANGED vars
  BY <1>7, <1>a DEF vars
<1> QED
  BY <1>1, <1>2, <1>3, <1>4, <1>5, <1>6, <1>7 DEF Next, Progress, Visits, Stopped

\* The empty table is the empty tally.
LEMMA TallyInit == Init => Tally!Init
<1> SUFFICES ASSUME Init PROVE Tally!Init
  OBVIOUS
<1>1. \A s \in Slots : table[s] = << >>
  BY DEF Init
<1>2. Records = {}
  BY <1>1, NothingInRange DEF Records
<1>3. \A id \in Ids : TallyOf(id) = [objectCount |-> 0, arrayCount |-> 0, memoryUsed |-> 0]
  BY <1>2 DEF TallyOf, RecordsOf
<1>4. Outcome = "walking"
  BY DEF Init, Outcome
<1> QED
  BY <1>3, <1>4 DEF Tally!Init, Tally!Zero, TallyNow

\* The hash table with its buckets and chains, its failing allocations and its two
\* loops implements the tally by request id: an object is counted once, under its
\* own id, and what is delivered is the whole tally.
THEOREM TableImplementsTally == Spec => ImplementsTally
<1>1. TableInv /\ ListInv /\ [Next]_vars => [Tally!Next]_<<TallyNow, Outcome>>
  BY TallyStep
<1> QED
  BY <1>1, TallyInit, TableInvariant, LoopInvariant, PTL DEF Spec, ImplementsTally, Tally!Spec

=============================================================================
