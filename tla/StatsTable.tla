----------------------------- MODULE StatsTable -----------------------------
(***************************************************************************)
(* CollectedStats of heapTracker.c: the hash table that collectStats fills *)
(* during a heap walk, the loop of HEAP_TRACKER_native_extract_stats that  *)
(* turns it into a list, and freeStats.                                    *)
(*                                                                         *)
(* STATS_BUCKET_COUNT is the text 1024*8, without parentheses.  Modulus    *)
(* stands for the 1024 and Stride for the 8.                               *)
(***************************************************************************)
EXTENDS Integers, Sequences, FiniteSets, Functions

CONSTANTS
    Ids,         \* the request ids that occur as tags
    Sizes,       \* the sizes of heap objects
    MaxInt,      \* largest C int
    Modulus, Stride,
    MaxObjects   \* bound: objects the walk visits

ASSUME IdsAssumption == Ids \subseteq (Int \ {0})
ASSUME SizesAssumption == Sizes \subseteq Nat
ASSUME WidthAssumption == MaxInt \in Nat /\ MaxObjects \in 0 .. MaxInt
ASSUME BucketAssumption == Modulus \in Nat \ {0} /\ Stride \in Nat \ {0}

VARIABLES
    pc,         \* control of the native; see Places
    table,      \* hashTable: the chain of records of each bucket
    visited,    \* objects visited so far
    result,     \* why the native ends: "list", "exception" or "" before
    list,       \* the RequestStats added to the caller's list
    i, at,      \* bucket and place in its chain, in the loops
    allocated,  \* ids of the records allocated ...
    freed       \* ... and of those freed, in history

vars == <<pc, table, visited, result, list, i, at, allocated, freed>>

Places == {"alloc_stats", "alloc_table", "walk", "report", "free", "return",
           "no_table", "wild_bucket", "wild_next"}
\* Where the program has undefined behaviour and the model stops.
Undefined == {"no_table", "wild_bucket", "wild_next"}

\* Integers without a width.
ToLong(n) == n
ToInt(n) == ((n + MaxInt + 1) % (2 * (MaxInt + 1))) - (MaxInt + 1)

BucketCount == Modulus * Stride
Slots == 0 .. BucketCount - 1

\* The % of C truncates towards zero; "needle % 1024*8" is (needle % 1024) * 8.
CRemainder(a, b) == IF a >= 0 THEN a % b ELSE -((-a) % b)
Bucket(needle) == CRemainder(needle, Modulus) * Stride

Init ==
    /\ pc = "alloc_stats"
    /\ table = [s \in Slots |-> <<>>]
    /\ visited = 0
    /\ result = ""
    /\ list = <<>>
    /\ i = 0 /\ at = 1
    /\ allocated = {} /\ freed = {}

-----------------------------------------------------------------------------
\* collectStats.

\* calloc of the CollectedStats: NULL makes the native throw OutOfMemoryError
\* and there is nothing to free.
AllocStats ==
    /\ pc = "alloc_stats"
    /\ \/ pc' = "alloc_table" /\ UNCHANGED result
       \/ pc' = "return" /\ result' = "exception"
    /\ UNCHANGED <<table, visited, list, i, at, allocated, freed>>

\* calloc of the hash table: the result is not tested.
AllocTable ==
    /\ pc = "alloc_table"
    /\ pc' \in {"walk", "no_table"}
    /\ UNCHANGED <<table, visited, result, list, i, at, allocated, freed>>

\* The places in chain s that hold the record of needle.
Found(s, needle) == {k \in DOMAIN table[s] : table[s][k].requestId = needle}

\* findOrCreateRequestStats puts a new record at the head of the chain.
NewRecord(needle) ==
    [requestId |-> needle, objectCount |-> 0, arrayCount |-> 0, memoryUsed |-> 0]
\* Without the search.
CreateAlways(s, needle) == <<NewRecord(needle)>> \o table[s]
FindOrCreate(s, needle) ==
    IF Found(s, needle) # {} THEN table[s] ELSE <<NewRecord(needle)>> \o table[s]

\* Without the else: an array counts as an object too.
CountArraysTwice(record, size, isArray) ==
    [record EXCEPT !.memoryUsed = ToInt(@ + size),
                   !.arrayCount = ToInt(@ + IF isArray THEN 1 ELSE 0),
                   !.objectCount = ToInt(@ + 1)]

\* cbObjectSpaceCounter on one record.
Count(record, size, isArray) ==
    [record EXCEPT !.memoryUsed = ToInt(@ + size),
                   !.arrayCount = ToInt(@ + IF isArray THEN 1 ELSE 0),
                   !.objectCount = ToInt(@ + IF isArray THEN 0 ELSE 1)]

\* A tagged object of the heap walk.
VisitObject(tag, size, isArray) ==
    /\ pc = "walk"
    /\ visited < MaxObjects
    /\ visited' = visited + 1
    /\ LET s == Bucket(tag)
           chain == FindOrCreate(s, tag)
       IN  IF s \notin Slots
             THEN pc' = "wild_bucket" /\ UNCHANGED <<table, allocated>>
             ELSE /\ table' = [table EXCEPT ![s] =
                        [k \in DOMAIN chain |-> IF chain[k].requestId = tag
                                                  THEN Count(chain[k], size, isArray)
                                                  ELSE chain[k]]]
                  /\ allocated' = allocated \cup {tag}
                  /\ UNCHANGED pc
    /\ UNCHANGED <<result, list, i, at, freed>>

\* Giving up without freeing the table.
VisitFailsLeaking(tag) ==
    /\ pc = "walk"
    /\ visited < MaxObjects
    /\ Bucket(tag) \in Slots
    /\ Found(Bucket(tag), tag) = {}
    /\ pc' = "return"
    /\ result' = "exception"
    /\ UNCHANGED <<table, visited, list, i, at, allocated, freed>>

\* calloc fails for a new record: memoryExhausted, and the walk is aborted.
\* OutOfMemoryError is thrown after the table, partly filled, is given up.
VisitFails(tag) ==
    /\ pc = "walk"
    /\ visited < MaxObjects
    /\ Bucket(tag) \in Slots
    /\ Found(Bucket(tag), tag) = {}
    /\ pc' = "free"
    /\ result' = "exception"
    /\ UNCHANGED <<table, visited, list, i, at, allocated, freed>>

WalkEnds ==
    /\ pc = "walk"
    /\ pc' = "report"
    /\ UNCHANGED <<table, visited, result, list, i, at, allocated, freed>>

-----------------------------------------------------------------------------
\* The loop over the buckets that builds the list.

\* Only the head of each chain.
ChainEndsEarly == at > Len(table[i]) \/ at = 2
ChainEnds == at > Len(table[i])

NextBucket ==
    /\ ChainEnds
    /\ i' = i + 1 /\ at' = 1

ReportBucketDone ==
    /\ pc = "report"
    /\ i < BucketCount
    /\ NextBucket
    /\ UNCHANGED <<pc, table, visited, result, list, allocated, freed>>

\* NewObject and List.add.
ReportRecord ==
    /\ pc = "report"
    /\ i < BucketCount
    /\ ~ ChainEnds
    /\ list' = Append(list, table[i][at])
    /\ at' = at + 1
    /\ UNCHANGED <<pc, table, visited, result, i, allocated, freed>>

\* Either throws; or the lookups before the loop do.
ReportFails ==
    /\ pc = "report"
    /\ i < BucketCount
    /\ (i = 0 /\ at = 1) \/ ~ ChainEnds
    /\ pc' = "free"
    /\ result' = "exception"
    /\ i' = 0 /\ at' = 1
    /\ UNCHANGED <<table, visited, list, allocated, freed>>

ReportEnds ==
    /\ pc = "report"
    /\ i = BucketCount
    /\ pc' = "free"
    /\ result' = "list"
    /\ i' = 0 /\ at' = 1
    /\ UNCHANGED <<table, visited, list, allocated, freed>>

-----------------------------------------------------------------------------
\* freeStats, outside the critical section.

\* A loop that does not advance.
FreeBucketAgain ==
    /\ pc = "free"
    /\ i < BucketCount
    /\ ChainEnds
    /\ at' = 1
    /\ UNCHANGED <<pc, table, visited, result, list, i, allocated, freed>>

FreeBucketDone ==
    /\ pc = "free"
    /\ i < BucketCount
    /\ NextBucket
    /\ UNCHANGED <<pc, table, visited, result, list, allocated, freed>>

\* free(stats); stats = stats->next reads a freed record: the link is intact if
\* nobody has taken the memory yet, and anything otherwise.
FreeRecord ==
    /\ pc = "free"
    /\ i < BucketCount
    /\ ~ ChainEnds
    /\ freed' = freed \cup {table[i][at].requestId}
    /\ pc' \in {"free", "wild_next"}
    /\ at' = at + 1
    /\ UNCHANGED <<table, visited, result, list, i, allocated>>

FreeEnds ==
    /\ pc = "free"
    /\ i = BucketCount
    /\ pc' = "return"
    /\ UNCHANGED <<table, visited, result, list, i, at, allocated, freed>>

-----------------------------------------------------------------------------
\* Returned to Java, or undefined.
Stopped == pc \in Undefined \cup {"return"} /\ UNCHANGED vars

Visits ==
    \E tag \in Ids : VisitFails(tag) \/ \E size \in Sizes, isArray \in BOOLEAN :
                                            VisitObject(tag, size, isArray)

Progress ==
    \/ AllocStats \/ AllocTable \/ Visits \/ WalkEnds
    \/ ReportBucketDone \/ ReportRecord \/ ReportFails \/ ReportEnds
    \/ FreeBucketDone \/ FreeRecord \/ FreeEnds

Next == Progress \/ Stopped

Spec == Init /\ [][Next]_vars /\ WF_vars(Progress)

-----------------------------------------------------------------------------
\* Properties.

Records == UNION {Range(table[s]) : s \in Slots}
\* Every variable has its type.
Record == [requestId : Ids, objectCount : 0 .. MaxObjects, arrayCount : 0 .. MaxObjects,
           memoryUsed : -MaxInt - 1 .. MaxInt]
TypeOK ==
    /\ pc \in Places
    /\ DOMAIN table = Slots /\ Records \subseteq Record
    /\ visited \in 0 .. MaxObjects
    /\ result \in {"", "list", "exception"}
    /\ Range(list) \subseteq Record
    /\ i \in 0 .. BucketCount /\ at \in 1 .. MaxObjects + 1
    /\ allocated \subseteq Ids /\ freed \subseteq Ids

\* A request has at most one record, in the chain its id is looked up in: later
\* objects of the request are added to it and not to a second record.
OneRecordPerRequest ==
    /\ \A s \in Slots : \A r \in Range(table[s]) : Bucket(r.requestId) = s
    /\ \A s \in Slots : \A j, k \in DOMAIN table[s] :
           table[s][j].requestId = table[s][k].requestId => j = k

\* A list that is returned without an exception holds every record once.
ListComplete ==
    result = "list" => Range(list) = Records /\ Len(list) = Cardinality(Records)

\* Whatever way the native ends, it has freed every record it allocated, also
\* those of a walk that ran out of memory half way.
NoLeak == pc = "return" => freed = allocated

\* The native comes to an end, unless its behaviour is undefined.
Ends == <>(pc \in Undefined \cup {"return"})

\* What the table has counted for a request, and what has become of it.
RecordsOf(id) == {r \in Records : r.requestId = id}
TallyOf(id) ==
    IF RecordsOf(id) = {} THEN [objectCount |-> 0, arrayCount |-> 0, memoryUsed |-> 0]
    ELSE LET r == CHOOSE r \in RecordsOf(id) : TRUE
         IN  [objectCount |-> r.objectCount, arrayCount |-> r.arrayCount,
              memoryUsed |-> r.memoryUsed]
TallyNow == [id \in Ids |-> TallyOf(id)]
Outcome ==
    CASE result = "list" -> "delivered"
      [] result = "exception" -> "failed"
      [] OTHER -> "walking"
Tally == INSTANCE RequestTally WITH tally <- TallyNow, outcome <- Outcome

\* The table implements the tally: one object at a time, and all or nothing.
ImplementsTally == Tally!Spec

\* "survived call while memory was low": a report that runs out of memory throws
\* and the caller goes on.  Neither is a missing hash table used, nor does
\* freeStats follow the link of a record it has freed.
SurvivesLowMemory == pc \notin {"no_table", "wild_next"}
=============================================================================
