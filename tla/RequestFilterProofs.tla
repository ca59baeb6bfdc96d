------------------------ MODULE RequestFilterProofs ------------------------
(***************************************************************************)
(* Proofs about RequestFilter, for every set of threads and objects and any *)
(* number of requests below the wrap-around of uniqueId: the filter uses    *)
(* the tracker as RequestTracking describes, and keeps what it files.       *)
(***************************************************************************)
EXTENDS RequestFilter, RequestTrackingProofs

\* uniqueId does not come round, so that no request is given the id 0.
BelowWrap == MaxRequests <= MaxInt

-----------------------------------------------------------------------------
\* What keeps the table in order.

\* The object o is referenced, and on behalf of request id.
HeldFor(o, id) == o \in Obj /\ heap[o].state = "held" /\ heap[o].tag = id

\* Everything filed is there, and each entry is an object of its own request.
MapInv ==
    /\ filed \subseteq DOMAIN details
    /\ \A id \in DOMAIN details : id # 0 /\ HeldFor(details[id], id)

\* Where a thread can be inside the tracker, by its place in the filter.
PlaceInv(t) ==
    /\ flow[t] \in {"idle", "put", "stats", "remove"} => pc[t] = "java"
    /\ flow[t] \in {"put_enter", "after"} => pc[t] \in {"set", "java"}
    /\ flow[t] \in {"store", "chain"} => pc[t] \in {"tag", "java"}
    /\ flow[t] = "used" => pc[t] \in {"gc", "walk", "build", "build_tag", "returned", "thrown"}

\* The place of the details a thread works on.
Depth(t) == Len(calls[t])

\* The thread carries the id of the request it is about to file or to serve.
IdInv(t) ==
    /\ flow[t] \in {"put_enter", "put", "store", "chain", "after"} => Depth(t) > 0
    /\ flow[t] \in {"put_enter", "put", "store"} =>
          /\ arg[t].id = calls[t][Depth(t)] /\ arg[t].id # 0
          /\ pc[t] # "set" => tls[t] = arg[t].id
    /\ flow[t] = "chain" /\ ~ innerEnded[t] => tls[t] = calls[t][Depth(t)]

\* The entry a put has allocated is tagged with the id it is stored under.
EntryInv(t) ==
    flow[t] = "store" =>
        IF pc[t] = "tag" THEN entry[t] = fresh[t] ELSE HeldFor(entry[t], arg[t].id)

\* Every key a collector has copied is reported to it and none is left to remove.
KeyInv(t) ==
    /\ flow[t] \in {"stats", "used"} => unusedKeys[t] \subseteq DOMAIN details
    /\ flow[t] = "used" /\ pc[t] \in {"build", "build_tag", "returned"} =>
          unusedKeys[t] \subseteq Reported(t)
    /\ flow[t] = "remove" => unusedKeys[t] = {}

\* The requests a thread is in are filed, but for the one it is filing.
CallInv(t) ==
    /\ flow[t] \in {"idle", "stats", "used", "remove"} => Depth(t) = 0
    /\ flow[t] \in {"chain", "after"} => \A i \in 1 .. Depth(t) : calls[t][i] \in DOMAIN details
    /\ flow[t] \in {"put_enter", "put", "store"} =>
          \A i \in 1 .. Depth(t) - 1 : calls[t][i] \in DOMAIN details

\* All that is known of a thread.
ThreadInv(t) == PlaceInv(t) /\ IdInv(t) /\ EntryInv(t) /\ KeyInv(t) /\ CallInv(t)

\* All that is known of the tracker.
TrackInv == AttributionInv /\ IdsInOrder

\* The inductive invariant of the filter.
FilterInv == TrackInv /\ FilterTypeOK /\ MapInv /\ \A t \in Thread : ThreadInv(t)

-----------------------------------------------------------------------------
\* The filter uses the tracker as any program may.

\* A collector finds every key in its report, so that removeAll removes nothing.
LEMMA NothingRemoved ==
  ASSUME FilterInv, NEW t \in Thread, RemoveUnused(t)
  PROVE  /\ heap' = heap /\ heldSinceCall' = heldSinceCall
         /\ DOMAIN details' = DOMAIN details
         /\ \A id \in DOMAIN details : details'[id] = details[id]
<1>1. unusedKeys[t] = {}
  BY DEF RemoveUnused, Flow, FilterInv, ThreadInv, KeyInv
<1>2. DOMAIN details \ unusedKeys[t] = DOMAIN details
  BY <1>1
<1>3. {details[id] : id \in DOMAIN details \ (DOMAIN details \ unusedKeys[t])} = {}
  BY <1>1
<1>4. heap' = [o \in Obj |-> heap[o]]
  BY <1>3 DEF RemoveUnused
<1>5. heldSinceCall' = [u \in Thread |-> heldSinceCall[u]]
  BY <1>3 DEF RemoveUnused
<1>6. heap \in [Obj -> Object] /\ heldSinceCall \in [Thread -> SUBSET Obj]
  BY DEF FilterInv, TrackInv, AttributionInv, TypeOK
<1>7. details' = Restrict(details, DOMAIN details)
  BY <1>2 DEF RemoveUnused
<1> QED
  BY <1>4, <1>5, <1>6, <1>7 DEF Restrict

\* A step of the filter is a step of the tracker, or leaves the tracker alone.
LEMMA Simulation == FilterInv /\ [FilterNext]_vars => [Next]_trackVars
<1> SUFFICES ASSUME FilterInv, [FilterNext]_vars PROVE [Next]_trackVars
  OBVIOUS
<1>1. ASSUME NEW t \in Thread, BeforeHandling(t) PROVE [Next]_trackVars
  BY <1>1 DEF BeforeHandling, Next, Call
<1>2. ASSUME NEW t \in Thread, NEW o \in Obj, Put(t, o) \/ Chain(t, o) PROVE [Next]_trackVars
  BY <1>2 DEF Put, Chain, Next, Call
<1>3. ASSUME NEW t \in Thread, AfterHandling(t) \/ CollectStats(t) PROVE [Next]_trackVars
  BY <1>3 DEF AfterHandling, CollectStats, Next, Call
<1>4. ASSUME NEW t \in Thread, RemoveUsed(t) \/ StatsFail(t) PROVE [Next]_trackVars
  BY <1>4 DEF RemoveUsed, StatsFail, Next
<1>5. ASSUME NEW t \in Thread, RemoveUnused(t) PROVE [Next]_trackVars
  BY <1>5, NothingRemoved DEF RemoveUnused, trackVars, heapVars, callVars
<1>6. ASSUME NEW t \in Thread,
             PutEnter(t) \/ PutFails(t) \/ Store(t) \/ Leave(t) \/ Snapshot(t)
      PROVE  [Next]_trackVars
  BY <1>6 DEF PutEnter, PutFails, Store, Leave, Snapshot
<1>7. ASSUME NEW t \in Thread, TrackerStep(t) PROVE [Next]_trackVars
  BY <1>7 DEF Next
<1>8. ASSUME NEW o \in Obj, Drop(o) \/ Reclaim(o) PROVE [Next]_trackVars
  BY <1>8 DEF Next
<1>9. CASE UNCHANGED vars
  BY <1>9 DEF vars
<1> QED
  BY <1>1, <1>2, <1>3, <1>4, <1>5, <1>6, <1>7, <1>8, <1>9 DEF FilterNext, FilterStep

-----------------------------------------------------------------------------
\* Objects of the map, and those a put is about to store, stay as they are once
\* they are tagged: what is dropped, freed or tagged is another object.

Kept ==
    \A o \in Obj \cap Referenced :
        heap[o].state = "held" /\ heap[o].tag # 0 => heap'[o] = heap[o]

\* No step touches a referenced object that is tagged.
LEMMA ReferencedKept == FilterInv /\ [FilterNext]_vars => Kept
<1> SUFFICES ASSUME FilterInv, [FilterNext]_vars, NEW o \in Obj, o \in Referenced,
                    heap[o].state = "held", heap[o].tag # 0
             PROVE  heap'[o] = heap[o]
  BY DEF Kept
<1>0. heap \in [Obj -> Object] /\ FreshMatch
  BY DEF FilterInv, TrackInv, AttributionInv, TypeOK
<1>1. ASSUME NEW t \in Thread, NEW p \in Obj, Allocate(t, p, "java", "tag") \/ BuildResult(t, p)
      PROVE  heap'[o] = heap[o]
  BY <1>0, <1>1 DEF Allocate, BuildResult
<1>2. ASSUME NEW t \in Thread, tagObject(t, "tag", "java") \/ tagObject(t, "build_tag", "build")
      PROVE  heap'[o] = heap[o]
  <2>1. fresh[t] # o
    BY <1>0, FreshHeld
  <2> QED
    BY <1>0, <1>2, <2>1 DEF tagObject
<1>3. ASSUME NEW t \in Thread, ForceGC(t) PROVE heap'[o] = heap[o]
  BY <1>0, <1>3 DEF ForceGC, Collected, Garbage
<1>4. ASSUME NEW p \in Obj, Reclaim(p) PROVE heap'[o] = heap[o]
  BY <1>0, <1>4 DEF Reclaim
<1>5. ASSUME NEW p \in Obj \ Referenced, Drop(p) PROVE heap'[o] = heap[o]
  BY <1>0, <1>5 DEF Drop
<1>6. ASSUME NEW t \in Thread, RemoveUnused(t) PROVE heap'[o] = heap[o]
  BY <1>6, NothingRemoved
<1>7. ASSUME NEW t \in Thread,
             \/ BeforeHandling(t) \/ PutEnter(t) \/ PutFails(t) \/ Store(t)
             \/ AfterHandling(t) \/ Leave(t)
             \/ Snapshot(t) \/ CollectStats(t) \/ RemoveUsed(t) \/ StatsFail(t)
      PROVE  heap'[o] = heap[o]
  BY <1>7 DEF BeforeHandling, PutEnter, PutFails, Store, AfterHandling, Leave, Snapshot,
              CollectStats, RemoveUsed, StatsFail, startRequest, endRequest, getRequestStats,
              Resume, trackVars, heapVars
<1>8. ASSUME NEW t \in Thread,
             native_start_request(t) \/ Walk(t) \/ BuildFails(t) \/ Built(t)
      PROVE  heap'[o] = heap[o]
  BY <1>8 DEF native_start_request, Walk, BuildFails, Built, heapVars
<1>9. ASSUME NEW t \in Thread, TrackerStep(t) PROVE heap'[o] = heap[o]
  BY <1>1, <1>2, <1>3, <1>8, <1>9 DEF TrackerStep
<1>10. ASSUME NEW t \in Thread, FilterStep(t) PROVE heap'[o] = heap[o]
  BY <1>1, <1>6, <1>7, <1>10 DEF FilterStep, Put, Chain
<1>11. CASE UNCHANGED vars
  BY <1>11 DEF vars, trackVars, heapVars
<1> QED
  BY <1>4, <1>5, <1>9, <1>10, <1>11 DEF FilterNext

\* Ids, tags and objects under construction stay in agreement.
LEMMA TrackStep == FilterInv /\ [FilterNext]_vars => TrackInv'
BY Simulation, AttributionStep, IdsInOrderStep DEF FilterInv, TrackInv, AttributionInv

-----------------------------------------------------------------------------
\* Steps of one thread, seen from the others.

\* Nothing that thread u's part of the invariant is about changes, and the map
\* does not shrink.
LEMMA Untouched ==
  ASSUME FilterTypeOK, Kept, NEW u \in Thread, ThreadInv(u),
         DOMAIN details \subseteq DOMAIN details',
         flow'[u] = flow[u], pc'[u] = pc[u], tls'[u] = tls[u], arg'[u] = arg[u],
         calls'[u] = calls[u], innerEnded'[u] = innerEnded[u], entry'[u] = entry[u],
         fresh'[u] = fresh[u], unusedKeys'[u] = unusedKeys[u], counted'[u] = counted[u]
  PROVE  ThreadInv(u)'
<1>1. PlaceInv(u)'
  BY DEF ThreadInv, PlaceInv
<1>2. IdInv(u)'
  BY DEF ThreadInv, IdInv, Depth
<1>3. EntryInv(u)'
  <2>1. entry[u] \in Range(entry)
    BY DEF FilterTypeOK, Range
  <2>2. flow[u] = "store" => arg[u].id # 0
    BY DEF ThreadInv, IdInv
  <2>3. flow[u] = "store" /\ pc[u] # "tag" => HeldFor(entry[u], arg[u].id)'
    BY <2>1, <2>2 DEF ThreadInv, EntryInv, HeldFor, Kept, Referenced
  <2> QED
    BY <2>3 DEF ThreadInv, EntryInv
<1>4. KeyInv(u)'
  BY DEF ThreadInv, KeyInv, Reported
<1>5. CallInv(u)'
  BY DEF ThreadInv, CallInv, Depth
<1> QED
  BY <1>1, <1>2, <1>3, <1>4, <1>5 DEF ThreadInv

\* The map is left alone.
LEMMA MapUntouched ==
  ASSUME FilterTypeOK, Kept, MapInv, filed' = filed, DOMAIN details' = DOMAIN details,
         \A id \in DOMAIN details : details'[id] = details[id]
  PROVE  MapInv'
<1>1. ASSUME NEW id \in DOMAIN details PROVE id # 0 /\ HeldFor(details[id], id)'
  <2>1. details[id] \in Obj \cap Referenced
    BY DEF MapInv, HeldFor, Referenced, Entries, Range
  <2> QED
    BY <2>1 DEF MapInv, HeldFor, Kept
<1> QED
  BY <1>1 DEF MapInv, HeldFor

-----------------------------------------------------------------------------
\* Types.

\* The places of a thread in the filter.
FlowPlaces == {"idle", "put_enter", "put", "store", "chain", "after", "stats", "used", "remove"}

\* Every step keeps the types.
LEMMA FilterTypeStep == FilterInv /\ [FilterNext]_vars => FilterTypeOK'
<1> SUFFICES ASSUME FilterInv, [FilterNext]_vars PROVE FilterTypeOK'
  OBVIOUS
<1>0. /\ FilterTypeOK /\ TypeOK
      /\ \A t \in Thread : ThreadInv(t)
  BY DEF FilterInv, TrackInv, AttributionInv
<1>a. ASSUME NEW t \in Thread, NEW from, NEW to \in FlowPlaces, Flow(t, from, to)
      PROVE  flow' \in [Thread -> FlowPlaces]
  BY <1>a, <1>0 DEF Flow, FilterTypeOK, FlowPlaces
<1>b. ASSUME NEW t \in Thread, NEW from, EndDoFilter(t, from)
      PROVE  /\ flow' \in [Thread -> FlowPlaces]
             /\ calls' \in [Thread -> Seq(JavaInt)]
             /\ innerEnded' \in [Thread -> BOOLEAN]
  <2>1. calls[t] \in Seq(JavaInt)
    BY <1>0 DEF FilterTypeOK
  <2>2. Front(calls[t]) \in Seq(JavaInt)
    BY <2>1 DEF Front
  <2>3. calls' \in [Thread -> Seq(JavaInt)]
    BY <1>0, <1>b, <2>2 DEF FilterTypeOK, EndDoFilter
  <2>4. innerEnded' \in [Thread -> BOOLEAN]
    BY <1>0, <1>b, <2>1 DEF FilterTypeOK, EndDoFilter
  <2>5. flow' \in [Thread -> FlowPlaces]
    BY <1>b, <1>a DEF EndDoFilter, FlowPlaces
  <2> QED
    BY <2>3, <2>4, <2>5
<1>1. ASSUME NEW t \in Thread, BeforeHandling(t) PROVE FilterTypeOK'
  <2>1. Append(calls[t], uniqueId) \in Seq(JavaInt)
    BY <1>0 DEF FilterTypeOK, TypeOK
  <2>2. flow' \in [Thread -> FlowPlaces]
    BY <1>1, <1>a DEF BeforeHandling, FlowPlaces
  <2>3. calls' \in [Thread -> Seq(JavaInt)]
    BY <1>0, <1>1, <2>1 DEF BeforeHandling, FilterTypeOK
  <2>4. innerEnded' \in [Thread -> BOOLEAN]
    BY <1>0, <1>1 DEF BeforeHandling, FilterTypeOK
  <2> QED
    BY <1>0, <1>1, <2>2, <2>3, <2>4 DEF BeforeHandling, FilterTypeOK, Entries, FlowPlaces
<1>2. ASSUME NEW t \in Thread, PutEnter(t) PROVE FilterTypeOK'
  <2>1. flow' \in [Thread -> FlowPlaces]
    BY <1>2, <1>a DEF PutEnter, FlowPlaces
  <2> QED
    BY <1>0, <1>2, <2>1 DEF PutEnter, FilterTypeOK, Entries, FlowPlaces, nesting
<1>3. ASSUME NEW t \in Thread, NEW o \in Obj, Put(t, o) PROVE FilterTypeOK'
  <2>1. flow' \in [Thread -> FlowPlaces]
    BY <1>3, <1>a DEF Put, FlowPlaces
  <2> QED
    BY <1>0, <1>3, <2>1 DEF Put, FilterTypeOK, Entries, FlowPlaces, nesting
<1>4. ASSUME NEW t \in Thread, PutFails(t) \/ Leave(t) PROVE FilterTypeOK'
  <2>1. EndDoFilter(t, "put") \/ EndDoFilter(t, "after")
    BY <1>4 DEF PutFails, Leave
  <2>2. mapLock' \in {Unlocked} \cup {{u} : u \in Thread}
    BY <1>0, <1>4 DEF PutFails, Leave, FilterTypeOK
  <2> QED
    BY <1>0, <1>4, <1>b, <2>1, <2>2 DEF PutFails, Leave, FilterTypeOK, Entries, FlowPlaces
<1>5. ASSUME NEW t \in Thread, Store(t) PROVE FilterTypeOK'
  <2>1. flow' \in [Thread -> FlowPlaces]
    BY <1>5, <1>a DEF Store, FlowPlaces
  <2>2. pc[t] # "tag" /\ flow[t] = "store"
    BY <1>5 DEF Store, AtJava, Flow
  <2>3. entry[t] \in Obj
    BY <1>0, <2>2 DEF ThreadInv, EntryInv, HeldFor
  <2>4. arg[t].id \in JavaInt
    BY <1>0 DEF TypeOK
  <2>5. DOMAIN details' \subseteq JavaInt /\ Entries' \subseteq Obj
    BY <1>0, <1>5, <2>3, <2>4 DEF Store, FilterTypeOK, Entries, Range
  <2>6. entry' \in [Thread -> Obj \cup {NoObj}]
    BY <1>0, <1>5 DEF Store, FilterTypeOK
  <2> QED
    BY <1>0, <1>5, <2>1, <2>4, <2>5, <2>6 DEF Store, FilterTypeOK, FlowPlaces, nesting
<1>6. ASSUME NEW t \in Thread, AfterHandling(t) \/ CollectStats(t) \/ StatsFail(t)
      PROVE  FilterTypeOK'
  <2>1. flow' \in [Thread -> FlowPlaces]
    BY <1>6, <1>a DEF AfterHandling, CollectStats, StatsFail, FlowPlaces
  <2> QED
    BY <1>0, <1>6, <2>1 DEF AfterHandling, CollectStats, StatsFail, FilterTypeOK, Entries,
                            FlowPlaces, nesting
<1>7. ASSUME NEW t \in Thread, Snapshot(t) PROVE FilterTypeOK'
  <2>1. flow' \in [Thread -> FlowPlaces]
    BY <1>7, <1>a DEF Snapshot, FlowPlaces
  <2>2. unusedKeys' \in [Thread -> SUBSET JavaInt]
    BY <1>0, <1>7 DEF Snapshot, FilterTypeOK
  <2> QED
    BY <1>0, <1>7, <2>1, <2>2 DEF Snapshot, FilterTypeOK, Entries, FlowPlaces, nesting
<1>8. ASSUME NEW t \in Thread, RemoveUsed(t) PROVE FilterTypeOK'
  <2>1. flow' \in [Thread -> FlowPlaces]
    BY <1>8, <1>a DEF RemoveUsed, FlowPlaces
  <2>2. unusedKeys' \in [Thread -> SUBSET JavaInt]
    BY <1>0, <1>8 DEF RemoveUsed, FilterTypeOK
  <2> QED
    BY <1>0, <1>8, <2>1, <2>2 DEF RemoveUsed, FilterTypeOK, Entries, FlowPlaces, nesting
<1>9. ASSUME NEW t \in Thread, RemoveUnused(t) PROVE FilterTypeOK'
  <2>1. flow' \in [Thread -> FlowPlaces]
    BY <1>9, <1>a DEF RemoveUnused, FlowPlaces
  <2>2. unusedKeys' \in [Thread -> SUBSET JavaInt]
    BY <1>0, <1>9 DEF RemoveUnused, FilterTypeOK
  <2>3. DOMAIN details' \subseteq JavaInt /\ Entries' \subseteq Obj
    BY <1>0, <1>9, NothingRemoved DEF FilterTypeOK, Entries, Range
  <2> QED
    BY <1>0, <1>9, <2>1, <2>2, <2>3 DEF RemoveUnused, FilterTypeOK, FlowPlaces, nesting
<1>10. CASE UNCHANGED filterVars
  BY <1>0, <1>10 DEF filterVars, FilterTypeOK, Entries
<1>11. ASSUME NEW t \in Thread, FilterStep(t) PROVE FilterTypeOK'
  <2>1. ASSUME NEW o \in Obj, Chain(t, o) PROVE FilterTypeOK'
    BY <1>10, <2>1 DEF Chain
  <2> QED
    BY <1>1, <1>2, <1>3, <1>4, <1>5, <1>6, <1>7, <1>8, <1>9, <1>11, <2>1 DEF FilterStep
<1> QED
  BY <1>10, <1>11 DEF FilterNext, vars

-----------------------------------------------------------------------------
\* The map: a put files a tagged entry, and nothing takes one away.

\* No step of the filter shrinks the map or leaves an entry untagged in it.
LEMMA MapStep == FilterInv /\ [FilterNext]_vars => MapInv' /\ DOMAIN details \subseteq DOMAIN details'
<1> SUFFICES ASSUME FilterInv, [FilterNext]_vars
             PROVE  MapInv' /\ DOMAIN details \subseteq DOMAIN details'
  OBVIOUS
<1>0. /\ FilterTypeOK /\ MapInv /\ Kept
      /\ \A t \in Thread : ThreadInv(t)
  BY ReferencedKept DEF FilterInv
<1>1. ASSUME NEW t \in Thread, Store(t) PROVE MapInv' /\ DOMAIN details \subseteq DOMAIN details'
  <2>1. /\ pc[t] # "tag" /\ flow[t] = "store"
        /\ details' = [id \in DOMAIN details \cup {arg[t].id} |->
                         IF id = arg[t].id THEN entry[t] ELSE details[id]]
        /\ filed' = filed \cup {arg[t].id}
        /\ heap' = heap
    BY <1>1 DEF Store, AtJava, Flow, trackVars, heapVars
  <2>2. arg[t].id # 0 /\ HeldFor(entry[t], arg[t].id)
    BY <1>0, <2>1 DEF ThreadInv, IdInv, EntryInv
  <2>3. DOMAIN details' = DOMAIN details \cup {arg[t].id}
    BY <2>1
  <2>4. ASSUME NEW id \in DOMAIN details' PROVE id # 0 /\ HeldFor(details[id], id)'
    BY <1>0, <2>1, <2>2, <2>3 DEF MapInv, HeldFor
  <2>5. filed' \subseteq DOMAIN details'
    BY <1>0, <2>1, <2>3 DEF MapInv
  <2> QED
    BY <2>3, <2>4, <2>5 DEF MapInv
<1>2. ASSUME NEW t \in Thread, RemoveUnused(t)
      PROVE  MapInv' /\ DOMAIN details \subseteq DOMAIN details'
  <2>1. filed' = filed
    BY <1>2 DEF RemoveUnused
  <2> QED
    BY <1>0, <1>2, <2>1, NothingRemoved, MapUntouched
<1>3. ASSUME UNCHANGED <<details, filed>>
      PROVE  MapInv' /\ DOMAIN details \subseteq DOMAIN details'
  BY <1>0, <1>3, MapUntouched
<1>4. ASSUME NEW t \in Thread, FilterStep(t)
      PROVE  \/ Store(t) \/ RemoveUnused(t)
             \/ UNCHANGED <<details, filed>>
  BY <1>4 DEF FilterStep, BeforeHandling, PutEnter, Put, PutFails, Chain, AfterHandling, Leave,
              Snapshot, CollectStats, RemoveUsed, StatsFail, filterVars
<1> QED
  BY <1>1, <1>2, <1>3, <1>4 DEF FilterNext, vars, filterVars

-----------------------------------------------------------------------------
\* The thread that takes the step.

\* Only what belongs to thread t changes.
OnlyOf(t) ==
    \A u \in Thread \ {t} :
        /\ flow'[u] = flow[u] /\ pc'[u] = pc[u] /\ tls'[u] = tls[u] /\ arg'[u] = arg[u]
        /\ calls'[u] = calls[u] /\ innerEnded'[u] = innerEnded[u]
        /\ entry'[u] = entry[u] /\ fresh'[u] = fresh[u]
        /\ unusedKeys'[u] = unusedKeys[u] /\ counted'[u] = counted[u]

\* Every step but those of the machine is one thread's.
LEMMA TrackerStepOnlyOf ==
  ASSUME TypeOK, NEW t \in Thread, TrackerStep(t), UNCHANGED filterVars
  PROVE  OnlyOf(t)
BY DEF TypeOK, OnlyOf, TrackerStep, native_start_request, tagObject, ForceGC, Walk, BuildResult,
       BuildFails, Built, Transition, filterVars, requestVars, heapVars, statsVars

\* A step of one thread in the filter leaves the places of the others alone.
LEMMA FilterStepOnlyOf ==
  ASSUME TypeOK, FilterTypeOK, NEW t \in Thread, FilterStep(t)
  PROVE  OnlyOf(t)
<1> USE DEF TypeOK, FilterTypeOK, OnlyOf, Flow, nesting, trackVars, requestVars, heapVars, statsVars
<1>1. CASE BeforeHandling(t)
  BY <1>1 DEF BeforeHandling, startRequest, Transition
<1>2. CASE PutEnter(t) \/ Store(t) \/ Snapshot(t) \/ RemoveUnused(t)
  BY <1>2 DEF PutEnter, Store, Snapshot, RemoveUnused
<1>3. CASE \E o \in Obj : Put(t, o) \/ Chain(t, o)
  BY <1>3 DEF Put, Chain, Allocate, Transition, filterVars
<1>4. CASE PutFails(t) \/ Leave(t)
  BY <1>4 DEF PutFails, Leave, EndDoFilter
<1>5. CASE AfterHandling(t) \/ CollectStats(t)
  BY <1>5 DEF AfterHandling, CollectStats, endRequest, getRequestStats, Transition
<1>6. CASE RemoveUsed(t) \/ StatsFail(t)
  BY <1>6 DEF RemoveUsed, StatsFail, Resume, Transition
<1> QED
  BY <1>1, <1>2, <1>3, <1>4, <1>5, <1>6 DEF FilterStep

\* Steps inside the tracker: startRequest sets the thread's id, tagging gives the
\* entry the id it is stored under, and the walk reports every entry of the map.
LEMMA TrackerStepOwn ==
  ASSUME FilterInv, NEW t \in Thread, TrackerStep(t), UNCHANGED filterVars, Kept
  PROVE  ThreadInv(t)'
<1>0. /\ FilterTypeOK /\ MapInv /\ TypeOK /\ FreshMatch /\ ThreadInv(t)
      /\ PlaceInv(t) /\ IdInv(t) /\ EntryInv(t) /\ KeyInv(t) /\ CallInv(t)
  BY DEF FilterInv, TrackInv, AttributionInv, ThreadInv
<1>a. CallInv(t)'
  BY <1>0 DEF CallInv, Depth, filterVars
<1>1. ASSUME native_start_request(t) PROVE ThreadInv(t)'
  <2>1. /\ pc[t] = "set" /\ pc'[t] = "java" /\ tls'[t] = arg[t].id
        /\ UNCHANGED <<arg, heap, fresh, counted>>
    BY <1>0, <1>1 DEF native_start_request, Transition, TypeOK, requestVars, heapVars, statsVars
  <2>2. flow[t] \in {"put_enter", "after"}
    BY <1>0, <2>1 DEF PlaceInv, FilterTypeOK
  <2>3. PlaceInv(t)' /\ EntryInv(t)' /\ KeyInv(t)'
    BY <2>1, <2>2 DEF PlaceInv, EntryInv, KeyInv, filterVars
  <2>4. IdInv(t)'
    BY <1>0, <2>1, <2>2 DEF IdInv, Depth, filterVars
  <2> QED
    BY <1>a, <2>3, <2>4 DEF ThreadInv
<1>2. ASSUME tagObject(t, "tag", "java") PROVE ThreadInv(t)'
  <2>1. /\ pc[t] = "tag" /\ pc'[t] = "java" /\ UNCHANGED <<tls, arg, counted>>
        /\ heap' = [heap EXCEPT ![fresh[t]].tag = tls[t]]
    BY <1>0, <1>2 DEF tagObject, Transition, TypeOK, requestVars, statsVars
  <2>2. flow[t] \in {"store", "chain"}
    BY <1>0, <2>1 DEF PlaceInv, FilterTypeOK
  <2>3. PlaceInv(t)' /\ KeyInv(t)'
    BY <2>1, <2>2 DEF PlaceInv, KeyInv, filterVars
  <2>4. IdInv(t)'
    BY <1>0, <2>1, <2>2 DEF IdInv, Depth, filterVars
  <2>5. ASSUME flow[t] = "store" PROVE HeldFor(entry[t], arg[t].id)'
    <3>1. entry[t] = fresh[t] /\ tls[t] = arg[t].id
      BY <1>0, <2>1, <2>5 DEF EntryInv, IdInv
    <3>2. fresh[t] \in Obj
      BY <1>0, <2>1 DEF FreshMatch
    <3>3. heap[fresh[t]].state = "held"
      BY <1>0, <3>2, FreshHeld
    <3>4. heap'[fresh[t]].state = "held" /\ heap'[fresh[t]].tag = tls[t]
      BY <1>0, <2>1, <3>2, <3>3 DEF TypeOK, Object
    <3> QED
      BY <2>1, <3>1, <3>2, <3>4 DEF HeldFor, filterVars
  <2>6. EntryInv(t)'
    BY <2>1, <2>5 DEF EntryInv, filterVars
  <2> QED
    BY <1>a, <2>3, <2>4, <2>6 DEF ThreadInv
<1>3. ASSUME Walk(t) PROVE ThreadInv(t)'
  <2>1. /\ pc[t] = "walk" /\ pc'[t] \in {"build", "thrown"} /\ UNCHANGED <<heap, fresh, arg, tls>>
    BY <1>0, <1>3 DEF Walk, Transition, TypeOK, requestVars, heapVars
  <2>2. flow[t] = "used"
    BY <1>0, <2>1 DEF PlaceInv, FilterTypeOK
  <2>3. ASSUME pc'[t] = "build", NEW id \in unusedKeys[t] PROVE id \in Reported(t)'
    <3>1. counted'[t] = {<<o, heap[o].tag>> : o \in {p \in Obj : Counts(p)}}
      BY <1>0, <1>3, <2>3 DEF Walk, Transition, TypeOK
    <3>2. id \in DOMAIN details
      BY <1>0, <2>2, <2>3 DEF KeyInv
    <3>3. id # 0 /\ HeldFor(details[id], id)
      BY <1>0, <3>2 DEF MapInv
    <3>4. details[id] \in {p \in Obj : Counts(p)} /\ heap[details[id]].tag = id
      BY <3>3 DEF HeldFor, Counts
    <3>5. <<details[id], id>> \in counted'[t]
      BY <3>1, <3>4
    <3>6. <<details[id], id>>[2] = id
      OBVIOUS
    <3> QED
      BY <3>5, <3>6 DEF Reported
  <2>4. KeyInv(t)'
    BY <1>0, <2>1, <2>2, <2>3 DEF KeyInv, filterVars
  <2>5. PlaceInv(t)' /\ IdInv(t)' /\ EntryInv(t)'
    BY <2>1, <2>2 DEF PlaceInv, IdInv, EntryInv, filterVars
  <2> QED
    BY <1>a, <2>4, <2>5 DEF ThreadInv
<1>4. ASSUME ForceGC(t) \/ (\E o \in Obj : BuildResult(t, o)) \/ tagObject(t, "build_tag", "build")
             \/ BuildFails(t) \/ Built(t)
      PROVE  ThreadInv(t)'
  <2>1. /\ \/ pc[t] = "gc" /\ pc'[t] = "walk"
           \/ pc[t] = "build" /\ pc'[t] \in {"build_tag", "thrown", "returned"}
           \/ pc[t] = "build_tag" /\ pc'[t] = "build"
        /\ UNCHANGED <<arg, tls, counted>>
    BY <1>0, <1>4 DEF ForceGC, BuildResult, tagObject, BuildFails, Built, Transition, TypeOK,
                      requestVars, statsVars
  <2>2. flow[t] = "used"
    BY <1>0, <2>1 DEF PlaceInv, FilterTypeOK
  <2>3. PlaceInv(t)' /\ IdInv(t)' /\ EntryInv(t)'
    BY <2>1, <2>2 DEF PlaceInv, IdInv, EntryInv, filterVars
  <2>4. KeyInv(t)'
    BY <1>0, <2>1, <2>2 DEF KeyInv, Reported, filterVars
  <2> QED
    BY <1>a, <2>3, <2>4 DEF ThreadInv
<1> QED
  BY <1>1, <1>2, <1>3, <1>4 DEF TrackerStep

\* Steps of the filter: a request is filed under its own id before it is served,
\* and the end of an inner doFilter leaves the outer request filed.
LEMMA FilterStepOwn ==
  ASSUME BelowWrap, FilterInv, NEW t \in Thread, FilterStep(t), Kept
  PROVE  ThreadInv(t)'
<1>0. /\ FilterTypeOK /\ MapInv /\ TypeOK /\ FreshMatch /\ ThreadInv(t)
      /\ PlaceInv(t) /\ IdInv(t) /\ EntryInv(t) /\ KeyInv(t) /\ CallInv(t)
  BY DEF FilterInv, TrackInv, AttributionInv, ThreadInv
<1>c. calls[t] \in Seq(JavaInt) /\ Depth(t) \in Nat
  BY <1>0 DEF FilterTypeOK, Depth
<1>e. ASSUME NEW from, EndDoFilter(t, from), from \in {"put", "after"}, pc[t] = "java", pc'[t] = "java",
             DOMAIN details' = DOMAIN details
      PROVE  ThreadInv(t)'
  <2>1. /\ flow[t] = from /\ calls' = [calls EXCEPT ![t] = Front(@)]
        /\ IF Depth(t) > 1 THEN flow'[t] = "chain" ELSE flow'[t] = "idle"
        /\ innerEnded'[t] = (Depth(t) > 1)
    BY <1>0, <1>e DEF EndDoFilter, Flow, FilterTypeOK, Depth
  <2>2. /\ calls'[t] = SubSeq(calls[t], 1, Depth(t) - 1)
        /\ Depth(t) > 0
    BY <1>0, <1>c, <1>e, <2>1 DEF FilterTypeOK, Front, Depth, IdInv
  <2>3. /\ Depth(t)' = Depth(t) - 1
        /\ \A i \in 1 .. Depth(t) - 1 : calls'[t][i] = calls[t][i]
    BY <1>c, <2>2 DEF Depth
  <2>4. \A i \in 1 .. Depth(t) - 1 : calls[t][i] \in DOMAIN details
    BY <1>0, <1>c, <1>e, <2>1 DEF CallInv
  <2>5. CallInv(t)'
    <3>1. CASE Depth(t) > 1
      BY <1>c, <1>e, <2>1, <2>3, <2>4, <3>1 DEF CallInv
    <3>2. CASE Depth(t) = 1
      BY <2>1, <2>3, <3>2 DEF CallInv
    <3> QED
      BY <1>c, <2>2, <3>1, <3>2
  <2>6. IdInv(t)'
    <3>1. Depth(t) > 1 => innerEnded'[t]
      BY <2>1, Zenon
    <3>2. Depth(t) > 1 => flow'[t] = "chain" /\ Depth(t)' > 0
      BY <1>c, <2>1, <2>3
    <3>3. ~ Depth(t) > 1 => flow'[t] = "idle"
      BY <2>1
    <3> QED
      BY <3>1, <3>2, <3>3, Zenon DEF IdInv
  <2>7. PlaceInv(t)' /\ EntryInv(t)' /\ KeyInv(t)'
    BY <1>e, <2>1 DEF PlaceInv, EntryInv, KeyInv
  <2> QED
    BY <2>5, <2>6, <2>7 DEF ThreadInv
<1>1. ASSUME BeforeHandling(t) PROVE ThreadInv(t)'
  <2>1. /\ flow[t] \in {"idle", "chain"} /\ flow'[t] = "put_enter" /\ pc'[t] = "set"
        /\ calls'[t] = Append(calls[t], uniqueId) /\ arg'[t].id = uniqueId
        /\ details' = details /\ Len(requests) < MaxRequests
    BY <1>0, <1>1 DEF BeforeHandling, Flow, startRequest, Transition, FilterTypeOK, TypeOK
  <2>2. uniqueId # 0
    <3>1. Len(requests) \in Nat /\ MaxRequests \in Nat /\ MaxInt \in Nat
      BY <1>0, MaxIntAssumption, MaxRequestsAssumption DEF TypeOK
    <3>2. Len(requests) < MaxInt /\ (Len(requests) < MaxInt => uniqueId = Len(requests) + 1)
      BY <2>1, <3>1 DEF FilterInv, TrackInv, IdsInOrder, BelowWrap
    <3> QED
      BY <3>1, <3>2
  <2>3. uniqueId \in JavaInt
    BY <1>0 DEF TypeOK
  <2>4. /\ Depth(t)' = Depth(t) + 1
        /\ calls'[t][Depth(t) + 1] = uniqueId
        /\ \A i \in 1 .. Depth(t) : calls'[t][i] = calls[t][i]
    BY <1>c, <2>1, <2>3 DEF Depth
  <2>5. \A i \in 1 .. Depth(t) : calls[t][i] \in DOMAIN details
    BY <1>0, <1>c, <2>1 DEF CallInv
  <2>6. CallInv(t)'
    <3>1. details' = details
      BY <2>1
    <3>2. \A i \in 1 .. Depth(t) : calls'[t][i] \in DOMAIN details'
      BY <2>4, <2>5, <3>1
    <3>3. Depth(t)' - 1 = Depth(t)
      BY <1>c, <2>4
    <3> QED
      BY <2>1, <3>2, <3>3 DEF CallInv
  <2>7. IdInv(t)'
    <3>1. Depth(t)' > 0
      BY <1>c, <2>4
    <3>2. arg'[t].id = calls'[t][Depth(t)']
      BY <1>c, <2>1, <2>4
    <3>3. arg'[t].id # 0 /\ pc'[t] = "set" /\ flow'[t] = "put_enter"
      BY <2>1, <2>2
    <3> QED
      BY <3>1, <3>2, <3>3 DEF IdInv
  <2>8. PlaceInv(t)' /\ EntryInv(t)' /\ KeyInv(t)'
    BY <2>1 DEF PlaceInv, EntryInv, KeyInv
  <2> QED
    BY <2>6, <2>7, <2>8 DEF ThreadInv
<1>2. ASSUME PutEnter(t) PROVE ThreadInv(t)'
  <2>1. /\ flow[t] = "put_enter" /\ flow'[t] = "put" /\ pc[t] = "java" /\ pc'[t] = pc[t]
        /\ UNCHANGED <<arg, tls, calls, details, innerEnded>>
    BY <1>0, <1>2 DEF PutEnter, AtJava, Flow, FilterTypeOK, trackVars, requestVars, nesting
  <2> QED
    BY <1>0, <2>1 DEF ThreadInv, PlaceInv, IdInv, EntryInv, KeyInv, CallInv, Depth
<1>3. ASSUME NEW o \in Obj, Put(t, o) PROVE ThreadInv(t)'
  <2>1. /\ flow[t] = "put" /\ flow'[t] = "store" /\ pc[t] = "java" /\ pc'[t] = "tag"
        /\ entry'[t] = o /\ fresh'[t] = o
        /\ UNCHANGED <<arg, tls, calls, details, innerEnded>>
    BY <1>0, <1>3 DEF Put, Allocate, Transition, Flow, FilterTypeOK, TypeOK, requestVars, nesting
  <2>2. PlaceInv(t)' /\ EntryInv(t)' /\ KeyInv(t)'
    BY <2>1 DEF PlaceInv, EntryInv, KeyInv
  <2>3. IdInv(t)' /\ CallInv(t)'
    BY <1>0, <2>1 DEF IdInv, CallInv, Depth
  <2> QED
    BY <2>2, <2>3 DEF ThreadInv
<1>4. ASSUME PutFails(t) PROVE ThreadInv(t)'
  BY <1>4, <1>e DEF PutFails, AtJava, trackVars
<1>5. ASSUME Store(t) PROVE ThreadInv(t)'
  <2>1. /\ flow[t] = "store" /\ flow'[t] = "chain" /\ pc[t] = "java" /\ pc'[t] = "java"
        /\ UNCHANGED <<arg, tls, calls, innerEnded>>
        /\ DOMAIN details' = DOMAIN details \cup {arg[t].id}
    BY <1>0, <1>5 DEF Store, AtJava, Flow, FilterTypeOK, trackVars, requestVars, nesting
  <2>2. IdInv(t)'
    BY <1>0, <2>1 DEF IdInv, Depth
  <2>3. /\ arg[t].id = calls[t][Depth(t)]
        /\ \A i \in 1 .. Depth(t) - 1 : calls[t][i] \in DOMAIN details
    BY <1>0, <2>1 DEF IdInv, CallInv
  <2>4. \A i \in 1 .. Depth(t) : calls[t][i] \in DOMAIN details'
    <3>1. \A i \in 1 .. Depth(t) : i = Depth(t) \/ i \in 1 .. Depth(t) - 1
      BY <1>c
    <3> QED
      BY <2>1, <2>3, <3>1
  <2>5. CallInv(t)'
    BY <2>1, <2>4 DEF CallInv, Depth
  <2>6. PlaceInv(t)' /\ EntryInv(t)' /\ KeyInv(t)'
    BY <2>1 DEF PlaceInv, EntryInv, KeyInv
  <2> QED
    BY <2>2, <2>5, <2>6 DEF ThreadInv
<1>6. ASSUME NEW o \in Obj, Chain(t, o) PROVE ThreadInv(t)'
  <2>1. /\ flow[t] = "chain" /\ flow'[t] = "chain" /\ pc'[t] = "tag"
        /\ UNCHANGED <<tls, calls, details, innerEnded>>
    BY <1>0, <1>6 DEF Chain, Allocate, Transition, TypeOK, filterVars, requestVars
  <2> QED
    BY <1>0, <2>1 DEF ThreadInv, PlaceInv, IdInv, EntryInv, KeyInv, CallInv, Depth
<1>7. ASSUME AfterHandling(t) PROVE ThreadInv(t)'
  <2>1. /\ flow[t] = "chain" /\ flow'[t] = "after" /\ pc'[t] = "set"
        /\ UNCHANGED <<calls, details>>
    BY <1>0, <1>7 DEF AfterHandling, endRequest, Transition, TypeOK, Flow, FilterTypeOK, nesting
  <2> QED
    BY <1>0, <2>1 DEF ThreadInv, PlaceInv, IdInv, EntryInv, KeyInv, CallInv, Depth
<1>8. ASSUME Leave(t) PROVE ThreadInv(t)'
  BY <1>8, <1>e DEF Leave, AtJava, trackVars
<1>9. ASSUME Snapshot(t) PROVE ThreadInv(t)'
  <2>1. /\ flow[t] = "idle" /\ flow'[t] = "stats" /\ pc'[t] = "java"
        /\ UNCHANGED <<calls, details>> /\ unusedKeys'[t] = DOMAIN details
    BY <1>0, <1>9 DEF Snapshot, AtJava, Flow, FilterTypeOK, nesting, trackVars
  <2> QED
    BY <1>0, <2>1 DEF ThreadInv, PlaceInv, IdInv, EntryInv, KeyInv, CallInv, Depth
<1>10. ASSUME CollectStats(t) PROVE ThreadInv(t)'
  <2>1. /\ flow[t] = "stats" /\ flow'[t] = "used" /\ pc'[t] = "gc"
        /\ UNCHANGED <<calls, details, unusedKeys>>
    BY <1>0, <1>10 DEF CollectStats, getRequestStats, Transition, Flow, FilterTypeOK, TypeOK, nesting
  <2> QED
    BY <1>0, <2>1 DEF ThreadInv, PlaceInv, IdInv, EntryInv, KeyInv, CallInv, Depth
<1>11. ASSUME RemoveUsed(t) PROVE ThreadInv(t)'
  <2>1. /\ flow[t] = "used" /\ flow'[t] = "remove" /\ pc[t] = "returned" /\ pc'[t] = "java"
        /\ UNCHANGED calls /\ unusedKeys'[t] = unusedKeys[t] \ Reported(t)
    BY <1>0, <1>11 DEF RemoveUsed, Resume, Transition, Flow, FilterTypeOK, TypeOK, nesting
  <2>2. unusedKeys'[t] = {}
    BY <1>0, <2>1 DEF KeyInv
  <2> QED
    BY <1>0, <2>1, <2>2 DEF ThreadInv, PlaceInv, IdInv, EntryInv, KeyInv, CallInv, Depth
<1>12. ASSUME StatsFail(t) \/ RemoveUnused(t) PROVE ThreadInv(t)'
  <2>1. /\ flow[t] \in {"used", "remove"} /\ flow'[t] = "idle" /\ pc'[t] = "java"
        /\ UNCHANGED calls
    BY <1>0, <1>12 DEF StatsFail, RemoveUnused, AtJava, Resume, Transition, Flow, FilterTypeOK,
                       TypeOK, nesting
  <2> QED
    BY <1>0, <2>1 DEF ThreadInv, PlaceInv, IdInv, EntryInv, KeyInv, CallInv, Depth
<1> QED
  BY <1>1, <1>2, <1>3, <1>4, <1>5, <1>6, <1>7, <1>8, <1>9, <1>10, <1>11, <1>12 DEF FilterStep

-----------------------------------------------------------------------------
\* The invariant.

\* Every step keeps what is known of each thread.
LEMMA ThreadStep ==
  BelowWrap /\ FilterInv /\ [FilterNext]_vars => \A u \in Thread : ThreadInv(u)'
<1> SUFFICES ASSUME BelowWrap, FilterInv, [FilterNext]_vars, NEW u \in Thread
             PROVE  ThreadInv(u)'
  OBVIOUS
<1>0. /\ FilterTypeOK /\ TypeOK /\ Kept /\ ThreadInv(u) /\ DOMAIN details \subseteq DOMAIN details'
  BY ReferencedKept, MapStep DEF FilterInv, TrackInv, AttributionInv
<1>1. ASSUME NEW t \in Thread, FilterStep(t) PROVE ThreadInv(u)'
  <2>1. CASE u = t
    BY <1>0, <1>1, <2>1, FilterStepOwn
  <2>2. CASE u # t
    BY <1>0, <1>1, <2>2, FilterStepOnlyOf, Untouched DEF OnlyOf
  <2> QED
    BY <2>1, <2>2
<1>2. ASSUME NEW t \in Thread, TrackerStep(t), UNCHANGED filterVars PROVE ThreadInv(u)'
  <2>1. CASE u = t
    BY <1>0, <1>2, <2>1, TrackerStepOwn
  <2>2. CASE u # t
    BY <1>0, <1>2, <2>2, TrackerStepOnlyOf, Untouched DEF OnlyOf
  <2> QED
    BY <2>1, <2>2
<1>3. ASSUME NEW o \in Obj, Drop(o) \/ Reclaim(o), UNCHANGED filterVars PROVE ThreadInv(u)'
  BY <1>0, <1>3, Untouched DEF Drop, Reclaim, filterVars, requestVars, statsVars
<1>4. CASE UNCHANGED vars
  BY <1>0, <1>4, Untouched DEF vars, filterVars, trackVars, requestVars, heapVars, statsVars
<1> QED
  BY <1>1, <1>2, <1>3, <1>4 DEF FilterNext

\* The filter starts with an empty map.
LEMMA FilterInitInv == FilterInit => FilterInv
<1> SUFFICES ASSUME FilterInit PROVE FilterInv
  OBVIOUS
<1>1. TrackInv
  BY AttributionInit DEF FilterInit, Init, TrackInv, IdsInOrder
<1>2. FilterTypeOK
  BY DEF FilterInit, FilterTypeOK, Entries, Range
<1>3. MapInv
  BY DEF FilterInit, MapInv
<1>4. ASSUME NEW t \in Thread PROVE ThreadInv(t)
  BY DEF FilterInit, Init, ThreadInv, PlaceInv, IdInv, EntryInv, KeyInv, CallInv, Depth
<1> QED
  BY <1>1, <1>2, <1>3, <1>4 DEF FilterInv

\* The invariant is inductive.
LEMMA FilterInvStep == BelowWrap /\ FilterInv /\ [FilterNext]_vars => FilterInv'
BY TrackStep, FilterTypeStep, MapStep, ThreadStep DEF FilterInv

\* The filter, its nested requests, its collectors and the machine's own
\* collections keep the map, the ids and the tags of its entries in agreement.
THEOREM FilterInvariant == ASSUME BelowWrap PROVE FilterSpec => []FilterInv
BY FilterInitInv, FilterInvStep, PTL DEF FilterSpec

\* The variables of the filter keep their types.
THEOREM FilterTypes == ASSUME BelowWrap PROVE FilterSpec => []FilterTypeOK
<1>1. FilterInv => FilterTypeOK
  BY DEF FilterInv
<1> QED
  BY <1>1, FilterInvariant, PTL

\* garbageCollectRequests never drops the details of a request in progress, nor
\* those of a request around one: no matter when its keys, its report and the
\* map it removes from were taken.
THEOREM InProgressStays == ASSUME BelowWrap PROVE FilterSpec => []InProgressKept
<1>1. ASSUME FilterInv, NEW t \in Thread, flow[t] = "chain"
      PROVE  Range(calls[t]) \subseteq DOMAIN details
  <2>1. \A i \in 1 .. Len(calls[t]) : calls[t][i] \in DOMAIN details
    BY <1>1 DEF FilterInv, ThreadInv, CallInv, Depth
  <2>2. DOMAIN calls[t] = 1 .. Len(calls[t])
    BY <1>1 DEF FilterInv, FilterTypeOK
  <2> QED
    BY <2>1, <2>2 DEF Range
<1>2. FilterInv => InProgressKept
  BY <1>1 DEF InProgressKept
<1> QED
  BY <1>2, FilterInvariant, PTL

\* A servlet's allocations are attributed to its own request, from the moment it
\* is called until a doFilter inside its own has ended.
THEOREM ServletsAreTracked == ASSUME BelowWrap PROVE FilterSpec => []TrackedUntilNested
<1>1. FilterInv => TrackedUntilNested
  BY DEF FilterInv, TrackedUntilNested, ThreadInv, IdInv, Depth
<1> QED
  BY <1>1, FilterInvariant, PTL

\* As long as memory of a filed request is in use, its details are there.
THEOREM UsedDetailsStay == ASSUME BelowWrap PROVE FilterSpec => []UsedDetailsKept
<1>1. FilterInv => UsedDetailsKept
  BY DEF FilterInv, MapInv, UsedDetailsKept
<1> QED
  BY <1>1, FilterInvariant, PTL

\* Nothing ever leaves the map: the entries that garbageCollectRequests is there
\* to remove are tagged with their own requests and keep themselves in its reports.
THEOREM NothingIsRemoved ==
  ASSUME BelowWrap PROVE FilterSpec => [][DOMAIN details \subseteq DOMAIN details']_vars
<1>1. FilterInv /\ [FilterNext]_vars => [DOMAIN details \subseteq DOMAIN details']_vars
  BY MapStep
<1> QED
  BY <1>1, FilterInvariant, PTL DEF FilterSpec

\* The filter uses the tracker in no way that RequestTracking leaves out, so that
\* what is proved of the tracker's tags and reports holds of the two together.
THEOREM FilterUsesTracker == ASSUME BelowWrap PROVE FilterSpec => Spec
<1>1. FilterInit => Init
  BY DEF FilterInit
<1> QED
  BY <1>1, Simulation, FilterInvariant, PTL DEF FilterSpec, Spec
=============================================================================
