----------------------- MODULE RequestTrackingProofs -----------------------
(***************************************************************************)
(* Proofs about RequestTracking, for every set of threads and objects, any *)
(* width of uniqueId and any number of requests: types, the attribution of *)
(* objects to requests, and what a report contains.                        *)
(***************************************************************************)
EXTENDS RequestTracking, TLAPS

USE NoObjAssumption, MaxIntAssumption, MaxRequestsAssumption

-----------------------------------------------------------------------------
\* Where a thread can be.
Places == {"java", "set", "tag", "gc", "walk", "build", "build_tag", "returned", "thrown"}

\* Every step keeps the types.
LEMMA TypeStep == TypeOK /\ [Next]_trackVars => TypeOK'
<1> SUFFICES ASSUME TypeOK, [Next]_trackVars PROVE TypeOK'
  OBVIOUS
<1>a. ASSUME NEW t \in Thread, NEW from, NEW to \in Places, Transition(t, from, to)
      PROVE  pc' \in [Thread -> Places]
  BY <1>a DEF Transition, TypeOK, Places
<1> USE DEF requestVars, heapVars, statsVars, callVars
<1>1. ASSUME NEW t \in Thread, startRequest(t) PROVE TypeOK'
  <2>1. pc' \in [Thread -> Places]
    BY <1>1, <1>a DEF startRequest, Places
  <2>2. uniqueId' \in JavaInt
    BY <1>1 DEF startRequest, Increment, JavaInt, TypeOK
  <2>3. requests' \in Seq(JavaInt) /\ Len(requests') \in 0 .. MaxRequests
    BY <1>1 DEF startRequest, TypeOK
  <2>4. arg' \in [Thread -> [id : JavaInt, request : 0 .. MaxRequests]]
    BY <1>1 DEF startRequest, TypeOK
  <2> QED
    BY <1>1, <2>1, <2>2, <2>3, <2>4 DEF startRequest, TypeOK, Places
<1>2. ASSUME NEW t \in Thread, endRequest(t) PROVE TypeOK'
  <2>1. pc' \in [Thread -> Places]
    BY <1>2, <1>a DEF endRequest, Places
  <2>2. 0 \in JavaInt /\ 0 \in 0 .. MaxRequests
    BY DEF JavaInt
  <2>3. [id |-> 0, request |-> 0] \in [id : JavaInt, request : 0 .. MaxRequests]
    BY <2>2
  <2>4. arg' \in [Thread -> [id : JavaInt, request : 0 .. MaxRequests]]
    BY <1>2, <2>3 DEF endRequest, TypeOK
  <2> QED
    BY <1>2, <2>1, <2>4 DEF endRequest, TypeOK, Places
<1>3. ASSUME NEW t \in Thread, native_start_request(t) PROVE TypeOK'
  <2>1. pc' \in [Thread -> Places]
    BY <1>3, <1>a DEF native_start_request, Places
  <2> QED
    BY <1>3, <2>1 DEF native_start_request, TypeOK, Places
<1>4. ASSUME NEW t \in Thread, NEW o \in Obj, Allocate(t, o, "java", "tag") PROVE TypeOK'
  <2>1. pc' \in [Thread -> Places]
    BY <1>4, <1>a DEF Allocate, Places
  <2>2. [state |-> "held", tag |-> 0, owner |-> request[t]] \in Object
    BY DEF Object, JavaInt, TypeOK
  <2>3. heap' \in [Obj -> Object]
    BY <1>4, <2>2 DEF Allocate, TypeOK
  <2>4. fresh' \in [Thread -> Obj \cup {NoObj}]
    BY <1>4 DEF Allocate, TypeOK
  <2> QED
    BY <1>4, <2>1, <2>3, <2>4 DEF Allocate, TypeOK, Places
<1>5. ASSUME NEW t \in Thread, NEW from, NEW to \in Places, tagObject(t, from, to) PROVE TypeOK'
  <2>1. pc' \in [Thread -> Places]
    BY <1>5, <1>a DEF tagObject
  <2>2. heap' \in [Obj -> Object]
    <3>1. tls[t] \in JavaInt /\ \A o \in Obj : heap[o] \in Object
      BY DEF TypeOK
    <3>2. \A o \in Obj : [heap[o] EXCEPT !.tag = tls[t]] \in Object
      BY <3>1 DEF Object
    <3> QED
      BY <1>5, <3>2 DEF tagObject, TypeOK
  <2>3. fresh' \in [Thread -> Obj \cup {NoObj}]
    BY <1>5 DEF tagObject, TypeOK
  <2> QED
    BY <1>5, <2>1, <2>2, <2>3 DEF tagObject, TypeOK, Places
<1>6. ASSUME NEW o \in Obj, Drop(o) PROVE TypeOK'
  <2>0. heap[o] \in Object
    BY DEF TypeOK
  <2>1. [heap[o] EXCEPT !.state = "garbage"] \in Object
    BY <2>0 DEF Object
  <2>2. heap' \in [Obj -> Object]
    BY <1>6, <2>1 DEF Drop, TypeOK
  <2>3. heldSinceCall' \in [Thread -> SUBSET Obj]
    BY <1>6 DEF Drop, TypeOK
  <2> QED
    BY <1>6, <2>2, <2>3 DEF Drop, TypeOK
<1>b. Free \in Object
  BY DEF Free, Object, JavaInt
<1>7. ASSUME NEW o \in Obj, Reclaim(o) PROVE TypeOK'
  <2>1. heap' \in [Obj -> Object]
    BY <1>7, <1>b DEF Reclaim, TypeOK
  <2>2. staleAtCall' \in [Thread -> SUBSET Obj]
    BY <1>7 DEF Reclaim, TypeOK
  <2> QED
    BY <1>7, <2>1, <2>2 DEF Reclaim, TypeOK
<1>8. ASSUME NEW t \in Thread, getRequestStats(t) PROVE TypeOK'
  <2>1. pc' \in [Thread -> Places]
    BY <1>8, <1>a DEF getRequestStats, Places
  <2>2. staleAtCall' \in [Thread -> SUBSET Obj] /\ heldSinceCall' \in [Thread -> SUBSET Obj]
    BY <1>8 DEF getRequestStats, TypeOK, Garbage
  <2> QED
    BY <1>8, <2>1, <2>2 DEF getRequestStats, TypeOK, Places
<1>9. ASSUME NEW t \in Thread, ForceGC(t) PROVE TypeOK'
  <2>1. pc' \in [Thread -> Places]
    BY <1>9, <1>a DEF ForceGC, Places
  <2>2. heap' \in [Obj -> Object]
    BY <1>9, <1>b DEF ForceGC, TypeOK
  <2>3. staleAtCall' \in [Thread -> SUBSET Obj]
    BY <1>9 DEF ForceGC, TypeOK
  <2> QED
    BY <1>9, <2>1, <2>2, <2>3 DEF ForceGC, TypeOK, Places
<1>10. ASSUME NEW t \in Thread, Walk(t) PROVE TypeOK'
  <2>1. pc' \in [Thread -> Places]
    BY <1>10, <1>a DEF Walk, Places
  <2>2. \A o \in Obj : heap[o].tag \in JavaInt
    BY DEF TypeOK, Object
  <2>3. {<<o, heap[o].tag>> : o \in {p \in Obj : Counts(p)}} \in SUBSET (Obj \X JavaInt)
    BY <2>2
  <2>4. {heap[o].tag : o \in {p \in Obj : Counts(p)}} \in SUBSET JavaInt
    BY <2>2
  <2>5. counted' \in [Thread -> SUBSET (Obj \X JavaInt)]
    BY <1>10, <2>3 DEF Walk, TypeOK
  <2>6. todo' \in [Thread -> SUBSET JavaInt]
    BY <1>10, <2>4 DEF Walk, TypeOK
  <2> QED
    BY <1>10, <2>1, <2>5, <2>6 DEF Walk, TypeOK, Places
<1>11. ASSUME NEW t \in Thread, NEW o \in Obj, BuildResult(t, o) PROVE TypeOK'
  <2>1. pc' \in [Thread -> Places]
    BY <1>11, <1>a DEF BuildResult, Places
  <2>2. [state |-> "held", tag |-> 0, owner |-> request[t]] \in Object
    BY DEF Object, JavaInt, TypeOK
  <2>3. heap' \in [Obj -> Object]
    BY <1>11, <2>2 DEF BuildResult, TypeOK
  <2>4. fresh' \in [Thread -> Obj \cup {NoObj}] /\ todo' \in [Thread -> SUBSET JavaInt]
    BY <1>11 DEF BuildResult, TypeOK
  <2> QED
    BY <1>11, <2>1, <2>3, <2>4 DEF BuildResult, TypeOK, Places
<1>12. ASSUME NEW t \in Thread, BuildFails(t) \/ Built(t) PROVE TypeOK'
  <2>1. pc' \in [Thread -> Places]
    BY <1>12, <1>a DEF BuildFails, Built, Places
  <2> QED
    BY <1>12, <2>1 DEF BuildFails, Built, TypeOK, Places
<1>13. ASSUME NEW t \in Thread, Resume(t) PROVE TypeOK'
  <2>1. pc' \in [Thread -> Places]
    BY <1>13, <1>a DEF Resume, Places
  <2>2. counted' \in [Thread -> SUBSET (Obj \X JavaInt)] /\ todo' \in [Thread -> SUBSET JavaInt]
    BY <1>13 DEF Resume, TypeOK
  <2> QED
    BY <1>13, <2>1, <2>2 DEF Resume, TypeOK, Places
<1>14. CASE UNCHANGED trackVars
  BY <1>14 DEF trackVars, TypeOK
<1>15. "java" \in Places /\ "build" \in Places
  BY DEF Places
<1> QED
  BY <1>1, <1>2, <1>3, <1>4, <1>5, <1>6, <1>7, <1>8, <1>9, <1>10, <1>11, <1>12, <1>13, <1>14, <1>15
     DEF Next, Call, TrackerStep

\* Every variable of RequestTracking has its type.
THEOREM Types == Spec => []TypeOK
<1>1. Init => TypeOK
  BY DEF Init, TypeOK, JavaInt, Object, Free
<1> QED
  BY <1>1, TypeStep, PTL DEF Spec

-----------------------------------------------------------------------------
\* Ids.

\* Threads and objects belong to requests that were started, and the thread
\* local storage, like the argument on its way to it, holds that request's id.
IdsMatch ==
    /\ \A t \in Thread :
          /\ arg[t].request <= Len(requests) /\ arg[t].id = IdOf(arg[t].request)
          /\ request[t] <= Len(requests) /\ tls[t] = IdOf(request[t])
    /\ \A o \in Obj : heap[o].owner <= Len(requests)

\* What a step does to the requests: none, or a new one with the next id.
RequestsGrow ==
    \/ requests' = requests
    \/ requests' = Append(requests, uniqueId)

\* Ids are given one at a time and stay given.
LEMMA RequestsOnlyGrow == [Next]_trackVars => RequestsGrow
  BY DEF RequestsGrow, Next, Call, TrackerStep, startRequest, endRequest, native_start_request,
         Allocate, tagObject, Drop, Reclaim, getRequestStats, ForceGC, Walk, BuildResult,
         BuildFails, Built, Resume, trackVars, requestVars

\* The id of a request never changes.
LEMMA IdsStay ==
  ASSUME TypeOK, RequestsGrow, NEW n \in 0 .. MaxRequests, n <= Len(requests)
  PROVE  IdOf(n)' = IdOf(n) /\ n <= Len(requests)'
<1>1. requests \in Seq(JavaInt) /\ uniqueId \in JavaInt
  BY DEF TypeOK
<1>2. CASE requests' = requests
  BY <1>2, <1>1 DEF IdOf
<1>3. CASE requests' = Append(requests, uniqueId)
  <2>1. Len(requests') = Len(requests) + 1 /\ \A i \in 1 .. Len(requests) : requests'[i] = requests[i]
    BY <1>1, <1>3
  <2>2. Len(requests) \in Nat
    BY <1>1
  <2> QED
    BY <2>1, <2>2 DEF IdOf
<1> QED
  BY <1>2, <1>3 DEF RequestsGrow

\* Every step keeps the threads' ids those of their requests.
LEMMA IdsMatchStep == TypeOK /\ TypeOK' /\ IdsMatch /\ [Next]_trackVars => IdsMatch'
<1> SUFFICES ASSUME TypeOK, TypeOK', IdsMatch, [Next]_trackVars PROVE IdsMatch'
  OBVIOUS
<1>0. RequestsGrow
  BY RequestsOnlyGrow
<1>1. /\ \A t \in Thread : arg[t].request \in 0 .. MaxRequests /\ request[t] \in 0 .. MaxRequests
      /\ \A o \in Obj : heap[o].owner \in 0 .. MaxRequests
  BY DEF TypeOK, Object
<1>2. \A n \in 0 .. MaxRequests :
         n <= Len(requests) => IdOf(n)' = IdOf(n) /\ n <= Len(requests)'
  BY <1>0, IdsStay
\* With the same arguments, storage and requests of threads, and owners of
\* objects that are old or 0 or the request of a thread, all still match.
<1>3. ASSUME \A t \in Thread :
                \/ arg'[t] = arg[t]
                \/ arg'[t] = [id |-> 0, request |-> 0]
                \/ /\ arg'[t].id = uniqueId /\ arg'[t].request = Len(requests) + 1
                   /\ requests' = Append(requests, uniqueId),
             \A t \in Thread :
                \/ tls'[t] = tls[t] /\ request'[t] = request[t]
                \/ tls'[t] = arg[t].id /\ request'[t] = arg[t].request,
             \A o \in Obj :
                \/ heap'[o].owner = heap[o].owner
                \/ heap'[o].owner = 0
                \/ \E t \in Thread : heap'[o].owner = request[t]
      PROVE  IdsMatch'
  <2>1. requests \in Seq(JavaInt) /\ requests' \in Seq(JavaInt) /\ uniqueId \in JavaInt
    BY DEF TypeOK
  <2>2. ASSUME NEW t \in Thread PROVE arg'[t].request <= Len(requests') /\ arg'[t].id = IdOf(arg[t].request)'
    <3>1. CASE arg'[t] = arg[t]
      BY <3>1, <1>1, <1>2 DEF IdsMatch, IdOf
    <3>2. CASE arg'[t] = [id |-> 0, request |-> 0]
      BY <3>2, <2>1 DEF IdOf
    <3>3. CASE /\ arg'[t].id = uniqueId /\ arg'[t].request = Len(requests) + 1
               /\ requests' = Append(requests, uniqueId)
      <4>1. Len(requests) \in Nat /\ Len(requests') = Len(requests) + 1
        BY <3>3, <2>1
      <4>2. requests'[Len(requests) + 1] = uniqueId
        BY <3>3, <2>1
      <4> QED
        BY <3>3, <4>1, <4>2 DEF IdOf
    <3> QED
      BY <1>3, <3>1, <3>2, <3>3
  <2>3. ASSUME NEW t \in Thread
        PROVE  request'[t] <= Len(requests') /\ tls'[t] = IdOf(request[t])'
    <3>1. CASE tls'[t] = tls[t] /\ request'[t] = request[t]
      BY <3>1, <1>1, <1>2 DEF IdsMatch, IdOf
    <3>2. CASE tls'[t] = arg[t].id /\ request'[t] = arg[t].request
      BY <3>2, <1>1, <1>2 DEF IdsMatch, IdOf
    <3> QED
      BY <1>3, <3>1, <3>2
  <2>4. ASSUME NEW o \in Obj PROVE heap'[o].owner <= Len(requests')
    BY <2>1, <1>1, <1>2, <1>3 DEF IdsMatch
  <2> QED
    BY <2>2, <2>3, <2>4 DEF IdsMatch
<1> USE DEF requestVars, heapVars, statsVars, callVars
<1>4. ASSUME NEW t \in Thread, startRequest(t) PROVE IdsMatch'
  BY <1>4, <1>3 DEF startRequest, TypeOK
<1>5. ASSUME NEW t \in Thread, endRequest(t) PROVE IdsMatch'
  BY <1>5, <1>3 DEF endRequest, TypeOK
<1>6. ASSUME NEW t \in Thread, native_start_request(t) PROVE IdsMatch'
  BY <1>6, <1>3 DEF native_start_request, TypeOK
<1>7. ASSUME NEW t \in Thread, NEW o \in Obj,
             Allocate(t, o, "java", "tag") \/ BuildResult(t, o) PROVE IdsMatch'
  <2>1. /\ heap' = [heap EXCEPT ![o] = [state |-> "held", tag |-> 0, owner |-> request[t]]]
        /\ UNCHANGED requestVars
    BY <1>7 DEF Allocate, BuildResult
  <2>2. \A p \in Obj : heap'[p].owner \in {heap[p].owner, request[t]}
    BY <2>1 DEF TypeOK
  <2> QED
    BY <2>1, <2>2, <1>3
<1>8. ASSUME NEW t \in Thread, NEW from, NEW to, tagObject(t, from, to) PROVE IdsMatch'
  <2>1. \A o \in Obj : heap'[o].owner = heap[o].owner
    BY <1>8 DEF tagObject, TypeOK, Object
  <2> QED
    BY <1>8, <2>1, <1>3 DEF tagObject
<1>9. ASSUME NEW o \in Obj, Drop(o) \/ Reclaim(o) PROVE IdsMatch'
  <2>1. ASSUME NEW p \in Obj PROVE heap'[p].owner \in {heap[p].owner, 0}
    <3>1. CASE Drop(o)
      BY <3>1 DEF Drop, TypeOK, Object
    <3>2. CASE Reclaim(o)
      BY <3>2 DEF Reclaim, Free, TypeOK
    <3> QED
      BY <1>9, <3>1, <3>2
  <2> QED
    BY <1>9, <2>1, <1>3 DEF Drop, Reclaim
<1>10. ASSUME NEW t \in Thread, ForceGC(t) PROVE IdsMatch'
  BY <1>10, <1>3 DEF ForceGC, Free
<1>11. CASE UNCHANGED <<requestVars, heapVars>>
  BY <1>11, <1>3
<1>12. ASSUME NEW t \in Thread,
              getRequestStats(t) \/ Walk(t) \/ BuildFails(t) \/ Built(t) \/ Resume(t)
       PROVE  IdsMatch'
  BY <1>12, <1>11 DEF getRequestStats, Walk, BuildFails, Built, Resume
<1> QED
  BY <1>4, <1>5, <1>6, <1>7, <1>8, <1>9, <1>10, <1>11, <1>12
     DEF Next, Call, TrackerStep, trackVars

-----------------------------------------------------------------------------
\* Objects on their way to a tag.

\* A thread holds the object it has allocated and not tagged, alone, until it
\* tags it; free objects carry nothing.
FreshMatch ==
    /\ \A t \in Thread :
          IF pc[t] \in {"tag", "build_tag"}
          THEN /\ fresh[t] \in Obj
               /\ heap[fresh[t]] = [state |-> "held", tag |-> 0, owner |-> request[t]]
          ELSE fresh[t] = NoObj
    /\ \A t, u \in Thread : t # u => fresh[t] # fresh[u] \/ fresh[t] = NoObj
    /\ \A o \in Obj : heap[o].state = "free" => heap[o] = Free

\* An object under construction is held and has no tag.
LEMMA FreshHeld ==
  ASSUME FreshMatch, NEW t \in Thread, fresh[t] \in Obj
  PROVE  /\ heap[fresh[t]] = [state |-> "held", tag |-> 0, owner |-> request[t]]
         /\ heap[fresh[t]].state = "held" /\ heap[fresh[t]].tag = 0
         /\ heap[fresh[t]].owner = request[t]
<1>1. fresh[t] # NoObj
  BY NoObjAssumption
<1>2. pc[t] \in {"tag", "build_tag"}
  BY <1>1 DEF FreshMatch
<1>3. heap[fresh[t]] = [state |-> "held", tag |-> 0, owner |-> request[t]]
  BY <1>2 DEF FreshMatch
<1> QED
  BY <1>3

\* A step that moves t neither to nor from an allocation, and changes no object
\* under construction and none that stays allocated.
LEMMA FreshUntouched ==
  ASSUME TypeOK, FreshMatch,
         fresh' = fresh,
         \A t \in Thread : \/ pc'[t] = pc[t] /\ (fresh[t] \in Obj => request'[t] = request[t])
                           \/ {pc[t], pc'[t]} \cap {"tag", "build_tag"} = {},
         \A o \in Obj : heap'[o] # heap[o] =>
            (\A t \in Thread : fresh[t] # o) /\ (heap'[o].state = "free" => heap'[o] = Free)
  PROVE  FreshMatch'
<1>1. ASSUME NEW t \in Thread, pc'[t] \in {"tag", "build_tag"}
      PROVE  /\ fresh'[t] \in Obj
             /\ heap'[fresh'[t]] = [state |-> "held", tag |-> 0, owner |-> request'[t]]
  <2>1. pc'[t] = pc[t]
    BY <1>1
  <2> QED
    BY <1>1, <2>1 DEF FreshMatch
<1>2. ASSUME NEW t \in Thread, pc'[t] \notin {"tag", "build_tag"} PROVE fresh'[t] = NoObj
  BY <1>2 DEF FreshMatch
<1>3. ASSUME NEW o \in Obj, heap'[o].state = "free" PROVE heap'[o] = Free
  BY <1>3 DEF FreshMatch
<1> QED
  BY <1>1, <1>2, <1>3 DEF FreshMatch

\* Every step keeps an object under construction its thread's own.
LEMMA FreshMatchStep == TypeOK /\ FreshMatch /\ [Next]_trackVars => FreshMatch'
<1> SUFFICES ASSUME TypeOK, FreshMatch, [Next]_trackVars PROVE FreshMatch'
  OBVIOUS
<1> USE DEF requestVars, heapVars, statsVars, callVars
<1>1. ASSUME NEW t \in Thread, NEW o \in Obj,
             Allocate(t, o, "java", "tag") \/ BuildResult(t, o)
      PROVE  FreshMatch'
  <2>1. /\ heap[o].state = "free"
        /\ heap' = [heap EXCEPT ![o] = [state |-> "held", tag |-> 0, owner |-> request[t]]]
        /\ fresh' = [fresh EXCEPT ![t] = o]
        /\ pc' = [pc EXCEPT ![t] = "tag"] \/ pc' = [pc EXCEPT ![t] = "build_tag"]
        /\ request' = request
    BY <1>1 DEF Allocate, BuildResult, Transition
  <2>2. \A u \in Thread : fresh[u] # o
    BY <2>1, FreshHeld
  <2>3. ASSUME NEW u \in Thread
        PROVE  IF pc'[u] \in {"tag", "build_tag"}
               THEN /\ fresh'[u] \in Obj
                    /\ heap'[fresh'[u]] = [state |-> "held", tag |-> 0, owner |-> request'[u]]
               ELSE fresh'[u] = NoObj
    <3>1. CASE u = t
      BY <2>1, <3>1 DEF TypeOK
    <3>2. CASE u # t
      BY <2>1, <2>2, <3>2 DEF TypeOK, FreshMatch
    <3> QED
      BY <3>1, <3>2
  <2>4. \A u, v \in Thread : u # v => fresh'[u] # fresh'[v] \/ fresh'[u] = NoObj
    BY <2>1, <2>2 DEF TypeOK, FreshMatch
  <2>5. \A p \in Obj : heap'[p].state = "free" => heap'[p] = Free
    BY <2>1 DEF TypeOK, FreshMatch
  <2> QED
    BY <2>3, <2>4, <2>5 DEF FreshMatch
<1>2. ASSUME NEW t \in Thread, NEW to,
             \/ to = "java" /\ tagObject(t, "tag", to)
             \/ to = "build" /\ tagObject(t, "build_tag", to)
      PROVE  FreshMatch'
  <2>1. /\ fresh[t] \in Obj /\ heap[fresh[t]].state = "held"
        /\ heap' = [heap EXCEPT ![fresh[t]].tag = tls[t]]
        /\ fresh' = [fresh EXCEPT ![t] = NoObj]
        /\ pc' = [pc EXCEPT ![t] = to]
        /\ request' = request
    <3>1. pc[t] \in {"tag", "build_tag"}
      BY <1>2 DEF tagObject, Transition
    <3>2. fresh[t] \in Obj
      BY <3>1 DEF FreshMatch
    <3> QED
      BY <1>2, <3>2, FreshHeld DEF tagObject, Transition
  <2>2. \A o \in Obj : /\ o # fresh[t] => heap'[o] = heap[o]
                       /\ heap'[o].state = heap[o].state
    BY <2>1 DEF TypeOK, Object
  <2>3. ASSUME NEW u \in Thread
        PROVE  IF pc'[u] \in {"tag", "build_tag"}
               THEN /\ fresh'[u] \in Obj
                    /\ heap'[fresh'[u]] = [state |-> "held", tag |-> 0, owner |-> request'[u]]
               ELSE fresh'[u] = NoObj
    <3>1. CASE u = t
      BY <1>2, <2>1, <3>1 DEF TypeOK
    <3>2. CASE u # t
      <4>1. pc'[u] = pc[u] /\ fresh'[u] = fresh[u] /\ request'[u] = request[u]
        BY <2>1, <3>2 DEF TypeOK
      <4>2. fresh[u] \in Obj => fresh[u] # fresh[t]
        BY <3>2, NoObjAssumption DEF FreshMatch
      <4> QED
        BY <4>1, <4>2, <2>2 DEF FreshMatch
    <3> QED
      BY <3>1, <3>2
  <2>4. \A u, v \in Thread : u # v => fresh'[u] # fresh'[v] \/ fresh'[u] = NoObj
    BY <2>1 DEF TypeOK, FreshMatch
  <2>5. \A o \in Obj : heap'[o].state = "free" => heap'[o] = Free
    BY <2>1, <2>2 DEF FreshMatch
  <2> QED
    BY <2>3, <2>4, <2>5 DEF FreshMatch
<1>3. ASSUME NEW t \in Thread, startRequest(t) \/ endRequest(t) \/ native_start_request(t)
      PROVE  FreshMatch'
  <2>1. heap' = heap /\ fresh' = fresh
    BY <1>3 DEF startRequest, endRequest, native_start_request
  <2>2. \A u \in Thread : u # t => pc'[u] = pc[u] /\ request'[u] = request[u]
    BY <1>3 DEF startRequest, endRequest, native_start_request, Transition, TypeOK
  <2>3. {pc[t], pc'[t]} \cap {"tag", "build_tag"} = {}
    BY <1>3 DEF startRequest, endRequest, native_start_request, Transition, TypeOK
  <2> QED
    BY <2>1, <2>2, <2>3, FreshUntouched
<1>4. ASSUME NEW t \in Thread,
             getRequestStats(t) \/ Walk(t) \/ BuildFails(t) \/ Built(t) \/ Resume(t)
      PROVE  FreshMatch'
  <2>1. UNCHANGED <<requestVars, heapVars>>
    BY <1>4 DEF getRequestStats, Walk, BuildFails, Built, Resume
  <2>2. \A u \in Thread : u # t => pc'[u] = pc[u]
    BY <1>4 DEF getRequestStats, Walk, BuildFails, Built, Resume, Transition, TypeOK
  <2>3. {pc[t], pc'[t]} \cap {"tag", "build_tag"} = {}
    BY <1>4 DEF getRequestStats, Walk, BuildFails, Built, Resume, Transition, TypeOK
  <2> QED
    BY <2>1, <2>2, <2>3, FreshUntouched
<1>5. ASSUME NEW t \in Thread, ForceGC(t) PROVE FreshMatch'
  <2>1. \A o \in Obj : heap'[o] # heap[o] => heap[o].state = "garbage" /\ heap'[o] = Free
    BY <1>5 DEF ForceGC, Collected, Garbage
  <2>2. \A o \in Obj, u \in Thread : heap[o].state = "garbage" => fresh[u] # o
    BY FreshHeld
  <2>3. fresh' = fresh /\ request' = request
    BY <1>5 DEF ForceGC
  <2>4. \A u \in Thread : \/ pc'[u] = pc[u]
                          \/ {pc[u], pc'[u]} \cap {"tag", "build_tag"} = {}
    BY <1>5 DEF ForceGC, Transition, TypeOK
  <2> QED
    BY <2>1, <2>2, <2>3, <2>4, FreshUntouched
<1>6. ASSUME NEW o \in Obj, Drop(o) \/ Reclaim(o) PROVE FreshMatch'
  <2>1. fresh' = fresh /\ request' = request /\ pc' = pc
    BY <1>6 DEF Drop, Reclaim
  <2>2. \A u \in Thread : fresh[u] # o
    BY <1>6, FreshHeld DEF Drop, Reclaim
  <2>3. ASSUME NEW p \in Obj, heap'[p] # heap[p]
        PROVE  p = o /\ (heap'[p].state = "free" => heap'[p] = Free)
    <3>1. CASE Drop(o)
      BY <3>1, <2>3 DEF Drop, TypeOK, Object
    <3>2. CASE Reclaim(o)
      BY <3>2, <2>3 DEF Reclaim, TypeOK
    <3> QED
      BY <1>6, <3>1, <3>2
  <2> QED
    BY <2>1, <2>2, <2>3, FreshUntouched
<1>7. CASE UNCHANGED trackVars
  BY <1>7 DEF trackVars, FreshMatch, Free
<1> QED
  BY <1>1, <1>2, <1>3, <1>4, <1>5, <1>6, <1>7 DEF Next, Call, TrackerStep

-----------------------------------------------------------------------------
\* Attribution.

\* What keeps an object attributed: it was out of construction already, and its
\* tag and owner stay.
LEMMA AttributedStays ==
  ASSUME TypeOK, IdsMatch, Attributed, RequestsGrow, NEW o \in Obj,
         heap[o].state # "free", \A t \in Thread : fresh[t] # o,
         heap'[o].tag = heap[o].tag, heap'[o].owner = heap[o].owner
  PROVE  heap'[o].tag = IdOf(heap[o].owner)'
<1>1. heap[o].owner \in 0 .. MaxRequests
  BY DEF TypeOK, Object
<1>2. heap[o].owner <= Len(requests)
  BY DEF IdsMatch
<1>3. \A n \in 0 .. MaxRequests : n <= Len(requests) => IdOf(n)' = IdOf(n)
  BY IdsStay
<1> QED
  BY <1>1, <1>2, <1>3 DEF Attributed, IdOf

\* Every step keeps tags the ids of the requests that allocated.
LEMMA AttributedStep ==
  TypeOK /\ IdsMatch /\ FreshMatch /\ Attributed /\ [Next]_trackVars => Attributed'
<1> SUFFICES ASSUME TypeOK, IdsMatch, FreshMatch, Attributed, [Next]_trackVars,
                    NEW o \in Obj, heap'[o].state # "free",
                    \A t \in Thread : fresh'[t] # o
             PROVE  heap'[o].tag = IdOf(heap[o].owner)'
  BY DEF Attributed
<1>0. RequestsGrow
  BY RequestsOnlyGrow
<1> USE DEF requestVars, heapVars, statsVars, callVars
\* Objects keep their tags and owners and nothing becomes tagged.
<1>1. ASSUME fresh' = fresh, heap[o].state # "free",
             heap'[o].tag = heap[o].tag /\ heap'[o].owner = heap[o].owner
      PROVE  heap'[o].tag = IdOf(heap[o].owner)'
  BY <1>0, <1>1, AttributedStays
<1>2. ASSUME NEW t \in Thread, NEW p \in Obj,
             Allocate(t, p, "java", "tag") \/ BuildResult(t, p)
      PROVE  heap'[o].tag = IdOf(heap[o].owner)'
  <2>1. /\ heap' = [heap EXCEPT ![p] = [state |-> "held", tag |-> 0, owner |-> request[t]]]
        /\ fresh' = [fresh EXCEPT ![t] = p]
        /\ pc[t] \notin {"tag", "build_tag"}
    BY <1>2 DEF Allocate, BuildResult, Transition
  <2>2. fresh'[t] = p /\ \A u \in Thread : u # t => fresh'[u] = fresh[u]
    BY <2>1 DEF TypeOK
  <2>3. o # p /\ heap'[o] = heap[o]
    <3>1. o # p
      BY <2>2
    <3> QED
      BY <2>1, <3>1 DEF TypeOK
  <2>4. fresh[t] # o
    BY <2>1, NoObjAssumption DEF FreshMatch
  <2>5. \A u \in Thread : fresh[u] # o
    BY <2>2, <2>4
  <2> QED
    BY <1>0, <2>3, <2>5, AttributedStays
<1>3. ASSUME NEW t \in Thread, NEW to, tagObject(t, "tag", to) \/ tagObject(t, "build_tag", to)
      PROVE  heap'[o].tag = IdOf(heap[o].owner)'
  <2>1. /\ heap' = [heap EXCEPT ![fresh[t]].tag = tls[t]]
        /\ fresh' = [fresh EXCEPT ![t] = NoObj]
        /\ pc[t] \in {"tag", "build_tag"}
        /\ requests' = requests
    BY <1>3 DEF tagObject, Transition
  <2>2. fresh[t] \in Obj /\ heap[fresh[t]].owner = request[t]
    <3>0. pc[t] \in {"tag", "build_tag"}
      BY <2>1
    <3>1. fresh[t] \in Obj
      BY <3>0 DEF FreshMatch
    <3> QED
      BY <3>1, FreshHeld
  <2>3. CASE o = fresh[t]
    <3>1. heap'[o].tag = tls[t] /\ heap'[o].owner = heap[o].owner
      BY <2>1, <2>3 DEF TypeOK, Object
    <3>2. tls[t] = IdOf(request[t])
      BY DEF IdsMatch
    <3> QED
      BY <2>1, <2>2, <2>3, <3>1, <3>2 DEF IdOf
  <2>4. CASE o # fresh[t]
    <3>1. heap'[o] = heap[o]
      BY <2>1, <2>4 DEF TypeOK
    <3>2. \A u \in Thread : fresh[u] # o
      BY <2>1, <2>4 DEF TypeOK
    <3> QED
      BY <1>0, <3>1, <3>2, AttributedStays
  <2> QED
    BY <2>3, <2>4
<1>4. ASSUME NEW p \in Obj, Drop(p) \/ Reclaim(p) PROVE heap'[o].tag = IdOf(heap[o].owner)'
  <2>1. fresh' = fresh
    BY <1>4 DEF Drop, Reclaim
  <2>2. heap[o].state # "free" /\ heap'[o].tag = heap[o].tag /\ heap'[o].owner = heap[o].owner
    <3>1. CASE Drop(p)
      BY <3>1 DEF Drop, TypeOK, Object
    <3>2. CASE Reclaim(p)
      BY <3>2 DEF Reclaim, Free, TypeOK
    <3> QED
      BY <1>4, <3>1, <3>2
  <2> QED
    BY <1>1, <2>1, <2>2
<1>5. ASSUME NEW t \in Thread, ForceGC(t) PROVE heap'[o].tag = IdOf(heap[o].owner)'
  <2>1. fresh' = fresh /\ heap'[o] = heap[o]
    BY <1>5 DEF ForceGC, Free
  <2> QED
    BY <1>1, <2>1
<1>6. CASE heap' = heap /\ fresh' = fresh
  BY <1>1, <1>6
<1>7. ASSUME NEW t \in Thread,
             \/ startRequest(t) \/ endRequest(t) \/ native_start_request(t)
             \/ getRequestStats(t) \/ Walk(t) \/ BuildFails(t) \/ Built(t) \/ Resume(t)
      PROVE  heap'[o].tag = IdOf(heap[o].owner)'
  BY <1>6, <1>7 DEF startRequest, endRequest, native_start_request, getRequestStats, Walk,
                    BuildFails, Built, Resume
<1> QED
  BY <1>2, <1>3, <1>4, <1>5, <1>6, <1>7 DEF Next, Call, TrackerStep, trackVars

\* Objects carry the id of the request they were allocated for, the types and
\* the ids of the threads being what makes the attribution inductive.
AttributionInv == TypeOK /\ IdsMatch /\ FreshMatch /\ Attributed

\* Nothing is tagged and no request has begun at first.
LEMMA AttributionInit == Init => AttributionInv
<1> SUFFICES ASSUME Init PROVE AttributionInv
  OBVIOUS
<1>1. TypeOK
  BY DEF Init, TypeOK, JavaInt, Object, Free
<1>2. IdsMatch
  BY DEF Init, IdsMatch, IdOf, Free
<1>3. FreshMatch
  BY DEF Init, FreshMatch, Free
<1>4. Attributed
  BY DEF Init, Attributed, Free
<1> QED
  BY <1>1, <1>2, <1>3, <1>4 DEF AttributionInv

\* The invariant is inductive.
LEMMA AttributionStep == AttributionInv /\ [Next]_trackVars => AttributionInv'
BY TypeStep, IdsMatchStep, FreshMatchStep, AttributedStep DEF AttributionInv

\* Starting, ending, allocating, tagging and collecting keep ids, objects under
\* construction and tags in agreement.
THEOREM AttributionInvariant == Spec => []AttributionInv
BY AttributionInit, AttributionStep, PTL DEF Spec

\* Whatever the threads start, end or report meanwhile, a tagged object carries
\* the id of the request its thread was in, and none outside of requests.
THEOREM TagsNameTheirRequest == Spec => []Attributed
<1>1. AttributionInv => Attributed
  BY DEF AttributionInv
<1> QED
  BY <1>1, AttributionInvariant, PTL

-----------------------------------------------------------------------------
\* Distinct ids.

\* Below its wrap-around, uniqueId has given 1, 2, 3 and so on.
IdsInOrder ==
    MaxRequests <= MaxInt =>
        /\ \A n \in 1 .. Len(requests) : requests[n] = n
        /\ Len(requests) < MaxInt => uniqueId = Len(requests) + 1

\* Every step keeps the ids in order below the wrap-around.
LEMMA IdsInOrderStep == TypeOK /\ IdsInOrder /\ [Next]_trackVars => IdsInOrder'
<1> SUFFICES ASSUME TypeOK, IdsInOrder, [Next]_trackVars PROVE IdsInOrder'
  OBVIOUS
<1>1. ASSUME NEW t \in Thread, startRequest(t) PROVE IdsInOrder'
  <2>1. /\ Len(requests) < MaxRequests
        /\ requests' = Append(requests, uniqueId)
        /\ uniqueId' = Increment(uniqueId)
    BY <1>1 DEF startRequest
  <2>2. /\ Len(requests) \in Nat /\ Len(requests') = Len(requests) + 1
        /\ \A n \in 1 .. Len(requests) : requests'[n] = requests[n]
        /\ requests'[Len(requests) + 1] = uniqueId
    BY <2>1 DEF TypeOK
  <2>3. SUFFICES ASSUME MaxRequests <= MaxInt
                 PROVE  /\ \A n \in 1 .. Len(requests') : requests'[n] = n
                        /\ Len(requests') < MaxInt => uniqueId' = Len(requests') + 1
    BY DEF IdsInOrder
  <2>4. MaxRequests \in Nat /\ MaxInt \in Nat
    BY MaxRequestsAssumption, MaxIntAssumption
  <2>5. uniqueId = Len(requests) + 1
    BY <2>1, <2>2, <2>3, <2>4 DEF IdsInOrder
  <2>6. \A n \in 1 .. Len(requests) : requests[n] = n
    BY <2>3 DEF IdsInOrder
  <2> QED
    BY <2>1, <2>2, <2>4, <2>5, <2>6 DEF Increment
<1>2. CASE UNCHANGED <<requests, uniqueId>>
  BY <1>2 DEF IdsInOrder
<1>3. (\E t \in Thread : startRequest(t)) \/ UNCHANGED <<requests, uniqueId>>
  BY DEF Next, Call, TrackerStep, endRequest, native_start_request, Allocate, tagObject, Drop,
         Reclaim, getRequestStats, ForceGC, Walk, BuildResult, BuildFails, Built, Resume,
         trackVars, requestVars
<1> QED
  BY <1>1, <1>2, <1>3

\* Requests with different ids have different tags.
LEMMA KeptApart == AttributionInv /\ IdsInOrder => RequestsKeptApart
<1> SUFFICES ASSUME AttributionInv, IdsInOrder, MaxRequests <= MaxInt,
                    NEW o \in Obj, NEW p \in Obj,
                    heap[o].tag # 0, heap[o].owner # heap[p].owner, heap[o].tag = heap[p].tag
             PROVE  FALSE
  BY DEF RequestsKeptApart
<1>1. ASSUME NEW q \in Obj, heap[q].tag # 0 PROVE heap[q].tag = heap[q].owner
  <2>0. FreshMatch
    BY DEF AttributionInv
  <2>1. heap[q].state # "free" /\ \A t \in Thread : fresh[t] # q
    <3>1. heap[q].state # "free"
      BY <1>1, <2>0 DEF FreshMatch, Free
    <3>2. \A t \in Thread : fresh[t] # q
      BY <1>1, <2>0, FreshHeld
    <3> QED
      BY <3>1, <3>2
  <2>2. heap[q].tag = IdOf(heap[q].owner)
    BY <2>1 DEF AttributionInv, Attributed
  <2>3. heap[q].owner \in 0 .. MaxRequests /\ heap[q].owner <= Len(requests)
    BY DEF AttributionInv, TypeOK, Object, IdsMatch
  <2>4. Len(requests) \in Nat /\ \A n \in 1 .. Len(requests) : requests[n] = n
    BY DEF AttributionInv, TypeOK, IdsInOrder
  <2> QED
    BY <1>1, <2>2, <2>3, <2>4 DEF IdOf
<1> QED
  BY <1>1

\* Two requests never tag objects alike, as long as uniqueId has not come round.
THEOREM RequestsStayApart == Spec => []RequestsKeptApart
<1>1. Init => IdsInOrder
  BY DEF Init, IdsInOrder
<1>2. AttributionInv => TypeOK
  BY DEF AttributionInv
<1>3. AttributionInv /\ IdsInOrder /\ [Next]_trackVars => IdsInOrder'
  BY <1>2, IdsInOrderStep
<1> QED
  BY <1>1, <1>3, AttributionInvariant, KeptApart, PTL DEF Spec

-----------------------------------------------------------------------------
\* Reports.

\* The garbage a caller of getRequestStats may not be told of is garbage still,
\* and gone once its collection has run.
StaleMatch ==
    \A t \in Thread :
        /\ staleAtCall[t] \subseteq Garbage
        /\ pc[t] \in {"walk", "build", "build_tag", "returned"} => staleAtCall[t] = {}

\* What it must be told of keeps its place and its tag, and is in what it counted.
HeldMatch ==
    \A t \in Thread : \A o \in heldSinceCall[t] :
        /\ heap[o].state = "held" /\ heap[o].tag # 0
        /\ pc[t] \in {"build", "build_tag", "returned"} => <<o, heap[o].tag>> \in counted[t]

\* Steps that leave the reports in progress alone: the garbage stays, or what
\* goes leaves every staleAtCall too; held objects stay unless they were untagged.
LEMMA ReportUntouched ==
  ASSUME TypeOK, StaleMatch, HeldMatch,
         \A t \in Thread : \/ pc'[t] = pc[t]
                           \/ pc'[t] \notin {"walk", "build", "build_tag", "returned"}
                           \/ {pc[t], pc'[t]} \subseteq {"build", "build_tag", "returned"},
         \A t \in Thread : /\ staleAtCall'[t] \subseteq staleAtCall[t] \cap Garbage'
                           /\ heldSinceCall'[t] \subseteq heldSinceCall[t]
                           /\ pc'[t] \in {"build", "build_tag", "returned"} =>
                                 counted'[t] = counted[t],
         \A t \in Thread : \A o \in heldSinceCall'[t] :
            heap[o].state = "held" /\ heap[o].tag # 0
               => heap'[o].state = "held" /\ heap'[o].tag = heap[o].tag
  PROVE  StaleMatch' /\ HeldMatch'
<1>1. ASSUME NEW t \in Thread
      PROVE  /\ staleAtCall'[t] \subseteq Garbage'
             /\ pc'[t] \in {"walk", "build", "build_tag", "returned"} => staleAtCall'[t] = {}
  BY DEF StaleMatch
<1>2. ASSUME NEW t \in Thread, NEW o \in heldSinceCall'[t]
      PROVE  /\ heap'[o].state = "held" /\ heap'[o].tag # 0
             /\ pc'[t] \in {"build", "build_tag", "returned"} =>
                   <<o, heap'[o].tag>> \in counted'[t]
  <2>1. heap[o].state = "held" /\ heap[o].tag # 0
    BY DEF HeldMatch
  <2>2. heap'[o].state = "held" /\ heap'[o].tag = heap[o].tag
    BY <2>1
  <2>3. ASSUME pc'[t] \in {"build", "build_tag", "returned"}
        PROVE  <<o, heap[o].tag>> \in counted[t]
    BY <2>3 DEF HeldMatch
  <2> QED
    BY <2>1, <2>2, <2>3
<1> QED
  BY <1>1, <1>2 DEF StaleMatch, HeldMatch

\* Every step keeps what a report in progress will hold.
LEMMA ReportStep ==
  TypeOK /\ FreshMatch /\ StaleMatch /\ HeldMatch /\ [Next]_trackVars
     => StaleMatch' /\ HeldMatch'
<1> SUFFICES ASSUME TypeOK, FreshMatch, StaleMatch, HeldMatch, [Next]_trackVars
             PROVE  StaleMatch' /\ HeldMatch'
  OBVIOUS
<1> USE DEF requestVars, heapVars, statsVars, callVars
<1>0. /\ \A t \in Thread : /\ staleAtCall[t] \subseteq Garbage
                           /\ heldSinceCall[t] \subseteq Obj
      /\ \A t \in Thread : \A o \in heldSinceCall[t] : heap[o].state = "held" /\ heap[o].tag # 0
  BY DEF TypeOK, StaleMatch, HeldMatch
<1>1. ASSUME NEW t \in Thread, NEW o \in Obj,
             Allocate(t, o, "java", "tag") \/ BuildResult(t, o)
      PROVE  StaleMatch' /\ HeldMatch'
  <2>1. /\ heap[o].state = "free"
        /\ heap' = [heap EXCEPT ![o] = [state |-> "held", tag |-> 0, owner |-> request[t]]]
        /\ UNCHANGED <<counted, callVars>>
    BY <1>1 DEF Allocate, BuildResult
  <2>2. \/ Transition(t, "java", "tag")
        \/ Transition(t, "build", "build_tag")
    BY <1>1 DEF Allocate, BuildResult
  <2>3. \A u \in Thread : \/ pc'[u] = pc[u]
                          \/ pc'[u] \notin {"walk", "build", "build_tag", "returned"}
                          \/ {pc[u], pc'[u]} \subseteq {"build", "build_tag", "returned"}
    BY <2>2 DEF Transition, TypeOK
  <2>4. \A p \in Obj : heap[p].state # "free" => heap'[p] = heap[p]
    BY <2>1 DEF TypeOK
  <2>5. \A p \in Garbage : p \in Garbage'
    BY <2>4 DEF Garbage
  <2> QED
    BY <2>1, <2>3, <2>4, <2>5, <1>0, ReportUntouched
<1>2. ASSUME NEW t \in Thread,
             tagObject(t, "tag", "java") \/ tagObject(t, "build_tag", "build")
      PROVE  StaleMatch' /\ HeldMatch'
  <2>1. /\ heap' = [heap EXCEPT ![fresh[t]].tag = tls[t]]
        /\ UNCHANGED <<counted, callVars>>
    BY <1>2 DEF tagObject
  <2>2. \/ Transition(t, "tag", "java")
        \/ Transition(t, "build_tag", "build")
    BY <1>2 DEF tagObject
  <2>3. \A u \in Thread : \/ pc'[u] = pc[u]
                          \/ pc'[u] \notin {"walk", "build", "build_tag", "returned"}
                          \/ {pc[u], pc'[u]} \subseteq {"build", "build_tag", "returned"}
    BY <2>2 DEF Transition, TypeOK
  <2>4. \A p \in Obj : /\ heap'[p].state = heap[p].state
                       /\ p # fresh[t] => heap'[p] = heap[p]
    BY <2>1 DEF TypeOK, Object
  <2>5. \A p \in Garbage : p \in Garbage'
    BY <2>4 DEF Garbage
  <2>6. fresh[t] \in Obj => heap[fresh[t]].tag = 0
    BY FreshHeld
  <2>7. \A p \in Obj : heap[p].tag # 0 => heap'[p] = heap[p]
    BY <2>4, <2>6
  <2> QED
    BY <2>1, <2>3, <2>5, <2>7, <1>0, ReportUntouched
<1>3. ASSUME NEW o \in Obj, Drop(o) PROVE StaleMatch' /\ HeldMatch'
  <2>1. /\ heap[o].state = "held"
        /\ heap' = [heap EXCEPT ![o].state = "garbage"]
        /\ heldSinceCall' = [t \in Thread |-> heldSinceCall[t] \ {o}]
        /\ UNCHANGED <<pc, counted, staleAtCall>>
    BY <1>3 DEF Drop
  <2>2. \A p \in Obj : p # o => heap'[p] = heap[p]
    BY <2>1 DEF TypeOK
  <2>3. \A p \in Garbage : p \in Garbage'
    BY <2>1, <2>2 DEF Garbage
  <2>4. \A t \in Thread : \A p \in heldSinceCall'[t] : p \in heldSinceCall[t] /\ heap'[p] = heap[p]
    BY <2>1, <2>2, <1>0
  <2> QED
    BY <2>1, <2>3, <2>4, <1>0, ReportUntouched
<1>4. ASSUME NEW o \in Obj, Reclaim(o) PROVE StaleMatch' /\ HeldMatch'
  <2>1. /\ heap[o].state = "garbage"
        /\ heap' = [heap EXCEPT ![o] = Free]
        /\ staleAtCall' = [t \in Thread |-> staleAtCall[t] \ {o}]
        /\ UNCHANGED <<pc, counted, heldSinceCall>>
    BY <1>4 DEF Reclaim
  <2>2. \A p \in Obj : p # o => heap'[p] = heap[p]
    BY <2>1 DEF TypeOK
  <2>3. \A p \in Garbage : p # o => p \in Garbage'
    BY <2>2 DEF Garbage
  <2>4. \A t \in Thread : \A p \in heldSinceCall'[t] : heap'[p] = heap[p]
    BY <2>1, <2>2, <1>0
  <2> QED
    BY <2>1, <2>3, <2>4, <1>0, ReportUntouched
<1>5. ASSUME NEW t \in Thread, ForceGC(t) PROVE StaleMatch' /\ HeldMatch'
  <2>1. /\ pc' = [pc EXCEPT ![t] = "walk"]
        /\ heap' = [o \in Obj |-> IF o \in Garbage THEN Free ELSE heap[o]]
        /\ staleAtCall' = [u \in Thread |-> staleAtCall[u] \ Garbage]
        /\ UNCHANGED <<counted, heldSinceCall>>
    BY <1>5 DEF ForceGC, Transition, Collected
  <2>2. \A u \in Thread : staleAtCall'[u] = {}
    BY <2>1, <1>0
  <2>3. \A u \in Thread : pc'[u] \in {"build", "build_tag", "returned"} => pc'[u] = pc[u]
    BY <2>1 DEF TypeOK
  <2>4. \A u \in Thread : \A o \in heldSinceCall'[u] : heap'[o] = heap[o]
    BY <2>1, <1>0 DEF Garbage
  <2>5. StaleMatch'
    BY <2>2 DEF StaleMatch
  <2>6. HeldMatch'
    BY <2>1, <2>3, <2>4 DEF HeldMatch
  <2> QED
    BY <2>5, <2>6
<1>6. ASSUME NEW t \in Thread, getRequestStats(t) PROVE StaleMatch' /\ HeldMatch'
  <2>1. /\ pc' = [pc EXCEPT ![t] = "gc"]
        /\ staleAtCall' = [staleAtCall EXCEPT ![t] = Garbage]
        /\ heldSinceCall' = [heldSinceCall EXCEPT ![t] =
                               {o \in Obj : heap[o].state = "held" /\ heap[o].tag # 0}]
        /\ UNCHANGED <<heap, counted>>
    BY <1>6 DEF getRequestStats, Transition
  <2>2. Garbage' = Garbage
    BY <2>1 DEF Garbage
  <2>3. /\ pc'[t] = "gc" /\ staleAtCall'[t] = Garbage
        /\ heldSinceCall'[t] = {o \in Obj : heap[o].state = "held" /\ heap[o].tag # 0}
        /\ \A u \in Thread : u # t => /\ pc'[u] = pc[u]
                                      /\ staleAtCall'[u] = staleAtCall[u]
                                      /\ heldSinceCall'[u] = heldSinceCall[u]
    BY <2>1 DEF TypeOK
  <2>4. StaleMatch'
    BY <2>2, <2>3 DEF StaleMatch
  <2>5. HeldMatch'
    BY <2>1, <2>3 DEF HeldMatch
  <2> QED
    BY <2>4, <2>5
<1>7. ASSUME NEW t \in Thread, Walk(t) PROVE StaleMatch' /\ HeldMatch'
  <2>1. heap' = heap /\ UNCHANGED callVars /\ Garbage' = Garbage /\ pc[t] = "walk"
    BY <1>7 DEF Walk, Garbage, Transition
  <2>2. \A u \in Thread : u # t => pc'[u] = pc[u] /\ counted'[u] = counted[u]
    BY <1>7 DEF Walk, Transition, TypeOK
  <2>3. \A o \in heldSinceCall[t] : pc'[t] = "build" => <<o, heap[o].tag>> \in counted'[t]
    <3>1. CASE pc'[t] = "build"
      <4>1. counted'[t] = {<<o, heap[o].tag>> : o \in {p \in Obj : Counts(p)}}
        BY <1>7, <3>1 DEF Walk, Transition, TypeOK
      <4>2. \A o \in heldSinceCall[t] : o \in Obj /\ Counts(o)
        BY <1>0 DEF Counts
      <4> QED
        BY <4>1, <4>2
    <3> QED
      BY <3>1
  <2>4. pc'[t] \in {"build", "thrown"}
    BY <1>7 DEF Walk, Transition, TypeOK
  <2>5. StaleMatch'
    BY <2>1, <2>2, <2>4 DEF StaleMatch
  <2>6. HeldMatch'
    BY <2>1, <2>2, <2>3, <2>4 DEF HeldMatch
  <2> QED
    BY <2>5, <2>6
<1>8. ASSUME NEW t \in Thread,
             \/ startRequest(t) \/ endRequest(t) \/ native_start_request(t)
             \/ BuildFails(t) \/ Built(t) \/ Resume(t)
      PROVE  StaleMatch' /\ HeldMatch'
  <2>1. heap' = heap /\ UNCHANGED callVars
    BY <1>8 DEF startRequest, endRequest, native_start_request, BuildFails, Built, Resume
  <2>2. \A u \in Thread : \/ pc'[u] = pc[u]
                          \/ pc'[u] \notin {"walk", "build", "build_tag", "returned"}
                          \/ {pc[u], pc'[u]} \subseteq {"build", "build_tag", "returned"}
    BY <1>8 DEF startRequest, endRequest, native_start_request, BuildFails, Built, Resume,
                Transition, TypeOK
  <2>3. \A u \in Thread : pc'[u] \in {"build", "build_tag", "returned"} => counted'[u] = counted[u]
    BY <1>8 DEF startRequest, endRequest, native_start_request, BuildFails, Built, Resume,
                Transition, TypeOK
  <2>4. Garbage' = Garbage
    BY <2>1 DEF Garbage
  <2> QED
    BY <2>1, <2>2, <2>3, <2>4, <1>0, ReportUntouched
<1>9. CASE UNCHANGED trackVars
  BY <1>9 DEF trackVars, StaleMatch, HeldMatch, Garbage
<1> QED
  BY <1>1, <1>2, <1>3, <1>4, <1>5, <1>6, <1>7, <1>8, <1>9 DEF Next, Call, TrackerStep

\* What the reports in progress rest on.
ReportInv == AttributionInv /\ StaleMatch /\ HeldMatch

\* No step of any thread, of the program or of the collector disturbs the report
\* of a getRequestStats in progress.
THEOREM ReportInvariant == Spec => []ReportInv
<1>1. Init => StaleMatch /\ HeldMatch
  BY DEF Init, StaleMatch, HeldMatch, Garbage
<1>2. AttributionInv /\ StaleMatch /\ HeldMatch /\ [Next]_trackVars => StaleMatch' /\ HeldMatch'
  BY ReportStep DEF AttributionInv
<1>3. ReportInv <=> AttributionInv /\ StaleMatch /\ HeldMatch
  BY DEF ReportInv
<1> QED
  BY <1>1, <1>2, <1>3, AttributionInvariant, PTL DEF Spec

\* What was garbage when getRequestStats was called is never in its report.
THEOREM ReportsNoStaleGarbage == Spec => []NoStaleGarbage
<1>1. ReportInv => NoStaleGarbage
  BY DEF ReportInv, StaleMatch, NoStaleGarbage
<1> QED
  BY <1>1, ReportInvariant, PTL

\* What was tagged then and is referenced still is in it, under its own id,
\* however the other threads allocate, drop, collect and report in between.
THEOREM ReportsAllHeld == Spec => []ReportComplete
<1>1. ReportInv => ReportComplete
  BY DEF ReportInv, HeldMatch, ReportComplete
<1> QED
  BY <1>1, ReportInvariant, PTL
=============================================================================
