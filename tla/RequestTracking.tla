-------------------------- MODULE RequestTracking --------------------------
(***************************************************************************)
(* HeapTracker.java and the part of heapTracker.c it rests on: request     *)
(* ids, the thread local storage that carries them, the tags of heap       *)
(* objects, and getRequestStats with its collection and heap walk.         *)
(*                                                                         *)
(* The heap is a pool of objects the threads allocate, drop and the        *)
(* machine frees at any time.  The requests sequence, request, owner,      *)
(* staleAtCall and heldSinceCall are history: they name what the code is   *)
(* to be compared with and no action reads them to decide anything.        *)
(***************************************************************************)
EXTENDS Integers, Sequences

CONSTANTS
    Thread,        \* application threads
    Obj,           \* the objects the heap has room for
    NoObj,         \* no object under construction
    MaxInt,        \* largest value of the Java int of uniqueId
    MaxRequests    \* bound: calls of startRequest

ASSUME NoObjAssumption == NoObj \notin Obj
ASSUME MaxIntAssumption == MaxInt \in Nat \ {0}
ASSUME MaxRequestsAssumption == MaxRequests \in Nat

VARIABLES
    uniqueId,       \* HeapTracker.uniqueId
    tls,            \* tls[t]: JVMTI thread local storage, the request id or 0
    heap,           \* heap[o]: state, tag, and the request that allocated o
    pc,             \* pc[t]: what thread t is doing
    arg,            \* arg[t]: argument of t's _start_request
    fresh,          \* fresh[t]: object t has allocated and not tagged yet
    counted,        \* counted[t]: <<object, tag>> pairs of t's heap walk
    todo,           \* todo[t]: ids whose RequestStats t has not built yet
    requests,       \* requests[n]: the id of the n-th request
    request,        \* request[t]: the request t is in, 0 outside
    staleAtCall,    \* staleAtCall[t]: garbage when t called getRequestStats
    heldSinceCall   \* heldSinceCall[t]: tagged and held ever since that call

heapVars == <<heap, fresh>>
requestVars == <<uniqueId, tls, arg, requests, request>>
statsVars == <<counted, todo>>
callVars == <<staleAtCall, heldSinceCall>>
trackVars == <<requestVars, heapVars, pc, statsVars, callVars>>

JavaInt == -MaxInt - 1 .. MaxInt
Object == [state : {"free", "held", "garbage"}, tag : JavaInt, owner : 0 .. MaxRequests]
Free == [state |-> "free", tag |-> 0, owner |-> 0]

Init ==
    /\ uniqueId = 1
    /\ tls = [t \in Thread |-> 0]
    /\ heap = [o \in Obj |-> Free]
    /\ pc = [t \in Thread |-> "java"]
    /\ arg = [t \in Thread |-> [id |-> 0, request |-> 0]]
    /\ fresh = [t \in Thread |-> NoObj]
    /\ counted = [t \in Thread |-> {}]
    /\ todo = [t \in Thread |-> {}]
    /\ requests = <<>>
    /\ request = [t \in Thread |-> 0]
    /\ staleAtCall = [t \in Thread |-> {}]
    /\ heldSinceCall = [t \in Thread |-> {}]

Transition(t, from, to) == pc[t] = from /\ pc' = [pc EXCEPT ![t] = to]

-----------------------------------------------------------------------------
\* Requests.

\* A counter that does not wrap, and one that does not count.
IncrementUnbounded(n) == n + 1
IncrementLost(n) == n

\* AtomicInteger.getAndIncrement wraps around.
Increment(n) == IF n = MaxInt THEN -MaxInt - 1 ELSE n + 1

startRequest(t) ==
    /\ Len(requests) < MaxRequests
    /\ Transition(t, "java", "set")
    /\ uniqueId' = Increment(uniqueId)
    /\ requests' = Append(requests, uniqueId)
    /\ arg' = [arg EXCEPT ![t] = [id |-> uniqueId, request |-> Len(requests) + 1]]
    /\ UNCHANGED <<tls, request, heapVars, statsVars, callVars>>

endRequest(t) ==
    /\ Transition(t, "java", "set")
    /\ arg' = [arg EXCEPT ![t] = [id |-> 0, request |-> 0]]
    /\ UNCHANGED <<uniqueId, tls, requests, request, heapVars, statsVars, callVars>>

\* An endRequest that leaves the id of the request in place.
native_start_request_only(t) ==
    /\ Transition(t, "set", "java")
    /\ tls' = [tls EXCEPT ![t] = IF arg[t].id = 0 THEN @ ELSE arg[t].id]
    /\ request' = [request EXCEPT ![t] = arg[t].request]
    /\ UNCHANGED <<uniqueId, arg, requests, heapVars, statsVars, callVars>>

\* HEAP_TRACKER_native_start_request: SetThreadLocalStorage.
native_start_request(t) ==
    /\ Transition(t, "set", "java")
    /\ tls' = [tls EXCEPT ![t] = arg[t].id]
    /\ request' = [request EXCEPT ![t] = arg[t].request]
    /\ UNCHANGED <<uniqueId, arg, requests, heapVars, statsVars, callVars>>

-----------------------------------------------------------------------------
\* Objects.  An object exists, untagged, before the injected call at the end
\* of Object.<init> (or after newarray), or the VMObjectAlloc event, tags it.

Allocate(t, o, from, to) ==
    /\ heap[o].state = "free"
    /\ Transition(t, from, to)
    /\ heap' = [heap EXCEPT ![o] = [state |-> "held", tag |-> 0, owner |-> request[t]]]
    /\ fresh' = [fresh EXCEPT ![t] = o]
    /\ UNCHANGED <<requestVars, statsVars, callVars>>

tagObject(t, from, to) ==
    /\ Transition(t, from, to)
    /\ heap' = [heap EXCEPT ![fresh[t]].tag = tls[t]]
    /\ fresh' = [fresh EXCEPT ![t] = NoObj]
    /\ UNCHANGED <<requestVars, statsVars, callVars>>

\* The program loses its last reference to o; a constructor still holds one.
Drop(o) ==
    /\ heap[o].state = "held"
    /\ \A t \in Thread : fresh[t] # o
    /\ heap' = [heap EXCEPT ![o].state = "garbage"]
    /\ heldSinceCall' = [t \in Thread |-> heldSinceCall[t] \ {o}]
    /\ UNCHANGED <<requestVars, fresh, pc, statsVars, staleAtCall>>

\* The machine frees garbage whenever it likes; the tag goes with the object.
Reclaim(o) ==
    /\ heap[o].state = "garbage"
    /\ heap' = [heap EXCEPT ![o] = Free]
    /\ staleAtCall' = [t \in Thread |-> staleAtCall[t] \ {o}]
    /\ UNCHANGED <<requestVars, fresh, pc, statsVars, heldSinceCall>>

-----------------------------------------------------------------------------
\* getRequestStats and HEAP_TRACKER_native_extract_stats.

Garbage == {o \in Obj : heap[o].state = "garbage"}

getRequestStats(t) ==
    /\ Transition(t, "java", "gc")
    /\ staleAtCall' = [staleAtCall EXCEPT ![t] = Garbage]
    /\ heldSinceCall' = [heldSinceCall EXCEPT ![t] =
                           {o \in Obj : heap[o].state = "held" /\ heap[o].tag # 0}]
    /\ UNCHANGED <<requestVars, heapVars, statsVars>>

\* The objects a forced collection frees: all that are garbage by then.
Collected == Garbage

\* Without the call of ForceGarbageCollection.
ForceGCSkipped(t) ==
    /\ Transition(t, "gc", "walk")
    /\ UNCHANGED <<requestVars, heapVars, statsVars, callVars>>

\* ForceGarbageCollection, before the critical section.
ForceGC(t) ==
    /\ Transition(t, "gc", "walk")
    /\ heap' = [o \in Obj |-> IF o \in Collected THEN Free ELSE heap[o]]
    /\ staleAtCall' = [u \in Thread |-> staleAtCall[u] \ Collected]
    /\ UNCHANGED <<requestVars, fresh, statsVars, heldSinceCall>>

\* cbObjectSpaceCounter counts whatever is in the heap and has a tag.
Counts(o) == heap[o].state # "free" /\ heap[o].tag # 0

\* A walk that runs out of memory half way and reports what it has.
WalkPartly(t) ==
    /\ Transition(t, "walk", "build")
    /\ \E some \in SUBSET {o \in Obj : Counts(o)} :
         /\ counted' = [counted EXCEPT ![t] = {<<o, heap[o].tag>> : o \in some}]
         /\ todo' = [todo EXCEPT ![t] = {heap[o].tag : o \in some}]
    /\ UNCHANGED <<requestVars, heapVars, callVars>>

\* collectStats: the iteration stops the world.  It may run out of memory, and
\* then OutOfMemoryError is thrown.
Walk(t) ==
    \/ /\ Transition(t, "walk", "build")
       /\ counted' = [counted EXCEPT ![t] = {<<o, heap[o].tag>> : o \in {p \in Obj : Counts(p)}}]
       /\ todo' = [todo EXCEPT ![t] = {heap[o].tag : o \in {p \in Obj : Counts(p)}}]
       /\ UNCHANGED <<requestVars, heapVars, callVars>>
    \/ /\ Transition(t, "walk", "thrown")
       /\ UNCHANGED <<requestVars, heapVars, statsVars, callVars>>

\* One RequestStats for the list.  Its constructor runs the injected code too,
\* so that the report of a caller that is in a request is tagged.
BuildResult(t, o) ==
    /\ \E id \in todo[t] : todo' = [todo EXCEPT ![t] = @ \ {id}]
    /\ heap[o].state = "free"
    /\ Transition(t, "build", "build_tag")
    /\ heap' = [heap EXCEPT ![o] = [state |-> "held", tag |-> 0, owner |-> request[t]]]
    /\ fresh' = [fresh EXCEPT ![t] = o]
    /\ UNCHANGED <<requestVars, counted, callVars>>

\* NewObject or List.add may throw OutOfMemoryError.
BuildFails(t) ==
    /\ todo[t] # {}
    /\ Transition(t, "build", "thrown")
    /\ UNCHANGED <<requestVars, heapVars, statsVars, callVars>>

\* The list is complete: getRequestStats returns it.
Built(t) ==
    /\ todo[t] = {}
    /\ Transition(t, "build", "returned")
    /\ UNCHANGED <<requestVars, heapVars, statsVars, callVars>>

\* The caller goes on, with the list or with the exception.
Resume(t) ==
    /\ \/ Transition(t, "returned", "java")
       \/ Transition(t, "thrown", "java")
    /\ counted' = [counted EXCEPT ![t] = {}]
    /\ todo' = [todo EXCEPT ![t] = {}]
    /\ UNCHANGED <<requestVars, heapVars, callVars>>

-----------------------------------------------------------------------------
\* The steps that complete a call already made, and the machine's own steps.
TrackerStep(t) ==
    \/ native_start_request(t)
    \/ tagObject(t, "tag", "java")
    \/ ForceGC(t)
    \/ Walk(t)
    \/ \E o \in Obj : BuildResult(t, o)
    \/ tagObject(t, "build_tag", "build")
    \/ BuildFails(t)
    \/ Built(t)

Call(t) ==
    \/ startRequest(t)
    \/ endRequest(t)
    \/ \E o \in Obj : Allocate(t, o, "java", "tag")
    \/ getRequestStats(t)

Next ==
    \/ \E t \in Thread : Call(t) \/ TrackerStep(t) \/ Resume(t)
    \/ \E o \in Obj : Drop(o) \/ Reclaim(o)

Spec == Init /\ [][Next]_trackVars

-----------------------------------------------------------------------------
\* Properties.

\* Every variable has its type.
TypeOK ==
    /\ uniqueId \in JavaInt
    /\ tls \in [Thread -> JavaInt]
    /\ heap \in [Obj -> Object]
    /\ pc \in [Thread -> {"java", "set", "tag", "gc", "walk", "build", "build_tag",
                          "returned", "thrown"}]
    /\ arg \in [Thread -> [id : JavaInt, request : 0 .. MaxRequests]]
    /\ fresh \in [Thread -> Obj \cup {NoObj}]
    /\ counted \in [Thread -> SUBSET (Obj \X JavaInt)]
    /\ todo \in [Thread -> SUBSET JavaInt]
    /\ requests \in Seq(JavaInt) /\ Len(requests) \in 0 .. MaxRequests
    /\ request \in [Thread -> 0 .. MaxRequests]
    /\ staleAtCall \in [Thread -> SUBSET Obj]
    /\ heldSinceCall \in [Thread -> SUBSET Obj]

\* The id of a request, 0 for the allocations outside of requests.
IdOf(n) == IF n = 0 THEN 0 ELSE requests[n]

\* "used to track all subsequent memory allocations performed by this thread":
\* once tagged, an object carries the id of the request its thread was in when
\* it allocated it, whatever other threads start, end or report meanwhile, and
\* no tag at all after endRequest.
Attributed ==
    \A o \in Obj :
        heap[o].state # "free" /\ (\A t \in Thread : fresh[t] # o)
            => heap[o].tag = IdOf(heap[o].owner)

\* Objects of different requests never share a tag, as long as uniqueId has not
\* come round: startRequest of two threads at once returns different ids.
RequestsKeptApart ==
    MaxRequests <= MaxInt =>
        \A o, p \in Obj :
            heap[o].tag # 0 /\ heap[o].owner # heap[p].owner => heap[o].tag # heap[p].tag

\* What was garbage when getRequestStats was called is not in its report: the
\* forced collection comes before the walk.
NoStaleGarbage ==
    \A t \in Thread : pc[t] = "build" =>
        \A o \in staleAtCall[t] : \A id \in JavaInt : <<o, id>> \notin counted[t]

\* Everything tagged when getRequestStats was called and referenced ever since
\* is in the report, under its own id.
ReportComplete ==
    \A t \in Thread : pc[t] \in {"build", "build_tag", "returned"} =>
        \A o \in heldSinceCall[t] : <<o, heap[o].tag>> \in counted[t]
=============================================================================
