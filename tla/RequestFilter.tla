--------------------------- MODULE RequestFilter ---------------------------
(***************************************************************************)
(* web/RequestTrackingFilter.java on top of RequestTracking: doFilter      *)
(* brackets a request with startRequest and endRequest and files its       *)
(* RequestDetails in a map; garbageCollectRequests drops the details of    *)
(* requests that getRequestStats no longer reports.  The entries of the    *)
(* map are heap objects like any others: they are allocated, tagged,       *)
(* counted and freed.                                                      *)
(***************************************************************************)
EXTENDS RequestTracking, FiniteSets, SequencesExt

VARIABLES
    details,    \* detailsByRequestId: request id -> its HashMap.Entry
    mapLock,    \* the thread inside synchronized(detailsByRequestId), or none
    flow,       \* flow[t]: where t is in the methods of the filter
    entry,      \* entry[t]: the HashMap.Entry t's put has allocated
    unusedKeys, \* unusedKeys[t]: local of garbageCollectRequests
    calls,      \* calls[t]: requestId of the details of each doFilter t is in
    filed,      \* history: the ids whose put has completed
    innerEnded  \* history: t has come back from a doFilter inside another one

filterVars == <<details, mapLock, flow, entry, unusedKeys, calls, filed, innerEnded>>
nesting == <<calls, innerEnded>>
vars == <<trackVars, filterVars>>

Unlocked == {}

FilterInit ==
    /\ Init
    /\ details = [id \in {} |-> NoObj]
    /\ mapLock = Unlocked
    /\ flow = [t \in Thread |-> "idle"]
    /\ entry = [t \in Thread |-> NoObj]
    /\ unusedKeys = [t \in Thread |-> {}]
    /\ calls = [t \in Thread |-> <<>>]
    /\ filed = {}
    /\ innerEnded = [t \in Thread |-> FALSE]

Flow(t, from, to) == flow[t] = from /\ flow' = [flow EXCEPT ![t] = to]

\* The thread is not inside a call of the tracker.
AtJava(t) == pc[t] = "java"

\* A thread waits for the map while another one is inside synchronized.
MapFree == mapLock = Unlocked

-----------------------------------------------------------------------------
\* doFilter.

\* Details with the id the thread had before.
BeforeHandlingOldId(t) ==
    /\ Flow(t, "idle", "put_enter") \/ Flow(t, "chain", "put_enter")
    /\ startRequest(t)
    /\ calls' = [calls EXCEPT ![t] = Append(@, tls[t])]
    /\ innerEnded' = [innerEnded EXCEPT ![t] = FALSE]
    /\ UNCHANGED <<details, mapLock, entry, unusedKeys, filed>>

\* beforeHandlingRequest: details.requestId = tracker.startRequest().  A servlet
\* that forwards or includes comes back to the filter inside its own request.
BeforeHandling(t) ==
    /\ Flow(t, "idle", "put_enter") \/ Flow(t, "chain", "put_enter")
    /\ startRequest(t)
    /\ calls' = [calls EXCEPT ![t] = Append(@, uniqueId)]
    /\ innerEnded' = [innerEnded EXCEPT ![t] = FALSE]
    /\ UNCHANGED <<details, mapLock, entry, unusedKeys, filed>>

\* The innermost doFilter ends, normally or by an exception: back to the servlet
\* that called it, if there is one.
EndDoFilter(t, from) ==
    /\ IF Len(calls[t]) > 1 THEN Flow(t, from, "chain") ELSE Flow(t, from, "idle")
    /\ calls' = [calls EXCEPT ![t] = Front(@)]
    /\ innerEnded' = [innerEnded EXCEPT ![t] = Len(calls[t]) > 1]

PutEnter(t) ==
    /\ AtJava(t)
    /\ MapFree
    /\ Flow(t, "put_enter", "put")
    /\ mapLock' = {t}
    /\ UNCHANGED <<trackVars, details, entry, unusedKeys, nesting, filed>>

\* A put that loses its entry.
PutLosesEntry(t, o) ==
    /\ Flow(t, "put", "store")
    /\ Allocate(t, o, "java", "tag")
    /\ UNCHANGED <<details, mapLock, entry, unusedKeys, nesting, filed>>

\* HashMap.put allocates the entry while the thread carries the new id.
Put(t, o) ==
    /\ Flow(t, "put", "store")
    /\ Allocate(t, o, "java", "tag")
    /\ entry' = [entry EXCEPT ![t] = o]
    /\ UNCHANGED <<details, mapLock, unusedKeys, nesting, filed>>

\* Leaving synchronized by an exception with the lock held.
PutFailsLocked(t) ==
    /\ AtJava(t)
    /\ EndDoFilter(t, "put")
    /\ UNCHANGED <<trackVars, details, mapLock, entry, unusedKeys, filed>>

\* The allocation throws OutOfMemoryError.  beforeHandlingRequest is called
\* outside the try of doFilter: nothing calls endRequest.
PutFails(t) ==
    /\ AtJava(t)
    /\ EndDoFilter(t, "put")
    /\ mapLock' = Unlocked
    /\ UNCHANGED <<trackVars, details, entry, unusedKeys, filed>>

Store(t) ==
    /\ AtJava(t)
    /\ Flow(t, "store", "chain")
    /\ details' = [id \in DOMAIN details \cup {arg[t].id} |->
                     IF id = arg[t].id THEN entry[t] ELSE details[id]]
    /\ mapLock' = Unlocked
    /\ entry' = [entry EXCEPT ![t] = NoObj]
    /\ filed' = filed \cup {arg[t].id}
    /\ UNCHANGED <<trackVars, unusedKeys, nesting>>

\* chain.doFilter: the servlet allocates.
Chain(t, o) ==
    /\ flow[t] = "chain"
    /\ Allocate(t, o, "java", "tag")
    /\ UNCHANGED filterVars

\* The finally clause: whether the chain returned or threw.
AfterHandling(t) ==
    /\ Flow(t, "chain", "after")
    /\ endRequest(t)
    /\ UNCHANGED <<details, mapLock, entry, unusedKeys, nesting, filed>>

Leave(t) ==
    /\ AtJava(t)
    /\ EndDoFilter(t, "after")
    /\ UNCHANGED <<trackVars, details, mapLock, entry, unusedKeys, filed>>

-----------------------------------------------------------------------------
\* garbageCollectRequests, on a thread that is not in a request.

Snapshot(t) ==
    /\ AtJava(t)
    /\ MapFree
    /\ Flow(t, "idle", "stats")
    /\ unusedKeys' = [unusedKeys EXCEPT ![t] = DOMAIN details]
    /\ UNCHANGED <<trackVars, details, mapLock, entry, nesting, filed>>

CollectStats(t) ==
    /\ Flow(t, "stats", "used")
    /\ getRequestStats(t)
    /\ UNCHANGED <<details, mapLock, entry, unusedKeys, nesting, filed>>

\* A report in which the entries of the map do not count.
ReportedElsewhere(t) == {pair[2] : pair \in {p \in counted[t] : p[1] \notin Range(details)}}

\* The loop over the report: a reported id is in use.
Reported(t) == {pair[2] : pair \in counted[t]}

\* Not looking at the report.
RemoveNone(t) ==
    /\ pc[t] = "returned"
    /\ Flow(t, "used", "remove")
    /\ Resume(t)
    /\ UNCHANGED <<details, mapLock, entry, unusedKeys, nesting, filed>>

RemoveUsed(t) ==
    /\ pc[t] = "returned"
    /\ Flow(t, "used", "remove")
    /\ unusedKeys' = [unusedKeys EXCEPT ![t] = @ \ Reported(t)]
    /\ Resume(t)
    /\ UNCHANGED <<details, mapLock, entry, nesting, filed>>

StatsFail(t) ==
    /\ pc[t] = "thrown"
    /\ Flow(t, "used", "idle")
    /\ Resume(t)
    /\ UNCHANGED <<details, mapLock, entry, unusedKeys, nesting, filed>>

\* removeAll: the entries of the removed keys become garbage.
RemoveUnused(t) ==
    /\ AtJava(t)
    /\ MapFree
    /\ Flow(t, "remove", "idle")
    /\ LET kept == DOMAIN details \ unusedKeys[t]
           lost == {details[id] : id \in DOMAIN details \ kept}
       IN  /\ details' = Restrict(details, kept)
           /\ heap' = [o \in Obj |-> IF o \in lost THEN [heap[o] EXCEPT !.state = "garbage"]
                                     ELSE heap[o]]
           /\ heldSinceCall' = [u \in Thread |-> heldSinceCall[u] \ lost]
    /\ unusedKeys' = [unusedKeys EXCEPT ![t] = {}]
    /\ UNCHANGED <<requestVars, fresh, pc, statsVars, staleAtCall, mapLock, entry, nesting, filed>>

-----------------------------------------------------------------------------
\* The objects the map, or a put in progress, refers to.
Entries == Range(details)
Referenced == Entries \cup Range(entry)

FilterStep(t) ==
    \/ BeforeHandling(t) \/ PutEnter(t) \/ PutFails(t) \/ Store(t)
    \/ \E o \in Obj : Put(t, o) \/ Chain(t, o)
    \/ AfterHandling(t) \/ Leave(t)
    \/ Snapshot(t) \/ CollectStats(t) \/ RemoveUsed(t) \/ StatsFail(t) \/ RemoveUnused(t)

FilterNext ==
    \/ \E t \in Thread : FilterStep(t) \/ (TrackerStep(t) /\ UNCHANGED filterVars)
    \/ \E o \in Obj \ Referenced : Drop(o) /\ UNCHANGED filterVars
    \/ \E o \in Obj : Reclaim(o) /\ UNCHANGED filterVars

FilterSpec == FilterInit /\ [][FilterNext]_vars

\* A thread inside the filter or the tracker is scheduled; whether and when the
\* servlet returns is not the filter's to say.
Continue(t) ==
    \/ PutEnter(t) \/ PutFails(t) \/ Store(t) \/ Leave(t) \/ \E o \in Obj : Put(t, o)
    \/ CollectStats(t) \/ RemoveUsed(t) \/ StatsFail(t) \/ RemoveUnused(t)
    \/ TrackerStep(t) /\ UNCHANGED filterVars

FilterFairSpec == FilterSpec /\ \A t \in Thread : WF_vars(Continue(t))

-----------------------------------------------------------------------------
\* Properties.

\* Every variable of the filter has its type.
FilterTypeOK ==
    /\ DOMAIN details \subseteq JavaInt /\ Entries \subseteq Obj
    /\ mapLock \in {Unlocked} \cup {{t} : t \in Thread}
    /\ flow \in [Thread -> {"idle", "put_enter", "put", "store", "chain", "after",
                            "stats", "used", "remove"}]
    /\ entry \in [Thread -> Obj \cup {NoObj}]
    /\ unusedKeys \in [Thread -> SUBSET JavaInt]
    /\ filed \subseteq JavaInt
    /\ calls \in [Thread -> Seq(JavaInt)]
    /\ innerEnded \in [Thread -> BOOLEAN]

\* garbageCollectRequests works on a copy of the keys, a report and the map, all
\* taken at different times: it still never drops the details of a request that
\* is in progress, even if the report was taken before the request's objects
\* were allocated; nor those of a request around a nested one, which the end of
\* the inner request has left untracked.
InProgressKept ==
    \A t \in Thread : flow[t] = "chain" => Range(calls[t]) \subseteq DOMAIN details

\* A servlet runs under the id of its own request: startRequest's id "will be used
\* to track all subsequent memory allocations performed be this thread".  It
\* does so until a doFilter inside its own ends.
TrackedUntilNested ==
    \A t \in Thread :
        flow[t] = "chain" /\ AtJava(t) /\ ~ innerEnded[t]
            => tls[t] = calls[t][Len(calls[t])]

\* It never drops the details of a request that memory still in use belongs to.
UsedDetailsKept ==
    \A o \in Obj :
        heap[o].state = "held" /\ heap[o].tag \in filed => heap[o].tag \in DOMAIN details

\* Every method of the filter comes to an end, but for the servlet's part: no
\* thread waits for ever for the map, whichever way another one left it.
CallsFinish ==
    \A t \in Thread : flow[t] \notin {"idle", "chain"} ~> flow[t] \in {"idle", "chain"}

\* Outside doFilter a thread carries no request id: the filter "performs the
\* startRequest() and endRequest()" of its requests.
IdleUntracked ==
    \A t \in Thread : flow[t] = "idle" /\ AtJava(t) => tls[t] = 0

\* "if it's in the stats, it's still in use": a reported id belongs to a request
\* in progress or has an object other than the map's own entry for it.
InStatsMeansInUse ==
    [][\A t \in Thread : pc[t] = "walk" /\ pc'[t] = "build" =>
          \A pair \in counted'[t] :
              \/ \E u \in Thread : tls[u] = pair[2]
              \/ \E other \in counted'[t] : other[2] = pair[2] /\ other[1] \notin Entries]_vars
=============================================================================
