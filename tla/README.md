# A verification of jstreusel

jstreusel attributes the heap of a Java program to *requests*. A JVMTI agent
(`src/heapTracker.c`) rewrites every class while it is loaded
(`src/java_crw_demo.c`) so that each new object and array is reported to a native
method, which tags it with the request id its thread carries;
`getRequestStats()` walks the heap and tabulates the tagged objects by id; a
servlet filter brackets web requests and keeps a table of them.

This directory holds TLA+ models of those parts, the instances TLC checks, and
proofs that TLAPS checks. Paths below are relative to the repository's `src/`.

## 1. Inventory

| part | state | operations |
|---|---|---|
| agent life cycle, `heapTracker.c` | `gdata` (VM flags, `ccount`), the raw monitor, registered callbacks and natives, the Java field `engaged` | `Agent_OnLoad`, `cbVMStart`, `cbVMInit`, `cbVMDeath`, `cbVMObjectAlloc`, `cbClassFileLoadHook`, four natives |
| injected calls, `HeapTrackerJNISupport.java` | `engaged` | `newobj`, `newarr` |
| request tracking, `HeapTracker.java` and `heapTracker.c` | `uniqueId`, thread local storage, object tags | `startRequest`, `endRequest`, `getRequestStats`, `tagObject` |
| collected statistics, `heapTracker.c` | hash table of `RequestStats` chains, `memoryExhausted` | `findOrCreateRequestStats`, `cbObjectSpaceCounter`, `collectStats`, the list loop of `native_extract_stats`, `freeStats` |
| servlet filter, `web/RequestTrackingFilter.java` | `detailsByRequestId` and its lock | `doFilter`, `garbageCollectRequests` |
| rewriting of a method, `java_crw_demo.c` | `map`, `widening`, `injections` of a `MethodImage` | the three passes of `method_inject_and_write_code` |
| attributes that follow the code, `java_crw_demo.c` | the tables being copied | exception, line, local variable and stack map tables |
| constant pool, `java_crw_demo.c` | `cpool`, its counts, the tracker indices | `cpool_setup`, the `add_new_*_cpool_entry` functions |
| class image driver, `java_crw_demo.c` | input and output positions, output buffer, what is allocated | `java_crw_demo`, `inject_class`, `method_write_all`, `method_write`, `skip_method`, `cleanup` |
| class name reader, `java_crw_demo.c` | the same, without an output | `java_crw_demo_classname` |
| utilities, `agent_util.c` | none | `check_jvmti_error`, `fatal_error`, list matching |

How they interact. The machine calls the agent back on the thread that causes an
event; several threads are inside callbacks at once. `cbVMStart`, `cbVMInit`,
`cbVMDeath`, `cbClassFileLoadHook` and the heap walk of `native_extract_stats`
exclude each other through `gdata->lock`, which is re-entrant; allocation
callbacks and `native_start_request` do not take it. Java code learns whether to
call the natives from `engaged`, which the agent writes. The filter calls the
tracker, and its own map is made of objects that the tracker tags and counts.

What is hard here: callbacks of different threads interleaved with the start and
the death of the machine; flags tested in one place and relied on in another;
the gap between a forced collection and the heap walk; a collector of request
details that works on a copy of the keys, a report and the map of three
different moments; failing allocations in the middle of a walk or of a list; id
and size arithmetic at the width of an `int`; and, in the rewriter, a loop that
starts again after each change, an injection map that one pass computes and
another has to meet, tables that are moved through that map one field at a time,
and a constant pool of which four representations have to agree. `PROJECT.json` lists these hazards one by one, each at its
line and with the properties that watch it.

## 2. Modules

| module | models | states checked |
|---|---|---|
| `HeapAgent` | agent life cycle and injected calls | 21 000 |
| `RequestTracking` | request ids, tags, reports | 160 000 |
| `RequestFilter` (extends `RequestTracking`) | the filter on top of the tracker | 158 000 |
| `RequestTally` | abstract: what one report promises | |
| `StatsTable` (implements `RequestTally`) | hash table, list loop, `freeStats` | 106 000 |
| `MethodInjection` | the three passes over a method's byte code | with the next |
| `CodeAttributes` (extends `MethodInjection`) | the tables that follow the byte code | 421 000 |
| `ClassImage` | class image driver, constant pool, class name reader | 101 000 |
| `HeapAgentProofs`, `RequestTrackingProofs`, `RequestFilterProofs`, `StatsTableProofs`, `MethodInjectionProofs`, `CodeAttributesProofs`, `ClassImageProofs` | theorems about the module of that name | |
| `IntegerLemmas` | facts about sums and induction the proofs about `java_crw_demo.c` use | |

`XMC` is the module TLC is started on for `X`; it holds the sets and symmetries
of the instances and nothing else. Operators that come just before the
definition they vary, with a comment that says what they get wrong, are mutants:
no action uses them, and each violates the property `PROJECT.json` names.

### HeapAgent

A thread's `pc` names the next step of the callback or native it is in; `"java"`
is outside the agent. A step of the model is the code between two points at
which another thread can see or change shared state: entering and leaving the
monitor, each write to `gdata`, to `engaged`, to the callbacks, and each JVMTI
call whose legality depends on the phase. `ccount++` is two steps. The nested
case is there: `FindClass` in `cbVMStart` may load the tracker class, and the
hook then runs inside the critical section (`hook[t].back = "start_register"`).

The machine is the environment: phases advance in order on the booting thread,
any thread of a live machine may call `System.exit`, the death event is
posted once, and threads go on running between the return of `cbVMDeath` and the
end of the process. A JVMTI call out of phase returns `JVMTI_ERROR_WRONG_PHASE`;
where the code passes the result to `check_jvmti_error` the process ends
(`FatalError`), and where it does not (`SetTag`) nothing happens. Other errors of
JVMTI are not modelled, nor is a `FindClass` or `RegisterNatives` that fails:
they end in `fatal_error` wherever they happen.

### RequestTracking

The heap is a pool of objects that are held or garbage and carry a tag.
Threads start and end requests, allocate, report; the program drops objects and
the machine frees them at any time. An object exists untagged before it is
tagged. `startRequest` is two steps (the counter, then the thread local storage);
`getRequestStats` is the forced collection, the walk and one step for each
`RequestStats` it builds, itself an object that is tagged. The walk is one step
because the machine stops the world for it. `requests`, `request`, `owner`,
`staleAtCall` and `heldSinceCall` are history.

`uniqueId` wraps at `MaxInt` as `AtomicInteger` does. The thread whose storage
is set is the calling thread, as all callers in the repository have it.

### RequestFilter

`flow[t]` is the place of a thread in the methods of the filter, next to its
place `pc[t]` inside the tracker; the filter's actions conjoin the tracker's.
The map is modelled with its entries as heap objects, since `HashMap.put`
allocates the entry between `startRequest` and `endRequest` and so on behalf of
the request. A consequence the checks bring out: the entry
keeps its own request in the report, so `garbageCollectRequests` never removes
what `put` has filed (`RequestFilterPinned`; the theorem `NothingIsRemoved` says
it of every instance). `InProgressKept` and `UsedDetailsKept` then hold with
room to spare, and the first of them holds *because* of the entry: its mutant,
a report that leaves the entries out, breaks it.

A servlet that forwards or includes enters the filter again on the same thread:
`BeforeHandling` is enabled inside `chain` too, and `calls[t]` is the stack of
the `details` locals. `endRequest` of the inner request takes the id away from the
outer one, which then goes on untracked; `innerEnded[t]` remembers it.
`TrackedUntilNested` states what is left of the promise of `startRequest`, and
`InProgressKept` is about every request on the stack.

An entry of the model stands for the `HashMap.Entry` and the boxed key, both
allocated by `put`; the `RequestDetails` object is allocated before `startRequest`
and carries no id of its own. Its url and times are left out.

### StatsTable and RequestTally

One call of `native_extract_stats`, from the two `calloc` of `collectStats` to
the end of `freeStats`. Every allocation may fail. `%` is C's, the bucket is
`(needle % 1024) * 8` as the unparenthesised macro makes it, and `memoryUsed` is an
`int` that wraps. Undefined behaviour ends the run of the model in a place of its
own (`no_table`, `wild_bucket`, `wild_next`), next to the outcome in which it
happens to work. `RequestTally` is the promise: objects are tabulated by id, one
at a time, and then the table is delivered or it is not. `ImplementsTally` checks
the refinement, with the record of an id as that id's tally.

### MethodInjection

An instruction is an opcode class (plain, newarray, return, if, goto, goto_w,
switch) with the instruction it jumps to; positions are byte offsets, computed as
in the code. `map`, `widening` and `injections` are the arrays of
`MethodImage`. A step is one instruction in one pass. The third pass records what it
writes in `history`: where each instruction lands, the jumps with their written
offsets, cut to 16 bits where the code writes 16 bits, and the place of each
switch's operands. `wide` forms, `jsr` (treated by the code as `goto`), the cases
of a switch other than the first and the inverse branch opcodes are abstracted.
The module is checked through `CodeAttributes`, which runs on after it. The lengths of
what can be injected are constants, and for the call tracker at the entry, whose length
depends on the number of the method, part of the method (`callLen`).
`LengthsAssumption` says of them what `injection_template` guarantees, that one piece
takes at most half of `LARGEST_INJECTION`. How many pieces meet at a position is up to
the passes: `NeverFatal` says that the assertions of `inject_bytecodes`, and those of
the third pass, hold.

### CodeAttributes

The rest of `method_write_bytecodes`: the exception table, the line and variable
tables and the stack map frames, read entry by entry and moved through the
injection map with `method_code_map`, with the special case of position 0 where
the code has it. The tables of the input are *all* that a compiler could emit:
every range of instructions, a line for every instruction, a frame wherever the
verifier wants one, in each form the format has. The properties recompute
from `history` what the new tables have to say: `ExceptionsCovered` and
`DebugTablesMatch` compare sets of byte positions, `FramesLand` follows the offset
deltas as the verifier does. They are about methods whose new code stays within 16
bits (`Representable`), for which positions have a meaning at all.

### ClassImage

A call of `java_crw_demo` or `java_crw_demo_classname`, from the checks of the
arguments to `cleanup`. A class is the sequence of its constant pool's entries and of
its methods; an entry is its tag and what it refers to, a method its flags, the
lengths of its byte code and of the tables behind it, the number of injection sites, and
what its branches (`widening`) and stack map frames (`frames`) grow by. A step reads one
entry, or one method, or does what is between. `cpool` is the mirror table by index,
`output` the entries as they are written, `header_count` the count in front of them:
`PoolMirrorsOutput` is their agreement, for a pool with longs that take two
indices. Positions are in bytes, so that a skipped attribute of a wrong length shows
(`ImageComplete`) and the output buffer can overflow.

What can be wrong with a call: arguments that the interface checks refuse
(`badArgument`, a signature for newarray that is not the one wanted), names with `'.'`
(`dotted`, the one in the image included), no magic number or a version too new, an unknown tag, a class of another name
than the one `given`, no super class where there has to be one (`orphan`), and an assertion or
a fatal error inside a method (`malformed`). `given` is `"none"` when the caller has no name.

`heap` is what is allocated, the parts of a `MethodImage` included: `method_write` is one
step, but what `method_init` allocates goes into `heap` and what `method_term` frees is taken out
of it, so that a part that `method_term` forgets is still there when the call returns. Every
step that allocates may run out of memory, which is a fatal error and an end of its own
(`out_of_memory`).

Undefined behaviour is a choice of outcomes: a write behind the mirror table
or the output goes unnoticed or stops the program (`crashed`), and an
assertion outside of a method stops it because `assert_error` reads the name of a
method that is not there. A new entry has to pass two assertions (`HasRoom`): its count is
inside of the table, and has not wrapped to 0. `CallsAssumption` is what the class file
format promises of a class: a pool that 16 bits can count, with the name of the class in
it; and of the rewriter that a method loses no more than its code. The length of the
injected calls is computed as in the
code; the byte code itself is left to `MethodInjection`.

## 3. Runs

| run | shows | bounds |
|---|---|---|
| `HeapAgent` | monitor balanced, class numbers fresh, flags and Java side consistent, natives linked, no abort before death, every callback returns | 2 threads, 3 classes and the tracker |
| `HeapAgentDeath` | *violated*: death held back until other callbacks completed | 2 threads |
| `RequestTracking` | tags follow requests, requests kept apart, no stale garbage, reports complete | 2 threads, 2 objects, 2 requests, `MaxInt` 2 |
| `RequestFilter` | details of running, outer and used requests are kept, servlets run under their own id, the methods of the filter finish | 2 threads, 2 objects, 2 requests, `MaxInt` 3 |
| `RequestFilterOom` | *violated*: no request id outside `doFilter` | 2 threads, 3 objects |
| `RequestFilterPinned` | *violated*: what is in the stats is in use | 2 threads, 3 objects |
| `StatsTable` | table, list, leaks, termination, refinement | ids -2, -1, 1 and 3, sizes 1 and 3, 4 objects, `int` of -5..4, 2 buckets |
| `StatsTableLowMemory` | *violated*: low memory is survived | as `StatsTable` |
| `CodeAttributes` | map, jumps, paddings, assertions, protected ranges, variables, lines, frames, termination | all valid methods of up to 3 instructions, with and without a call at the entry, and of 4 without plain, goto and goto_w; every table of each |
| `CodeAttributesBlocks` | *violated*: no new basic blocks | same |
| `ClassImage` | pool, indices, name, image, memory, which failures there are | pools of up to 5 entries, up to 2 methods of a dozen shapes, names and signatures of all kinds; pools at the limit of 16 bits, unknown tags |
| `ClassImageAssert` | *violated*: a fatal error is reported to its handler | same |

Why the bounds suffice for what they show. Agent: each hazard is a step
of one thread between two steps of another (a hook and a hook, a hook or an allocation
and the death of the machine, `cbVMStart` and an injected call), three classes let
both threads load one while a number is issued already, and the safety properties are
proved for every number of threads and classes (section 5). Tracking: interference needs a second
thread; a report and an object dropped under it need two objects; two requests
are enough for ids to be confused, and `MaxInt` is set so that the counter reaches the point
where it wraps. The filter: two requests of one thread nest, two of two threads
overlap, and two objects are both their entries; what an object besides adds is in
the two runs with three, and the safety properties are proved for any number.
Statistics: two ids in one chain, ids of both signs, and sizes that overflow the
small `int`; the properties that hold are proved too. Rewriting: `JumpLimit` is 8, so that one
injection is enough to push a branch over it; four instructions allow a branch over an
injection next to a switch whose padding depends on both; `SameLimit` is 6 (for 63) so
that a frame has to be extended, and `U2Max` is 32 (for 65535) so that some methods
outgrow it. The safety properties are proved for methods of any length. The byte lengths of the injections are those of the agent's
configuration (4 for `aload_0` or `dup` and `invokestatic`); `ReturnLen` and `CallLen`, 5
each, stand for the trackers that `java_crw_demo` offers and the agent does not use. Two of
these are all that fits `LARGEST_INJECTION`, which is 10 here and leaves more room in the code (36
bytes for pieces of up to 9): a third piece at one position would be fatal. Class image:
`U2Mod` is 128 for 65536, and `LargePools` are the sizes on both sides of the point
at which the mirror table's size no longer fits, and the largest pool there is; two methods are a skipped one
before or after a rewritten one; of the long ones, one grows by more than 512 bytes and fits the output, one does not fit because
of the calls in it, and one, with a stack map frame behind every nine arrays, because of its frames; the number of the class is on both sides of what a
short constant holds. The invariants of this run are proved for every class.

Deadlock is checked in every run. `Halted` and `Stopped` are the states in which
the process has ended or the call has returned.

Fairness. `HeapAgent`: weak fairness of each thread's steps (a thread in the
agent is scheduled) and strong fairness of entering the monitor (a raw monitor
queues its waiters). `RequestFilter`: weak fairness of each thread inside
the filter or the tracker, none of the servlet behind the chain, which may take
for ever. Weak fairness is enough for the map: its lock is held across steps only
by the `put` of a new request, and requests are bounded.
`StatsTable`, `CodeAttributes` and `ClassImage` are sequential: weak fairness of the
next step.

## 4. What the violated runs say

1. `HeapAgentDeath`: the comment at `heapTracker.c:555` holds for the class file load
   hook only. `cbVMObjectAlloc` tests `vmDead` and tags without the monitor; it can
   be past its test when the machine is dead, and `check_jvmti_error` then ends the
   process with its error message.
2. `RequestFilterOom`: `beforeHandlingRequest` is outside the `try` of `doFilter`
   (`RequestTrackingFilter.java:55`). An error in `put` leaves the pooled thread
   with the id.
3. `RequestFilterPinned`: see `RequestFilter` above.
4. `StatsTableLowMemory`: `TestHeapTracking` expects to survive a report while memory is
   low. The second `calloc` of `collectStats` is not tested, which is what the
   run shows; the way out of a failed call also passes through `freeStats`, whose
   `free(stats); stats = stats->next;` (`heapTracker.c:512`) reads a freed record and
   is the other step at which the model leaves defined behaviour.
5. `CodeAttributesBlocks`: "We didn't add any basic blocks so the frame count remains
   the same" (`java_crw_demo.c:1717`). A widened `if` becomes the inverse branch
   around a `goto_w` (`java_crw_demo.c:1491`), so that the instruction after it is
   branched to; it has a frame only if it had one before.
6. `ClassImageAssert`: the handler is the "Pointer to function to call on any fatal
   error" (`java_crw_demo.h:156`). An assertion that fails while the arguments, the header, the
   constant pool or the fields are read, such as the one on the version or the ones on
   names with `'.'`, ends in a null
   pointer in `assert_error` (`java_crw_demo.c:274`) before the handler is called.

Seen while modelling, and left without a run:

* `README.txt:57` promises that only
  referenced memory is counted, but what other threads drop between the forced
  collection and the walk is counted too.
* `cbVMObjectAlloc` is not the only late one: `native_start_request` and
  `native_extract_stats` never look at `vmDead`, and a thread that calls them on a dead
  machine ends the process in `check_jvmti_error`. `FatalOnlyAfterDeath` allows that.
* After 2^31 requests ids are negative, and
  so is the index of `buckets[hash]` (`heapTracker.c:413`; the outcome `wild_bucket` of
  `StatsTable`); after 2^32, `uniqueId` reaches 0, the id that means no request.
* `memoryUsed` is an `int` (`heapTracker.c:117`, `heapTracker.c:462`): a request that holds
  more than 2 GB is reported with a negative size, or with any other. `RequestTally` promises that
  `int` and no more.
* `writeUoffset` (`java_crw_demo.c:1671`) has no `else`: for a new code of more than 65535 bytes
  it writes four bytes and then two more, where its comment says "u2 or u4". `OffsetFields` has
  both; `FramesLand` is about the methods that stay below.
* `cpool_max_elements`, the "Max count" of the mirror table (`java_crw_demo.c:139`), is 16 bits wide.
  For a constant pool within 64 entries of the limit it wraps to a small number, the table is
  allocated with that (`java_crw_demo.c:639`), and the entries of the input are put behind it.
  `TypeOK` and `FailsOnBadInput` name the exception, `PoolFull`.
* `java_crw_demo.h:148` asks for `(Ljava/lang/Object;II)V` as the signature of the newarray
  tracker; the code refuses everything but `(Ljava/lang/Object;)V` (`java_crw_demo.c:2397`), which is what
  the agent passes. `ClassImage` has callers of both kinds, and `TrackersResolve` is about the calls
  that the code accepts.
* A method that calls, wider branches and wider stack map frames make more than twice as long
  overflows the output buffer (`java_crw_demo.c:2417`): `FailsOnBadInput` names it.
* A class of a version that `java_crw_demo` refuses may hold constants at which
  `java_crw_demo_classname`, which does not look at the version, stops with a fatal error
  (`java_crw_demo.c:690`).
* `java_crw_demo.h:116` has only empty `<clinit>` methods skipped, the code skips
  every `<clinit>` of a system class; `java_crw_demo.h:50` has the callback called for
  classes with methods, the code calls it for a count of 0 too.

## 5. Proofs

`HeapAgentProofs` proves, for any set of threads and any number of classes:

| theorem | says |
|---|---|
| `Types`, `MonitorSafety` | `Spec => [](TypeOK /\ MonitorBalanced)` |
| `Phases` | `Spec => []PhaseInv` |
| `NativesAreLinked` | `Spec => []NativesLinked` |
| `FatalAfterDeath` | `Spec => []FatalOnlyAfterDeath` |
| `ClassNumbersFresh` | `Spec => []FreshClassNumber` |
| `HookReadsValid` | `Spec => []HookReadsStillValid` |
| `AgentStateAgrees` | `Spec => []AgentStateConsistent` |

The assumptions are the three named ones of `HeapAgent`: the booting thread is a
thread, `NoThread` is not, the bound is a natural number.

The argument is built in layers, each an invariant proved with the ones before it.

* `TypeOK /\ MonitorBalanced` is inductive by itself: the monitor's owner and
  depth are a function of the places of the threads. Its corollary `Exclusion` is what
  the later layers use: two threads are not inside critical sections at the same time.
* `PhaseInv` ties the phase to the flags and to the places only the booting thread can
  be at, and confines JVMTI calls that are legal in some phases to places at which
  the phase is one of those or the machine is dead. From it follow `NativesLinked`
  and `FatalOnlyAfterDeath`, neither of which is inductive: each needs to know that
  `engaged` comes after registration and that Java code calls the natives in the
  right phases.
* `HookInv` says what a hook in progress knows: its number is the counter before the
  increment and below it after, all issued numbers are below the counter, and
  `vmDead` and `vmStarted` are as it read them. That they stay so is `Exclusion`
  again: those who write them are in critical sections.
* `StateInv` follows `engaged`, the callbacks and the flags through the steps of `cbVMStart`
  and `cbVMDeath`; `AgentStateConsistent` is the case in which nobody is inside.

`RequestTrackingProofs` proves, for any threads, any objects, any width of `uniqueId`
and any number of requests:

| theorem | says |
|---|---|
| `Types`, `AttributionInvariant` | `Spec => []AttributionInv` |
| `TagsNameTheirRequest` | `Spec => []Attributed` |
| `RequestsStayApart` | `Spec => []RequestsKeptApart` |
| `ReportInvariant` | `Spec => []ReportInv` |
| `ReportsNoStaleGarbage` | `Spec => []NoStaleGarbage` |
| `ReportsAllHeld` | `Spec => []ReportComplete` |

The assumptions are those of `RequestTracking`: `NoObj` is no object, `MaxInt` is a
positive and `MaxRequests` a natural number.

* `Attributed` is not inductive: that tagging gives an object the right id needs
  `IdsMatch` (the thread's storage holds the id of its request, and so does the
  argument of `_start_request` on its way there; ids already given never change) and
  `FreshMatch` (the object being tagged is the one this thread allocated, in this
  request, and no other thread or collection touches it). The three and the
  types form `AttributionInv`.
* `RequestsKeptApart` adds `IdsInOrder`: below its wrap-around `uniqueId` has given
  1, 2, 3 and so on, so that the ids of two requests differ.
* The report needs `StaleMatch` (what was garbage at the call stays garbage until a
  collection takes it, and the caller's own collection takes all of it before it
  walks) and `HeldMatch` (what was held and tagged at the call keeps its place and
  tag as long as it is referenced, whatever the other threads do).

`StatsTableProofs` proves, for any ids, any objects and sizes, any width of
`int` and any geometry of the table:

| theorem | says |
|---|---|
| `TableInvariant`, `Types` | `Spec => []TableInv`, `Spec => []TypeOK` |
| `OneRecord` | `Spec => []OneRecordPerRequest` |
| `LoopInvariant`, `ListIsComplete` | `Spec => []ListComplete` |
| `NothingLeaks` | `Spec => []NoLeak` |
| `TableImplementsTally` | `Spec => ImplementsTally` |

The assumptions are the named ones of `StatsTable`, about widths and the number of
buckets.

* `TableInv` is the order of the chains (`ChainsInv`: a record is in the chain
  of its id's bucket, once) with the types of the numbers and of everything else.
  `findOrCreateRequestStats` walks only one chain; `OneRecordPerRequest` follows because
  a record cannot be in another. The lemmas about `FindOrCreateChain` and
  `VisitedChain` say what a visit does to a chain: nothing, one more record at
  its end, or one record counted up.
* `NoLeak` and `ListComplete` are about the state at the end of two nested loops; the
  invariant that carries them says what the cursor (bucket and place in the chain)
  has *passed*: it is freed, or in the list, and the rest is not.
* The refinement maps the record of an id to that id's tally and the place the call
  ended in to its outcome. A visit of an object is a step of `RequestTally` or, if
  an allocation fails, a stutter; the list's last step is its delivery, everything
  else stutters.

`RequestFilterProofs` proves, for any threads and objects and for any number of
requests that `uniqueId` can tell apart (`BelowWrap`, an assumption of each theorem:
with a request of id 0 the invariant is false):

| theorem | says |
|---|---|
| `FilterTypes` | `FilterSpec => []FilterTypeOK` |
| `InProgressStays` | `FilterSpec => []InProgressKept` |
| `ServletsAreTracked` | `FilterSpec => []TrackedUntilNested` |
| `UsedDetailsStay` | `FilterSpec => []UsedDetailsKept` |
| `NothingIsRemoved` | `FilterSpec => [][DOMAIN details \subseteq DOMAIN details']_vars` |
| `FilterUsesTracker` | `FilterSpec => Spec`, the specification of `RequestTracking` |

* `FilterInv` says of the map that each entry is a held object tagged with the id it
  is filed under (`MapInv`), and of each thread where it can be inside the
  tracker (`PlaceInv`), which id it carries (`IdInv`), that the entry it is about to
  store gets that id (`EntryInv`), and which of its requests are filed (`CallInv`).
* `KeyInv` is the argument about the collector: the keys it has copied are in the map, at
  the walk each of them has its entry in the heap and so in the report, and
  nothing is left to remove. That is why `removeAll` is a stutter of the tracker
  and `FilterUsesTracker` holds.
* What is proved of `RequestTracking` carries over: `FilterInv` contains its invariant,
  and its step lemmas are cited.

`MethodInjectionProofs` proves, for methods of any length, with any opcodes, jumps and
switches, and any limit of a short jump:

| theorem | says |
|---|---|
| `Types`, `PassesAgree` | `Spec => []TypeOK`, `Spec => []InjectionInv` |
| `MapIsTheOutput` | `Spec => []MapMatchesOutput` |
| `JumpsLandRight` | `Spec => []JumpsLand` |
| `SwitchesStayAligned` | `Spec => []SwitchesAligned` |
| `NoFatalError` | `Spec => []NeverFatal` |

The assumptions are those of `MethodInjection`: the lengths of what is injected fit
(`LengthsAssumption`), and a method is a sequence of instructions whose jumps have targets in
it (`MethodsAssumption`).

* None of the four properties is inductive. They are about three passes that
  never look at each other's reasons: the first pass shifts the map, the second shifts
  it again as it widens branches and pads switches, and starts again after each change,
  and the third writes bytes and compares where it is with the map.
* `MapInv` is what they have in common: at any moment the map displaces each
  instruction by all that is injected and widened in front of it so far
  (`InjectionsInv` counts the first, `WideningInv` bounds the second), and what is
  inside of an instruction moves along with it (`Interior`).
* `SettledInv` carries the restart loop: what the second pass has gone over without a
  change needs the widening it has. A change takes it back to the first
  instruction, so nothing is known then; when it reaches the end it holds of every
  instruction, and the third pass, which recomputes the widening, finds what it expects.
* `OutputInv` relates the bytes written to the map and to the targets of the jumps.
* A shift of the map at one position is a function on all later ones: `ShiftFacts`,
  `InteriorShift` and `PositionsUnfold` say what it does to positions of instructions.
  `LengthOf` adds up pieces along a sequence; `LengthOfAppend` is proved for any length.

`CodeAttributesProofs` carries on where these stop, for every set of entries of the
tables and every form of frame:

| theorem | says |
|---|---|
| `TableTypes`, `TablesAgree` | `CodeSpec => []CodeTypeOK`, `CodeSpec => []CodeInv` |
| `CodeStaysRight` | the four properties above under `CodeSpec` |
| `RangesStayProtected` | `CodeSpec => []ExceptionsCovered` |
| `DebuggersFindTheirWay` | `CodeSpec => []DebugTablesMatch` |
| `FramesLandRight` | `CodeSpec => []FramesLand` |

It uses `LimitsAssumption` besides: the limits of a frame's type byte and of a 16 bit field
are natural numbers, whatever they are.

* `CodeInv` is `InjectionInv` with what each table holds once it is written
  (`EntriesInv`) and, while a stack map is being written, that each frame has the offset
  from the frame before it and a form that has room for it (`FramesInv`).
* The properties speak of bytes: `PiecesInARow` shows that the pieces of a range of
  instructions are one interval of the new code, without gaps or overlaps, so that
  the two ends `method_code_map` moves are enough. `PositionsAddUp` sums the offset
  deltas of the frames as the verifier does.

`ClassImageProofs` proves, for every class file with any constant pool and any methods, any
configuration of trackers, any size of the table and any width of an index:

| theorem | says |
|---|---|
| `Types`, `ImageInvariant` | `Spec => []TypeOK`, `Spec => []IInv` |
| `PoolMirrors` | `Spec => []PoolMirrorsOutput` |
| `IndicesResolve` | `Spec => []TrackersResolve` |
| `NamesAreRead` | `Spec => []NameRead` |
| `ImagesAreComplete` | `Spec => []ImageComplete` |
| `NoLeaks` | `Spec => []NothingLeaked` |
| `FailuresAreNamed` | `Spec => []FailsOnBadInput` |

The assumptions are those of `ClassImage`: `SizesAssumption` (the table has room for 20 more
entries, where the code has 64, and `Slack` for their bytes: 19 entries are all that
`cpool_setup` ever adds), `TextAssumption` (the trackers' names are texts) and
`CallsAssumption` (section 2).

* `Mirrors` relates the table, the entries written and the count; `MirrorAdded` shows that
  `fillin_cpool_entry` at the count keeps it, whether the entry takes one index or two. While
  the pool is read, `ReadInv` says so of the entries read so far, which are the first of
  the input's; afterwards `PoolInv` says so of all of them and the new ones.
* New entries are added at the end, so nothing an index stands for changes: `Grows` and
  `KeepsMeaning` carry a class or a method from the pool it was added to through all
  later additions, and `NewPoolRight` chains the nineteen of them.
* `TypeOK` bounds the entries by the size of the table too. Unless `PoolFull`, that size is the
  count and the room for new entries without a wrap: the entries read are below it, and those added
  are because `add_new_cpool_entry` asserts it.
* That an assertion fails only for a named cause is the other half: `Fits` counts the places
  left in the table, and each `add_new_*_cpool_entry` takes what it needs of them
  (`NewPoolFits`); `EntryReadInv` keeps unknown tags out of what has been read, and
  `FailsInv` follows the arguments and the class through the phases. For the output buffer it is
  `PositionsInv`: what has been written is at most twice what has been read and the new
  entries, as long as no method more than doubles.
* The position in the input is what is in front of the next method, by its real length
  (`MethodsTo`), whether the methods before it were skipped, rewritten or abstract; at the
  end that is the file's length, `ImageComplete`.
* `HeapInv`: between two methods everything allocated is in the set `cleanup` frees, which grows
  with the count of the pool, or is the caller's; `MethodTermFrees` is the part of it that says that
  `method_term` frees what `method_init` and `inject_bytecodes` allocated.

The last three need induction over the instructions, the pieces or the frames of a method,
or the entries of a pool. The
library's induction theorems cannot be cited by these provers, so `IntegerLemmas` derives
what is needed from the well-foundedness of `<` on the naturals, with sets in place of
predicates: `IntervalInduction` (a set of numbers that holds the first of an interval,
and the next of each, holds all), `SumExists` and `SumsAgree` (a running sum exists and is
determined), `StepsIncrease` and `StepsCover` (the steps of an increasing sequence are
disjoint and fill the interval).

Only model-checked: liveness everywhere (`CallsReturn`, `CallsFinish`, `Ends`,
`Terminates`): the prover has no rules for fairness and `ENABLED`. Every safety property of
the passing runs is proved.

## 6. Not modelled

* Headers, build files and the test drivers: they hold no logic of their own.
* `agent_util.c` other than the two ways to end the process (part of `HeapAgent`):
  allocation wrappers, list matching and `add_demo_jar`, none called by the agent with
  anything that depends on state.
* Two instances of `HeapTracker`: each counts its ids from 1, so that ids of
  different requests are equal by construction.
* The url, times and `inProgress` of `RequestDetails`: only their getters read them.
* Methods whose new code outgrows 65535 bytes. No code looks at the new length, and
  positions are cut to 16 bits; `CodeAttributes` computes what is written for them and
  states nothing about it.
* Class files that end too early or refer to constants that are not there: `readU1` and
  `cpool_entry` test positions and indices with assertions (the position after the fact), which
  end as the ones `ClassImage` has.
* `wide` and `jsr` forms and the number of stack words (`max_stack`), which the
  code adjusts by constants.
* A crash and restart: the agent keeps nothing outside of the process.
