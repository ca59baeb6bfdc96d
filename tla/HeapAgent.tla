----------------------------- MODULE HeapAgent -----------------------------
(***************************************************************************)
(* The JVMTI agent of heapTracker.c: the life cycle of the virtual machine *)
(* as the agent sees it, the raw monitor gdata->lock, the event callbacks  *)
(* (cbVMStart, cbVMInit, cbVMDeath, cbVMObjectAlloc, cbClassFileLoadHook)  *)
(* and the native methods the injected byte code and HeapTracker.java      *)
(* call.  Every thread runs its callback or native one step at a time: a   *)
(* step is what happens between two points at which another thread can     *)
(* see or change the shared state.                                         *)
(***************************************************************************)
EXTENDS Integers, FiniteSets

CONSTANTS
    Thread,      \* the threads of the virtual machine
    VmThread,    \* the thread that boots it and posts VMStart and VMInit
    NoThread,    \* the owner of a free monitor
    MaxClasses   \* bound: classes other than the tracker that are loaded

ASSUME VmThreadAssumption == VmThread \in Thread
ASSUME NoThreadAssumption == NoThread \notin Thread
ASSUME MaxClassesAssumption == MaxClasses \in Nat

VARIABLES
    gdata,     \* GlobalAgentData: the VM flags and the class counter
    monitor,   \* the raw monitor gdata->lock: owner and entry count
    vm,        \* the machine: phase, callbacks, natives, tracker class
    process,   \* "running", "fatal" (exit(3) of the agent) or "ended"
    pc,        \* pc[t]: the next step of thread t; "java" outside the agent
    hook,      \* hook[t]: the locals of t's cbClassFileLoadHook
    loads,     \* classes loaded so far, bounded by MaxClasses
    issued     \* history: class numbers given to java_crw_demo

vars == <<gdata, monitor, vm, process, pc, hook, loads, issued>>

Phase == {"onload", "primordial", "start", "live", "dead"}

HookSteps == {"hook_check", "hook_number", "hook_bump", "hook_inject", "hook_exit"}
StartSteps == {"start_find", "start_register", "start_engage", "start_flag", "start_exit"}
InitSteps == {"init_flag", "init_exit"}
DeathSteps == {"death_disengage", "death_callbacks", "death_flag", "death_exit"}
WalkSteps == {"extract_walk", "extract_exit"}

\* The steps a thread takes inside the critical section of an event
\* callback or native; HookSteps may also run nested in start_find.
OwnSteps == StartSteps \cup InitSteps \cup DeathSteps \cup WalkSteps
EnterSteps == {"hook_enter", "start_enter", "init_enter", "death_enter", "extract_enter"}
FreeSteps == {"java", "init_iterate", "death_gc", "death_return", "event_check",
              "native_check", "event_tag_get", "native_tag_get", "tag_set",
              "request_set", "extract_gc"}
Steps == HookSteps \cup OwnSteps \cup EnterSteps \cup FreeSteps

Hook == [tracker : BOOLEAN, back : {"java", "start_register"},
         number : Nat, system : BOOLEAN]

Init ==
    /\ gdata = [vmStarted |-> FALSE, vmInitialized |-> FALSE, vmDead |-> FALSE, ccount |-> 0]
    /\ monitor = [owner |-> NoThread, depth |-> 0]
    /\ vm = [phase |-> "onload", callbacks |-> FALSE, registered |-> FALSE,
             engaged |-> FALSE, trackerLoaded |-> FALSE]
    /\ process = "running"
    /\ pc = [t \in Thread |-> "java"]
    /\ hook = [t \in Thread |-> [tracker |-> FALSE, back |-> "java",
                                 number |-> 0, system |-> FALSE]]
    /\ loads = 0
    /\ issued = {}

-----------------------------------------------------------------------------
\* Control.  A step happens only while the process runs.

At(t, step) == process = "running" /\ pc[t] = step
Goto(t, step) == pc' = [pc EXCEPT ![t] = step]

\* check_jvmti_error and fatal_error: the agent takes the process down.
FatalError ==
    /\ process' = "fatal"
    /\ UNCHANGED <<gdata, monitor, vm, pc, hook, loads, issued>>

\* A JVMTI function that is legal in the given phases: JVMTI_ERROR_WRONG_PHASE
\* in the others.
LegalIn(phases) == vm.phase \in phases

\* Raw monitors are re-entrant: the owner enters again.
CanEnter(t) == monitor.owner \in {NoThread, t}

enterCriticalSection(t) ==
    /\ CanEnter(t)
    /\ monitor' = [owner |-> t, depth |-> monitor.depth + 1]

\* Exiting once too often.
ExitTwice(t) ==
    monitor' = [owner |-> NoThread, depth |-> monitor.depth - 2]

exitCriticalSection(t) ==
    monitor' = [owner |-> IF monitor.depth = 1 THEN NoThread ELSE t,
                depth |-> monitor.depth - 1]

\* Threads other than the booting one run Java code from the start phase on;
\* main(), and with it every thread that calls System.exit or HeapTracker,
\* runs once the VMInit event has been delivered.
RunsJava(t) == At(t, "java") /\ vm.phase # "onload" /\ (vm.phase = "primordial" => t = VmThread)
ApplicationRuns ==
    /\ vm.phase \in {"live", "dead"}
    /\ pc[VmThread] \notin {"init_iterate", "init_enter", "init_flag", "init_exit"}

-----------------------------------------------------------------------------
\* Agent_OnLoad: all callbacks are set and enabled before any Java code runs.

Agent_OnLoad ==
    /\ process = "running"
    /\ vm.phase = "onload"
    /\ vm' = [vm EXCEPT !.phase = "primordial", !.callbacks = TRUE]
    /\ UNCHANGED <<gdata, monitor, process, pc, hook, loads, issued>>

-----------------------------------------------------------------------------
\* cbClassFileLoadHook.  LoadClass is the machine's side: a thread in Java
\* code loads a class and the event is sent if the callbacks are still set.

CallHook(t, tracker, back) ==
    /\ hook' = [hook EXCEPT ![t] = [tracker |-> tracker, back |-> back,
                                   number |-> 0, system |-> FALSE]]
    /\ Goto(t, "hook_enter")

LoadClass(t) ==
    /\ RunsJava(t)
    /\ vm.callbacks
    /\ loads < MaxClasses
    /\ loads' = loads + 1
    /\ CallHook(t, FALSE, "java")
    /\ UNCHANGED <<gdata, monitor, vm, process, issued>>

\* The first Object.<init> call loads the tracker class while the machine boots.
LoadTracker(t) ==
    /\ RunsJava(t)
    /\ vm.phase = "primordial"
    /\ ~ vm.trackerLoaded
    /\ vm' = [vm EXCEPT !.trackerLoaded = TRUE]
    /\ CallHook(t, TRUE, "java")
    /\ UNCHANGED <<gdata, monitor, process, loads, issued>>

HookEnter(t) ==
    /\ At(t, "hook_enter")
    /\ enterCriticalSection(t)
    /\ Goto(t, "hook_check")
    /\ UNCHANGED <<gdata, vm, process, hook, loads, issued>>

\* Without the test of vmDead.
InstrumentsDead(t) == ~ hook[t].tracker

\* "It's possible we get here right after VmDeath event": the class is left
\* alone then, and the tracker class is never instrumented.
Instruments(t) == ~ gdata.vmDead /\ ~ hook[t].tracker

\* An early return, past the exit of the critical section.
HookCheckReturns(t) ==
    /\ At(t, "hook_check")
    /\ Goto(t, IF Instruments(t) THEN "hook_number" ELSE hook[t].back)
    /\ UNCHANGED <<gdata, monitor, vm, process, hook, loads, issued>>

HookCheck(t) ==
    /\ At(t, "hook_check")
    /\ Goto(t, IF Instruments(t) THEN "hook_number" ELSE "hook_exit")
    /\ UNCHANGED <<gdata, monitor, vm, process, hook, loads, issued>>

\* cnum = gdata->ccount++ is a read and a write.
HookNumber(t) ==
    /\ At(t, "hook_number")
    /\ hook' = [hook EXCEPT ![t].number = gdata.ccount]
    /\ Goto(t, "hook_bump")
    /\ UNCHANGED <<gdata, monitor, vm, process, loads, issued>>

\* A counter that is read and not incremented.
HookKeepsCount(t) ==
    /\ At(t, "hook_bump")
    /\ hook' = [hook EXCEPT ![t].system = ~ gdata.vmStarted]
    /\ Goto(t, "hook_inject")
    /\ UNCHANGED <<gdata, monitor, vm, process, loads, issued>>

HookBump(t) ==
    /\ At(t, "hook_bump")
    /\ gdata' = [gdata EXCEPT !.ccount = hook[t].number + 1]
    /\ hook' = [hook EXCEPT ![t].system = ~ gdata.vmStarted]
    /\ Goto(t, "hook_inject")
    /\ UNCHANGED <<monitor, vm, process, loads, issued>>

\* java_crw_demo and the copy of its image to JVMTI space.
HookInject(t) ==
    /\ At(t, "hook_inject")
    /\ issued' = issued \cup {hook[t].number}
    /\ Goto(t, "hook_exit")
    /\ UNCHANGED <<gdata, monitor, vm, process, hook, loads>>

HookExit(t) ==
    /\ At(t, "hook_exit")
    /\ exitCriticalSection(t)
    /\ Goto(t, hook[t].back)
    /\ UNCHANGED <<gdata, vm, process, hook, loads, issued>>

HookStep(t) ==
    \/ HookEnter(t) \/ HookCheck(t) \/ HookNumber(t)
    \/ HookBump(t)  \/ HookInject(t) \/ HookExit(t)

-----------------------------------------------------------------------------
\* cbVMStart.

PostVMStart(t) ==
    /\ t = VmThread
    /\ At(t, "java")
    /\ vm.phase = "primordial"
    /\ vm' = [vm EXCEPT !.phase = "start"]
    /\ Goto(t, "start_enter")
    /\ UNCHANGED <<gdata, monitor, process, hook, loads, issued>>

StartEnter(t) ==
    /\ At(t, "start_enter")
    /\ enterCriticalSection(t)
    /\ Goto(t, "start_find")
    /\ UNCHANGED <<gdata, vm, process, hook, loads, issued>>

\* FindClass loads the tracker class if nothing has: the class file load hook
\* then runs nested, on this thread, inside its critical section.
StartFind(t) ==
    /\ At(t, "start_find")
    /\ vm' = [vm EXCEPT !.trackerLoaded = TRUE]
    /\ \/ vm.trackerLoaded /\ Goto(t, "start_register") /\ UNCHANGED hook
       \/ ~ vm.trackerLoaded /\ CallHook(t, TRUE, "start_register")
    /\ UNCHANGED <<gdata, monitor, process, loads, issued>>

\* Engaging the injected calls in place of registering the natives, and looking
\* at the heap, as cbVMInit does, in the start phase.
StartEngagesFirst(t) ==
    /\ At(t, "start_register")
    /\ vm' = [vm EXCEPT !.engaged = TRUE]
    /\ Goto(t, "start_engage")
    /\ UNCHANGED <<gdata, monitor, process, hook, loads, issued>>

StartIterates(t) ==
    /\ At(t, "start_register")
    /\ IF LegalIn({"live"})
         THEN Goto(t, "start_engage") /\ UNCHANGED <<gdata, monitor, vm, process, hook, loads, issued>>
         ELSE FatalError

StartRegister(t) ==
    /\ At(t, "start_register")
    /\ vm' = [vm EXCEPT !.registered = TRUE]
    /\ Goto(t, "start_engage")
    /\ UNCHANGED <<gdata, monitor, process, hook, loads, issued>>

StartEngage(t) ==
    /\ At(t, "start_engage")
    /\ vm' = [vm EXCEPT !.engaged = TRUE]
    /\ Goto(t, "start_flag")
    /\ UNCHANGED <<gdata, monitor, process, hook, loads, issued>>

StartFlag(t) ==
    /\ At(t, "start_flag")
    /\ gdata' = [gdata EXCEPT !.vmStarted = TRUE]
    /\ Goto(t, "start_exit")
    /\ UNCHANGED <<monitor, vm, process, hook, loads, issued>>

StartExit(t) ==
    /\ At(t, "start_exit")
    /\ exitCriticalSection(t)
    /\ Goto(t, "java")
    /\ UNCHANGED <<gdata, vm, process, hook, loads, issued>>

StartStep(t) ==
    \/ StartEnter(t)  \/ StartFind(t) \/ StartRegister(t)
    \/ StartEngage(t) \/ StartFlag(t) \/ StartExit(t)

-----------------------------------------------------------------------------
\* cbVMInit.  The heap iteration visits objects and changes none of them.

PostVMInit(t) ==
    /\ t = VmThread
    /\ At(t, "java")
    /\ vm.phase = "start"
    /\ vm' = [vm EXCEPT !.phase = "live"]
    /\ Goto(t, "init_iterate")
    /\ UNCHANGED <<gdata, monitor, process, hook, loads, issued>>

InitIterate(t) ==
    /\ At(t, "init_iterate")
    /\ Goto(t, "init_enter")
    /\ UNCHANGED <<gdata, monitor, vm, process, hook, loads, issued>>

InitEnter(t) ==
    /\ At(t, "init_enter")
    /\ enterCriticalSection(t)
    /\ Goto(t, "init_flag")
    /\ UNCHANGED <<gdata, vm, process, hook, loads, issued>>

InitFlag(t) ==
    /\ At(t, "init_flag")
    /\ gdata' = [gdata EXCEPT !.vmInitialized = TRUE]
    /\ Goto(t, "init_exit")
    /\ UNCHANGED <<monitor, vm, process, hook, loads, issued>>

InitExit(t) ==
    /\ At(t, "init_exit")
    /\ exitCriticalSection(t)
    /\ Goto(t, "java")
    /\ UNCHANGED <<gdata, vm, process, hook, loads, issued>>

InitStep(t) == InitIterate(t) \/ InitEnter(t) \/ InitFlag(t) \/ InitExit(t)

-----------------------------------------------------------------------------
\* cbVMDeath.  Any thread may call System.exit; the event is posted once, and
\* the machine enters the dead phase when the callback has returned.

PostVMDeath(t) ==
    /\ At(t, "java")
    /\ ApplicationRuns
    /\ vm.phase = "live"
    /\ \A u \in Thread : pc[u] \notin DeathSteps \cup {"death_gc", "death_enter", "death_return"}
    /\ Goto(t, "death_gc")
    /\ UNCHANGED <<gdata, monitor, vm, process, hook, loads, issued>>

\* Forced collection, "purposely done outside the critical section".
DeathGC(t) ==
    /\ At(t, "death_gc")
    /\ Goto(t, "death_enter")
    /\ UNCHANGED <<gdata, monitor, vm, process, hook, loads, issued>>

DeathEnter(t) ==
    /\ At(t, "death_enter")
    /\ enterCriticalSection(t)
    /\ Goto(t, "death_disengage")
    /\ UNCHANGED <<gdata, vm, process, hook, loads, issued>>

\* Without the SetStaticIntField.
DeathStaysEngaged(t) ==
    /\ At(t, "death_disengage")
    /\ Goto(t, "death_callbacks")
    /\ UNCHANGED <<gdata, monitor, vm, process, hook, loads, issued>>

DeathDisengage(t) ==
    /\ At(t, "death_disengage")
    /\ vm' = [vm EXCEPT !.engaged = FALSE]
    /\ Goto(t, "death_callbacks")
    /\ UNCHANGED <<gdata, monitor, process, hook, loads, issued>>

DeathCallbacks(t) ==
    /\ At(t, "death_callbacks")
    /\ vm' = [vm EXCEPT !.callbacks = FALSE]
    /\ Goto(t, "death_flag")
    /\ UNCHANGED <<gdata, monitor, process, hook, loads, issued>>

DeathFlag(t) ==
    /\ At(t, "death_flag")
    /\ gdata' = [gdata EXCEPT !.vmDead = TRUE]
    /\ Goto(t, "death_exit")
    /\ UNCHANGED <<monitor, vm, process, hook, loads, issued>>

DeathExit(t) ==
    /\ At(t, "death_exit")
    /\ exitCriticalSection(t)
    /\ Goto(t, "death_return")
    /\ UNCHANGED <<gdata, vm, process, hook, loads, issued>>

\* The machine's side of the return.
DeathReturn(t) ==
    /\ At(t, "death_return")
    /\ vm' = [vm EXCEPT !.phase = "dead"]
    /\ Goto(t, "java")
    /\ UNCHANGED <<gdata, monitor, process, hook, loads, issued>>

DeathStep(t) ==
    \/ DeathGC(t)        \/ DeathEnter(t) \/ DeathDisengage(t)
    \/ DeathCallbacks(t) \/ DeathFlag(t)  \/ DeathExit(t) \/ DeathReturn(t)

\* The process ends some time after the death event; threads run until then.
EndProcess ==
    /\ process = "running"
    /\ vm.phase = "dead"
    /\ process' = "ended"
    /\ UNCHANGED <<gdata, monitor, vm, pc, hook, loads, issued>>

-----------------------------------------------------------------------------
\* Allocations.  The injected call of HeapTrackerJNISupport.newobj or newarr
\* enters the native if engaged was set; the machine sends VMObjectAlloc for
\* the objects it allocates itself.  Neither takes the monitor.

Allocate(t) ==
    /\ RunsJava(t)
    /\ vm.engaged
    /\ Goto(t, "native_check")
    /\ UNCHANGED <<gdata, monitor, vm, process, hook, loads, issued>>

PostVMObjectAlloc(t) ==
    /\ RunsJava(t)
    /\ vm.phase = "live"
    /\ vm.callbacks
    /\ Goto(t, "event_check")
    /\ UNCHANGED <<gdata, monitor, vm, process, hook, loads, issued>>

NativeNewobj(t) ==
    /\ At(t, "native_check")
    /\ Goto(t, IF gdata.vmDead THEN "java" ELSE "native_tag_get")
    /\ UNCHANGED <<gdata, monitor, vm, process, hook, loads, issued>>

cbVMObjectAlloc(t) ==
    /\ At(t, "event_check")
    /\ Goto(t, IF gdata.vmDead THEN "java" ELSE "event_tag_get")
    /\ UNCHANGED <<gdata, monitor, vm, process, hook, loads, issued>>

\* tagObject: the result of GetThreadLocalStorage is checked, the one of
\* SetTag is not.
TagGet(t) ==
    /\ At(t, "native_tag_get") \/ At(t, "event_tag_get")
    /\ IF LegalIn({"start", "live"})
         THEN Goto(t, "tag_set") /\ UNCHANGED <<gdata, monitor, vm, process, hook, loads, issued>>
         ELSE FatalError

TagSet(t) ==
    /\ At(t, "tag_set")
    /\ Goto(t, "java")
    /\ UNCHANGED <<gdata, monitor, vm, process, hook, loads, issued>>

AllocStep(t) == NativeNewobj(t) \/ cbVMObjectAlloc(t) \/ TagGet(t) \/ TagSet(t)

-----------------------------------------------------------------------------
\* HeapTracker.java's natives: start_request and extract_stats.  Neither
\* looks at vmDead.

CallRequest(t) ==
    /\ At(t, "java")
    /\ ApplicationRuns
    /\ \E native \in {"request_set", "extract_gc"} : Goto(t, native)
    /\ UNCHANGED <<gdata, monitor, vm, process, hook, loads, issued>>

RequestSet(t) ==
    /\ At(t, "request_set")
    /\ IF LegalIn({"start", "live"})
         THEN Goto(t, "java") /\ UNCHANGED <<gdata, monitor, vm, process, hook, loads, issued>>
         ELSE FatalError

ExtractGC(t) ==
    /\ At(t, "extract_gc")
    /\ IF LegalIn({"live"})
         THEN Goto(t, "extract_enter") /\ UNCHANGED <<gdata, monitor, vm, process, hook, loads, issued>>
         ELSE FatalError

ExtractEnter(t) ==
    /\ At(t, "extract_enter")
    /\ enterCriticalSection(t)
    /\ Goto(t, "extract_walk")
    /\ UNCHANGED <<gdata, vm, process, hook, loads, issued>>

\* collectStats: the heap iteration is checked too.
ExtractWalk(t) ==
    /\ At(t, "extract_walk")
    /\ IF LegalIn({"live"})
         THEN Goto(t, "extract_exit") /\ UNCHANGED <<gdata, monitor, vm, process, hook, loads, issued>>
         ELSE FatalError

ExtractExit(t) ==
    /\ At(t, "extract_exit")
    /\ exitCriticalSection(t)
    /\ Goto(t, "java")
    /\ UNCHANGED <<gdata, vm, process, hook, loads, issued>>

RequestStep(t) ==
    RequestSet(t) \/ ExtractGC(t) \/ ExtractEnter(t) \/ ExtractWalk(t) \/ ExtractExit(t)

-----------------------------------------------------------------------------
\* What the machine may start on a thread, and the steps that follow.
Post(t) ==
    \/ LoadClass(t)  \/ LoadTracker(t)       \/ PostVMStart(t) \/ PostVMInit(t)
    \/ PostVMDeath(t) \/ PostVMObjectAlloc(t) \/ Allocate(t)    \/ CallRequest(t)

Step(t) ==
    \/ HookStep(t)  \/ StartStep(t) \/ InitStep(t)
    \/ DeathStep(t) \/ AllocStep(t) \/ RequestStep(t)

\* A process that has ended takes no step.
Halted == process # "running" /\ UNCHANGED vars

Next == Agent_OnLoad \/ EndProcess \/ Halted \/ \E t \in Thread : Post(t) \/ Step(t)

\* The scheduler runs every thread that is inside the agent, and a thread
\* that waits for the monitor is let in if the monitor is free again and again:
\* a raw monitor keeps a queue of its waiters.
Enter(t) ==
    \/ HookEnter(t)  \/ StartEnter(t) \/ InitEnter(t)
    \/ DeathEnter(t) \/ ExtractEnter(t)

Fairness == \A t \in Thread : WF_vars(Step(t)) /\ SF_vars(Enter(t))

Spec == Init /\ [][Next]_vars
FairSpec == Spec /\ Fairness

-----------------------------------------------------------------------------
\* Properties.

\* Every variable has its type.
TypeOK ==
    /\ gdata \in [vmStarted : BOOLEAN, vmInitialized : BOOLEAN, vmDead : BOOLEAN,
                  ccount : Nat]
    /\ monitor \in [owner : Thread \cup {NoThread}, depth : Nat]
    /\ vm \in [phase : Phase, callbacks : BOOLEAN, registered : BOOLEAN,
               engaged : BOOLEAN, trackerLoaded : BOOLEAN]
    /\ process \in {"running", "fatal", "ended"}
    /\ pc \in [Thread -> Steps]
    /\ hook \in [Thread -> Hook]
    /\ loads \in Nat
    /\ issued \subseteq Nat

\* How many entries of the monitor thread t has not exited yet: one for the
\* critical section it is in, one more for the hook that FindClass runs inside
\* the critical section of cbVMStart.
Nested(t) == pc[t] \in HookSteps \cup {"hook_enter"} /\ hook[t].back = "start_register"
Entries(t) ==
    (IF pc[t] \in HookSteps \cup OwnSteps THEN 1 ELSE 0) + (IF Nested(t) THEN 1 ELSE 0)

\* The monitor is held by exactly the thread that is inside a critical section,
\* as many times as that thread entered it: no path of a callback leaves with
\* the monitor held or exits it once too often, the nested hook included.
MonitorBalanced ==
    /\ \A t \in Thread : Entries(t) = (IF monitor.owner = t THEN monitor.depth ELSE 0)
    /\ monitor.owner = NoThread <=> monitor.depth = 0

\* No two class images get the same number from gdata->ccount++: the number a
\* hook passes to java_crw_demo was never issued and no other hook holds it.
FreshClassNumber ==
    \A t \in Thread : pc[t] \in {"hook_bump", "hook_inject"} =>
        /\ hook[t].number \notin issued
        /\ \A u \in Thread \ {t} : pc[u] \in {"hook_bump", "hook_inject"} =>
               hook[u].number # hook[t].number

\* What cbClassFileLoadHook read before it calls java_crw_demo is still true
\* then: the machine has not died since vmDead was tested, and the class is
\* treated as a system class iff VMStart has not completed.
HookReadsStillValid ==
    \A t \in Thread : pc[t] = "hook_inject" =>
        /\ ~ gdata.vmDead
        /\ hook[t].system = ~ gdata.vmStarted

\* Whenever no thread is in a critical section the Java side (engaged, the
\* registered natives), the callbacks and the flags of gdata agree.
AgentStateConsistent ==
    monitor.owner = NoThread /\ vm.phase # "onload" =>
        /\ vm.engaged = (gdata.vmStarted /\ ~ gdata.vmDead)
        /\ vm.callbacks = ~ gdata.vmDead
        /\ gdata.vmStarted => vm.registered

\* Injected code never calls a native method before cbVMStart registered it.
NativesLinked ==
    \A t \in Thread : pc[t] \in {"native_check", "native_tag_get"} => vm.registered

\* check_jvmti_error takes the process down only once the machine is dead.
FatalOnlyAfterDeath == process = "fatal" => vm.phase = "dead"

\* Every callback and native returns, unless the process goes down first: no
\* thread waits for the monitor for ever, the nested hook included.
CallsReturn ==
    \A t \in Thread : pc[t] # "java" ~> (pc[t] = "java" \/ process # "running")

\* What the comment in cbVMDeath says its critical section is for: it holds
\* back the death of the machine until all other callbacks have completed.  A
\* hook that enters late leaves at once; cbVMObjectAlloc past its test of
\* vmDead goes on to use the machine.
VmDeathHeldBack ==
    vm.phase = "dead" => \A t \in Thread : pc[t] # "event_tag_get"
=============================================================================
