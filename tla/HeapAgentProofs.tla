-------------------------- MODULE HeapAgentProofs --------------------------
(***************************************************************************)
(* Proofs about HeapAgent, for every set of threads and every number of    *)
(* class loads.  First the monitor discipline, on which the rest is built; *)
(* then the phases of the machine; then what a hook read before it uses it *)
(* and the agreement of the Java side with gdata, which both need the      *)
(* monitor to exclude the writers.                                         *)
(***************************************************************************)
EXTENDS HeapAgent, TLAPS

-----------------------------------------------------------------------------
\* The inductive invariants, one per argument.

\* The steps of a thread between the VMDeath event and the dead phase, and of
\* the thread that is in cbVMStart.
Dying == DeathSteps \cup {"death_gc", "death_enter", "death_return"}
Starting(t) == pc[t] \in StartSteps \cup {"start_enter"} \/ Nested(t)

\* What the place of a thread says about the phase and the natives: the phases
\* in which each callback runs, and at most one VMDeath callback.
PhaseInv ==
    /\ vm.phase = "onload" => \A t \in Thread : pc[t] = "java"
    /\ vm.phase \in {"onload", "primordial"} => ~ vm.engaged /\ ~ gdata.vmStarted
    /\ gdata.vmDead => vm.phase \in {"live", "dead"}
    /\ vm.engaged \/ gdata.vmStarted => vm.registered
    /\ \A t \in Thread :
         /\ Starting(t) => t = VmThread /\ vm.phase = "start"
         /\ pc[t] \in {"start_engage", "start_flag", "start_exit"} => vm.registered
         /\ pc[t] \in Dying => vm.phase = "live"
         /\ pc[t] \in {"native_check", "native_tag_get"} =>
               vm.registered /\ vm.phase \in {"start", "live", "dead"}
         /\ pc[t] \in {"event_check", "event_tag_get", "request_set", "extract_gc",
                       "extract_enter", "extract_walk"} => vm.phase \in {"live", "dead"}
    /\ \A t, u \in Thread : pc[t] \in Dying /\ pc[u] \in Dying => t = u
    /\ process = "fatal" => vm.phase = "dead"

\* What a hook read earlier, related to gdata now.  It needs the monitor: the
\* writers of gdata hold it.
HookInv ==
    /\ \A n \in issued : n < gdata.ccount
    /\ \A t \in Thread :
         /\ pc[t] = "hook_bump" => hook[t].number = gdata.ccount
         /\ pc[t] = "hook_inject" =>
               /\ hook[t].number < gdata.ccount
               /\ hook[t].number \notin issued
               /\ hook[t].system = ~ gdata.vmStarted
         /\ pc[t] \in {"hook_number", "hook_bump", "hook_inject"} => ~ gdata.vmDead

\* The Java side and the callbacks, in the middle of the critical sections of
\* cbVMStart and cbVMDeath as well as outside of them.
InBetween == {"start_flag", "death_callbacks", "death_flag"}
StateInv ==
    vm.phase # "onload" =>
      /\ (\A t \in Thread : pc[t] \notin InBetween)
            => vm.engaged = (gdata.vmStarted /\ ~ gdata.vmDead)
      /\ (\A t \in Thread : pc[t] # "death_flag") => vm.callbacks = ~ gdata.vmDead
      /\ \A t \in Thread :
           /\ pc[t] = "start_flag" => vm.engaged
           /\ pc[t] \in {"death_callbacks", "death_flag"} => ~ vm.engaged
           /\ pc[t] = "death_flag" => ~ vm.callbacks

-----------------------------------------------------------------------------
\* A step that only moves a thread, or that ends the process, keeps the types.
LEMMA MovesOrEnds ==
  ASSUME TypeOK, NEW t \in Thread, NEW step \in Steps,
         \/ Goto(t, step) /\ UNCHANGED <<gdata, monitor, vm, process, hook, loads, issued>>
         \/ FatalError
  PROVE  TypeOK'
<1>1. CASE Goto(t, step) /\ UNCHANGED <<gdata, monitor, vm, process, hook, loads, issued>>
  <2>1. pc' \in [Thread -> Steps]
    BY <1>1 DEF Goto, TypeOK
  <2> QED
    BY <1>1, <2>1 DEF TypeOK
<1>2. CASE FatalError
  BY <1>2 DEF FatalError, TypeOK
<1> QED
  BY <1>1, <1>2

\* A step of any thread keeps the types.  The depth of the monitor stays a
\* natural number because only its owner exits it.
LEMMA TypeStep ==
  ASSUME TypeOK, MonitorBalanced, NEW t \in Thread, Post(t) \/ Step(t)
  PROVE  TypeOK'
<1> USE NoThreadAssumption, VmThreadAssumption 
       DEF At, Goto, FatalError, CanEnter, enterCriticalSection,
           exitCriticalSection, CallHook, RunsJava, ApplicationRuns,
           LegalIn, TypeOK, MonitorBalanced, Entries, Nested, Hook,
           Phase, Steps, HookSteps, OwnSteps, EnterSteps, FreeSteps,
           StartSteps, InitSteps, DeathSteps, WalkSteps
<1>1. ASSUME Post(t) PROVE TypeOK'
  <2>1. ASSUME LoadClass(t) PROVE TypeOK'
    BY <2>1 DEF LoadClass
  <2>2. ASSUME LoadTracker(t) PROVE TypeOK'
    BY <2>2 DEF LoadTracker
  <2>3. ASSUME PostVMStart(t) PROVE TypeOK'
    BY <2>3 DEF PostVMStart
  <2>4. ASSUME PostVMInit(t) PROVE TypeOK'
    BY <2>4 DEF PostVMInit
  <2>5. ASSUME PostVMDeath(t) PROVE TypeOK'
    BY <2>5 DEF PostVMDeath
  <2>6. ASSUME PostVMObjectAlloc(t) PROVE TypeOK'
    BY <2>6 DEF PostVMObjectAlloc
  <2>7. ASSUME Allocate(t) PROVE TypeOK'
    BY <2>7 DEF Allocate
  <2>8. ASSUME CallRequest(t) PROVE TypeOK'
    BY <2>8 DEF CallRequest
  <2> QED
    BY <1>1, <2>1, <2>2, <2>3, <2>4, <2>5, <2>6, <2>7, <2>8 DEF Post
<1>2. ASSUME HookStep(t) PROVE TypeOK'
  <2>1. ASSUME HookEnter(t) PROVE TypeOK'
    BY <2>1 DEF HookEnter
  <2>2. ASSUME HookCheck(t) PROVE TypeOK'
    BY <2>2 DEF HookCheck
  <2>3. ASSUME HookNumber(t) PROVE TypeOK'
    BY <2>3 DEF HookNumber
  <2>4. ASSUME HookBump(t) PROVE TypeOK'
    <3>1. gdata' \in [vmStarted : BOOLEAN, vmInitialized : BOOLEAN,
                   vmDead : BOOLEAN, ccount : Nat]
      BY <2>4 DEF HookBump
    <3>2. hook' \in [Thread -> Hook]
      <4>1. hook[t] \in Hook /\ hook' = [hook EXCEPT ![t].system = ~ gdata.vmStarted]
        BY <2>4 DEF HookBump
      <4>2. [hook[t] EXCEPT !.system = ~ gdata.vmStarted] \in Hook
        BY <4>1
      <4> QED
        BY <4>1, <4>2
    <3>3. pc' \in [Thread -> Steps]
      BY <2>4 DEF HookBump
    <3>4. issued' \subseteq Nat
      BY <2>4 DEF HookBump
    <3>5. /\ monitor' \in [owner : Thread \cup {NoThread}, depth : Nat]
          /\ vm' \in [phase : Phase, callbacks : BOOLEAN, registered : BOOLEAN,
                      engaged : BOOLEAN, trackerLoaded : BOOLEAN]
          /\ process' \in {"running", "fatal", "ended"}
          /\ loads' \in Nat
      BY <2>4 DEF HookBump
    <3> QED
      BY <3>1, <3>2, <3>3, <3>4, <3>5
  <2>5. ASSUME HookInject(t) PROVE TypeOK'
    <3>1. gdata' \in [vmStarted : BOOLEAN, vmInitialized : BOOLEAN,
                   vmDead : BOOLEAN, ccount : Nat]
      BY <2>5 DEF HookInject
    <3>2. hook' \in [Thread -> Hook]
      BY <2>5 DEF HookInject
    <3>3. pc' \in [Thread -> Steps]
      BY <2>5 DEF HookInject
    <3>4. issued' \subseteq Nat
      <4>1. hook[t].number \in Nat
        OBVIOUS
      <4> QED
        BY <2>5, <4>1 DEF HookInject
    <3>5. /\ monitor' \in [owner : Thread \cup {NoThread}, depth : Nat]
          /\ vm' \in [phase : Phase, callbacks : BOOLEAN, registered : BOOLEAN,
                      engaged : BOOLEAN, trackerLoaded : BOOLEAN]
          /\ process' \in {"running", "fatal", "ended"}
          /\ loads' \in Nat
      BY <2>5 DEF HookInject
    <3> QED
      BY <3>1, <3>2, <3>3, <3>4, <3>5
  <2>6. ASSUME HookExit(t) PROVE TypeOK'
    BY <2>6 DEF HookExit
  <2> QED
    BY <1>2, <2>1, <2>2, <2>3, <2>4, <2>5, <2>6 DEF HookStep
<1>3. ASSUME StartStep(t) PROVE TypeOK'
  <2>1. ASSUME StartEnter(t) PROVE TypeOK'
    BY <2>1 DEF StartEnter
  <2>2. ASSUME StartFind(t) PROVE TypeOK'
    <3>1. gdata' \in [vmStarted : BOOLEAN, vmInitialized : BOOLEAN,
                   vmDead : BOOLEAN, ccount : Nat]
      BY <2>2 DEF StartFind
    <3>2. hook' \in [Thread -> Hook]
      <4>1. CASE vm.trackerLoaded
        BY <2>2, <4>1 DEF StartFind
      <4>2. CASE ~ vm.trackerLoaded
        <5>1. hook' = [hook EXCEPT ![t] = [tracker |-> TRUE, back |-> "start_register",
                                           number |-> 0, system |-> FALSE]]
          BY <2>2, <4>2 DEF StartFind
        <5> QED
          BY <5>1
      <4> QED
        BY <4>1, <4>2
    <3>3. pc' \in [Thread -> Steps]
      BY <2>2 DEF StartFind
    <3>4. issued' \subseteq Nat
      BY <2>2 DEF StartFind
    <3>5. /\ monitor' \in [owner : Thread \cup {NoThread}, depth : Nat]
          /\ vm' \in [phase : Phase, callbacks : BOOLEAN, registered : BOOLEAN,
                      engaged : BOOLEAN, trackerLoaded : BOOLEAN]
          /\ process' \in {"running", "fatal", "ended"}
          /\ loads' \in Nat
      BY <2>2 DEF StartFind
    <3> QED
      BY <3>1, <3>2, <3>3, <3>4, <3>5
  <2>3. ASSUME StartRegister(t) PROVE TypeOK'
    BY <2>3 DEF StartRegister
  <2>4. ASSUME StartEngage(t) PROVE TypeOK'
    BY <2>4 DEF StartEngage
  <2>5. ASSUME StartFlag(t) PROVE TypeOK'
    BY <2>5 DEF StartFlag
  <2>6. ASSUME StartExit(t) PROVE TypeOK'
    BY <2>6 DEF StartExit
  <2> QED
    BY <1>3, <2>1, <2>2, <2>3, <2>4, <2>5, <2>6 DEF StartStep
<1>4. ASSUME InitStep(t) PROVE TypeOK'
  <2>1. ASSUME InitIterate(t) PROVE TypeOK'
    BY <2>1 DEF InitIterate
  <2>2. ASSUME InitEnter(t) PROVE TypeOK'
    BY <2>2 DEF InitEnter
  <2>3. ASSUME InitFlag(t) PROVE TypeOK'
    BY <2>3 DEF InitFlag
  <2>4. ASSUME InitExit(t) PROVE TypeOK'
    BY <2>4 DEF InitExit
  <2> QED
    BY <1>4, <2>1, <2>2, <2>3, <2>4 DEF InitStep
<1>5. ASSUME DeathStep(t) PROVE TypeOK'
  <2>1. ASSUME DeathGC(t) PROVE TypeOK'
    BY <2>1 DEF DeathGC
  <2>2. ASSUME DeathEnter(t) PROVE TypeOK'
    BY <2>2 DEF DeathEnter
  <2>3. ASSUME DeathDisengage(t) PROVE TypeOK'
    BY <2>3 DEF DeathDisengage
  <2>4. ASSUME DeathCallbacks(t) PROVE TypeOK'
    BY <2>4 DEF DeathCallbacks
  <2>5. ASSUME DeathFlag(t) PROVE TypeOK'
    BY <2>5 DEF DeathFlag
  <2>6. ASSUME DeathExit(t) PROVE TypeOK'
    BY <2>6 DEF DeathExit
  <2>7. ASSUME DeathReturn(t) PROVE TypeOK'
    BY <2>7 DEF DeathReturn
  <2> QED
    BY <1>5, <2>1, <2>2, <2>3, <2>4, <2>5, <2>6, <2>7 DEF DeathStep
<1>6. ASSUME AllocStep(t) PROVE TypeOK'
  <2>1. ASSUME NativeNewobj(t) PROVE TypeOK'
    BY <2>1 DEF NativeNewobj
  <2>2. ASSUME cbVMObjectAlloc(t) PROVE TypeOK'
    BY <2>2 DEF cbVMObjectAlloc
  <2>3. ASSUME TagGet(t) PROVE TypeOK'
    <3>1. "tag_set" \in Steps
      OBVIOUS
    <3> QED
      BY <2>3, <3>1, MovesOrEnds DEF TagGet
  <2>4. ASSUME TagSet(t) PROVE TypeOK'
    BY <2>4 DEF TagSet
  <2> QED
    BY <1>6, <2>1, <2>2, <2>3, <2>4 DEF AllocStep
<1>7. ASSUME RequestStep(t) PROVE TypeOK'
  <2>1. ASSUME RequestSet(t) PROVE TypeOK'
    <3>1. "java" \in Steps
      OBVIOUS
    <3> QED
      BY <2>1, <3>1, MovesOrEnds DEF RequestSet
  <2>2. ASSUME ExtractGC(t) PROVE TypeOK'
    <3>1. "extract_enter" \in Steps
      OBVIOUS
    <3> QED
      BY <2>2, <3>1, MovesOrEnds DEF ExtractGC
  <2>3. ASSUME ExtractEnter(t) PROVE TypeOK'
    BY <2>3 DEF ExtractEnter
  <2>4. ASSUME ExtractWalk(t) PROVE TypeOK'
    <3>1. "extract_exit" \in Steps
      OBVIOUS
    <3> QED
      BY <2>4, <3>1, MovesOrEnds DEF ExtractWalk
  <2>5. ASSUME ExtractExit(t) PROVE TypeOK'
    BY <2>5 DEF ExtractExit
  <2> QED
    BY <1>7, <2>1, <2>2, <2>3, <2>4, <2>5 DEF RequestStep
<1> QED
  BY <1>1, <1>2, <1>3, <1>4, <1>5, <1>6, <1>7 DEF Step

\* A step of any thread, the nested hook of FindClass included, keeps the
\* entries of the monitor matched with the critical sections.
LEMMA BalanceStep ==
  ASSUME TypeOK, MonitorBalanced, NEW t \in Thread, Post(t) \/ Step(t)
  PROVE  MonitorBalanced'
<1> USE NoThreadAssumption, VmThreadAssumption 
       DEF At, Goto, FatalError, CanEnter, enterCriticalSection,
           exitCriticalSection, CallHook, RunsJava, ApplicationRuns,
           LegalIn, TypeOK, MonitorBalanced, Entries, Nested, Hook,
           Steps, HookSteps, OwnSteps, EnterSteps, FreeSteps,
           StartSteps, InitSteps, DeathSteps, WalkSteps
<1>1. ASSUME Post(t) PROVE MonitorBalanced'
  <2>1. ASSUME LoadClass(t) PROVE MonitorBalanced'
    BY <2>1 DEF LoadClass
  <2>2. ASSUME LoadTracker(t) PROVE MonitorBalanced'
    BY <2>2 DEF LoadTracker
  <2>3. ASSUME PostVMStart(t) PROVE MonitorBalanced'
    BY <2>3 DEF PostVMStart
  <2>4. ASSUME PostVMInit(t) PROVE MonitorBalanced'
    BY <2>4 DEF PostVMInit
  <2>5. ASSUME PostVMDeath(t) PROVE MonitorBalanced'
    BY <2>5 DEF PostVMDeath
  <2>6. ASSUME PostVMObjectAlloc(t) PROVE MonitorBalanced'
    BY <2>6 DEF PostVMObjectAlloc
  <2>7. ASSUME Allocate(t) PROVE MonitorBalanced'
    BY <2>7 DEF Allocate
  <2>8. ASSUME CallRequest(t) PROVE MonitorBalanced'
    BY <2>8 DEF CallRequest
  <2> QED
    BY <1>1, <2>1, <2>2, <2>3, <2>4, <2>5, <2>6, <2>7, <2>8 DEF Post
<1>2. ASSUME HookStep(t) PROVE MonitorBalanced'
  <2>1. ASSUME HookEnter(t) PROVE MonitorBalanced'
    BY <2>1 DEF HookEnter
  <2>2. ASSUME HookCheck(t) PROVE MonitorBalanced'
    BY <2>2 DEF HookCheck
  <2>3. ASSUME HookNumber(t) PROVE MonitorBalanced'
    BY <2>3 DEF HookNumber
  <2>4. ASSUME HookBump(t) PROVE MonitorBalanced'
    BY <2>4 DEF HookBump
  <2>5. ASSUME HookInject(t) PROVE MonitorBalanced'
    BY <2>5 DEF HookInject
  <2>6. ASSUME HookExit(t) PROVE MonitorBalanced'
    BY <2>6 DEF HookExit
  <2> QED
    BY <1>2, <2>1, <2>2, <2>3, <2>4, <2>5, <2>6 DEF HookStep
<1>3. ASSUME StartStep(t) PROVE MonitorBalanced'
  <2>1. ASSUME StartEnter(t) PROVE MonitorBalanced'
    BY <2>1 DEF StartEnter
  <2>2. ASSUME StartFind(t) PROVE MonitorBalanced'
    BY <2>2 DEF StartFind
  <2>3. ASSUME StartRegister(t) PROVE MonitorBalanced'
    BY <2>3 DEF StartRegister
  <2>4. ASSUME StartEngage(t) PROVE MonitorBalanced'
    BY <2>4 DEF StartEngage
  <2>5. ASSUME StartFlag(t) PROVE MonitorBalanced'
    BY <2>5 DEF StartFlag
  <2>6. ASSUME StartExit(t) PROVE MonitorBalanced'
    BY <2>6 DEF StartExit
  <2> QED
    BY <1>3, <2>1, <2>2, <2>3, <2>4, <2>5, <2>6 DEF StartStep
<1>4. ASSUME InitStep(t) PROVE MonitorBalanced'
  <2>1. ASSUME InitIterate(t) PROVE MonitorBalanced'
    BY <2>1 DEF InitIterate
  <2>2. ASSUME InitEnter(t) PROVE MonitorBalanced'
    BY <2>2 DEF InitEnter
  <2>3. ASSUME InitFlag(t) PROVE MonitorBalanced'
    BY <2>3 DEF InitFlag
  <2>4. ASSUME InitExit(t) PROVE MonitorBalanced'
    BY <2>4 DEF InitExit
  <2> QED
    BY <1>4, <2>1, <2>2, <2>3, <2>4 DEF InitStep
<1>5. ASSUME DeathStep(t) PROVE MonitorBalanced'
  <2>1. ASSUME DeathGC(t) PROVE MonitorBalanced'
    BY <2>1 DEF DeathGC
  <2>2. ASSUME DeathEnter(t) PROVE MonitorBalanced'
    BY <2>2 DEF DeathEnter
  <2>3. ASSUME DeathDisengage(t) PROVE MonitorBalanced'
    BY <2>3 DEF DeathDisengage
  <2>4. ASSUME DeathCallbacks(t) PROVE MonitorBalanced'
    BY <2>4 DEF DeathCallbacks
  <2>5. ASSUME DeathFlag(t) PROVE MonitorBalanced'
    BY <2>5 DEF DeathFlag
  <2>6. ASSUME DeathExit(t) PROVE MonitorBalanced'
    BY <2>6 DEF DeathExit
  <2>7. ASSUME DeathReturn(t) PROVE MonitorBalanced'
    BY <2>7 DEF DeathReturn
  <2> QED
    BY <1>5, <2>1, <2>2, <2>3, <2>4, <2>5, <2>6, <2>7 DEF DeathStep
<1>6. ASSUME AllocStep(t) PROVE MonitorBalanced'
  <2>1. ASSUME NativeNewobj(t) PROVE MonitorBalanced'
    BY <2>1 DEF NativeNewobj
  <2>2. ASSUME cbVMObjectAlloc(t) PROVE MonitorBalanced'
    BY <2>2 DEF cbVMObjectAlloc
  <2>3. ASSUME TagGet(t) PROVE MonitorBalanced'
    BY <2>3 DEF TagGet
  <2>4. ASSUME TagSet(t) PROVE MonitorBalanced'
    BY <2>4 DEF TagSet
  <2> QED
    BY <1>6, <2>1, <2>2, <2>3, <2>4 DEF AllocStep
<1>7. ASSUME RequestStep(t) PROVE MonitorBalanced'
  <2>1. ASSUME RequestSet(t) PROVE MonitorBalanced'
    BY <2>1 DEF RequestSet
  <2>2. ASSUME ExtractGC(t) PROVE MonitorBalanced'
    BY <2>2 DEF ExtractGC
  <2>3. ASSUME ExtractEnter(t) PROVE MonitorBalanced'
    BY <2>3 DEF ExtractEnter
  <2>4. ASSUME ExtractWalk(t) PROVE MonitorBalanced'
    BY <2>4 DEF ExtractWalk
  <2>5. ASSUME ExtractExit(t) PROVE MonitorBalanced'
    BY <2>5 DEF ExtractExit
  <2> QED
    BY <1>7, <2>1, <2>2, <2>3, <2>4, <2>5 DEF RequestStep
<1> QED
  BY <1>1, <1>2, <1>3, <1>4, <1>5, <1>6, <1>7 DEF Step

\* enterCriticalSection and exitCriticalSection: the monitor is held by the
\* thread that is in a critical section, as often as it entered.
THEOREM MonitorSafety == Spec => [](TypeOK /\ MonitorBalanced)
<1>1. Init => TypeOK /\ MonitorBalanced
  BY NoThreadAssumption
     DEF Init, TypeOK, MonitorBalanced, Entries, Nested, Hook, Phase, Steps, HookSteps, OwnSteps,
         EnterSteps, FreeSteps, StartSteps, InitSteps, DeathSteps, WalkSteps
<1>2. TypeOK /\ MonitorBalanced /\ [Next]_vars => (TypeOK /\ MonitorBalanced)'
  <2> SUFFICES ASSUME TypeOK, MonitorBalanced, [Next]_vars
               PROVE  (TypeOK /\ MonitorBalanced)'
    OBVIOUS
  <2>1. CASE Agent_OnLoad
    BY <2>1 DEF Agent_OnLoad, TypeOK, MonitorBalanced, Entries, Nested, Phase
  <2>2. CASE EndProcess
    BY <2>2 DEF EndProcess, TypeOK, MonitorBalanced, Entries, Nested
  <2>3. CASE UNCHANGED vars
    BY <2>3 DEF vars, TypeOK, MonitorBalanced, Entries, Nested
  <2>4. ASSUME NEW t \in Thread, Post(t) \/ Step(t)
        PROVE  (TypeOK /\ MonitorBalanced)'
    BY <2>4, TypeStep, BalanceStep
  <2> QED
    BY <2>1, <2>2, <2>3, <2>4 DEF Next, Halted
<1> QED
  BY <1>1, <1>2, PTL DEF Spec

\* Every variable keeps its type: each thread is at a place of a callback or
\* native, and gdata, the monitor and the engaged flag hold what they are for.
THEOREM Types == Spec => []TypeOK
  BY MonitorSafety, PTL

-----------------------------------------------------------------------------
\* A step of any thread keeps what its place says about the phase.
LEMMA PhaseStep ==
  ASSUME TypeOK, PhaseInv, NEW t \in Thread, Post(t) \/ Step(t)
  PROVE  PhaseInv'
<1> USE NoThreadAssumption, VmThreadAssumption 
       DEF At, Goto, FatalError, CanEnter, enterCriticalSection,
           exitCriticalSection, CallHook, RunsJava, ApplicationRuns,
           LegalIn, TypeOK, Nested, Hook, Phase, Dying, Starting,
           PhaseInv, Steps, HookSteps, OwnSteps, EnterSteps,
           FreeSteps, StartSteps, InitSteps, DeathSteps, WalkSteps
<1>1. ASSUME Post(t) PROVE PhaseInv'
  <2>1. ASSUME LoadClass(t) PROVE PhaseInv'
    BY <2>1 DEF LoadClass
  <2>2. ASSUME LoadTracker(t) PROVE PhaseInv'
    BY <2>2 DEF LoadTracker
  <2>3. ASSUME PostVMStart(t) PROVE PhaseInv'
    BY <2>3 DEF PostVMStart
  <2>4. ASSUME PostVMInit(t) PROVE PhaseInv'
    BY <2>4 DEF PostVMInit
  <2>5. ASSUME PostVMDeath(t) PROVE PhaseInv'
    BY <2>5 DEF PostVMDeath
  <2>6. ASSUME PostVMObjectAlloc(t) PROVE PhaseInv'
    BY <2>6 DEF PostVMObjectAlloc
  <2>7. ASSUME Allocate(t) PROVE PhaseInv'
    BY <2>7 DEF Allocate
  <2>8. ASSUME CallRequest(t) PROVE PhaseInv'
    BY <2>8 DEF CallRequest
  <2> QED
    BY <1>1, <2>1, <2>2, <2>3, <2>4, <2>5, <2>6, <2>7, <2>8 DEF Post
<1>2. ASSUME HookStep(t) PROVE PhaseInv'
  <2>1. ASSUME HookEnter(t) PROVE PhaseInv'
    BY <2>1 DEF HookEnter
  <2>2. ASSUME HookCheck(t) PROVE PhaseInv'
    BY <2>2 DEF HookCheck
  <2>3. ASSUME HookNumber(t) PROVE PhaseInv'
    BY <2>3 DEF HookNumber
  <2>4. ASSUME HookBump(t) PROVE PhaseInv'
    BY <2>4 DEF HookBump
  <2>5. ASSUME HookInject(t) PROVE PhaseInv'
    BY <2>5 DEF HookInject
  <2>6. ASSUME HookExit(t) PROVE PhaseInv'
    BY <2>6 DEF HookExit
  <2> QED
    BY <1>2, <2>1, <2>2, <2>3, <2>4, <2>5, <2>6 DEF HookStep
<1>3. ASSUME StartStep(t) PROVE PhaseInv'
  <2>1. ASSUME StartEnter(t) PROVE PhaseInv'
    BY <2>1 DEF StartEnter
  <2>2. ASSUME StartFind(t) PROVE PhaseInv'
    BY <2>2 DEF StartFind
  <2>3. ASSUME StartRegister(t) PROVE PhaseInv'
    BY <2>3 DEF StartRegister
  <2>4. ASSUME StartEngage(t) PROVE PhaseInv'
    BY <2>4 DEF StartEngage
  <2>5. ASSUME StartFlag(t) PROVE PhaseInv'
    BY <2>5 DEF StartFlag
  <2>6. ASSUME StartExit(t) PROVE PhaseInv'
    BY <2>6 DEF StartExit
  <2> QED
    BY <1>3, <2>1, <2>2, <2>3, <2>4, <2>5, <2>6 DEF StartStep
<1>4. ASSUME InitStep(t) PROVE PhaseInv'
  <2>1. ASSUME InitIterate(t) PROVE PhaseInv'
    BY <2>1 DEF InitIterate
  <2>2. ASSUME InitEnter(t) PROVE PhaseInv'
    BY <2>2 DEF InitEnter
  <2>3. ASSUME InitFlag(t) PROVE PhaseInv'
    BY <2>3 DEF InitFlag
  <2>4. ASSUME InitExit(t) PROVE PhaseInv'
    BY <2>4 DEF InitExit
  <2> QED
    BY <1>4, <2>1, <2>2, <2>3, <2>4 DEF InitStep
<1>5. ASSUME DeathStep(t) PROVE PhaseInv'
  <2>1. ASSUME DeathGC(t) PROVE PhaseInv'
    BY <2>1 DEF DeathGC
  <2>2. ASSUME DeathEnter(t) PROVE PhaseInv'
    BY <2>2 DEF DeathEnter
  <2>3. ASSUME DeathDisengage(t) PROVE PhaseInv'
    BY <2>3 DEF DeathDisengage
  <2>4. ASSUME DeathCallbacks(t) PROVE PhaseInv'
    BY <2>4 DEF DeathCallbacks
  <2>5. ASSUME DeathFlag(t) PROVE PhaseInv'
    BY <2>5 DEF DeathFlag
  <2>6. ASSUME DeathExit(t) PROVE PhaseInv'
    BY <2>6 DEF DeathExit
  <2>7. ASSUME DeathReturn(t) PROVE PhaseInv'
    BY <2>7 DEF DeathReturn
  <2> QED
    BY <1>5, <2>1, <2>2, <2>3, <2>4, <2>5, <2>6, <2>7 DEF DeathStep
<1>6. ASSUME AllocStep(t) PROVE PhaseInv'
  <2>1. ASSUME NativeNewobj(t) PROVE PhaseInv'
    BY <2>1 DEF NativeNewobj
  <2>2. ASSUME cbVMObjectAlloc(t) PROVE PhaseInv'
    BY <2>2 DEF cbVMObjectAlloc
  <2>3. ASSUME TagGet(t) PROVE PhaseInv'
    <3>1. CASE LegalIn({"start", "live"})
      BY <2>3, <3>1 DEF TagGet
    <3>2. CASE ~ LegalIn({"start", "live"})
      BY <2>3, <3>2 DEF TagGet
    <3> QED
      BY <3>1, <3>2
  <2>4. ASSUME TagSet(t) PROVE PhaseInv'
    BY <2>4 DEF TagSet
  <2> QED
    BY <1>6, <2>1, <2>2, <2>3, <2>4 DEF AllocStep
<1>7. ASSUME RequestStep(t) PROVE PhaseInv'
  <2>1. ASSUME RequestSet(t) PROVE PhaseInv'
    <3>1. CASE LegalIn({"start", "live"})
      BY <2>1, <3>1 DEF RequestSet
    <3>2. CASE ~ LegalIn({"start", "live"})
      BY <2>1, <3>2 DEF RequestSet
    <3> QED
      BY <3>1, <3>2
  <2>2. ASSUME ExtractGC(t) PROVE PhaseInv'
    <3>1. CASE LegalIn({"live"})
      BY <2>2, <3>1 DEF ExtractGC
    <3>2. CASE ~ LegalIn({"live"})
      BY <2>2, <3>2 DEF ExtractGC
    <3> QED
      BY <3>1, <3>2
  <2>3. ASSUME ExtractEnter(t) PROVE PhaseInv'
    BY <2>3 DEF ExtractEnter
  <2>4. ASSUME ExtractWalk(t) PROVE PhaseInv'
    <3>1. CASE LegalIn({"live"})
      BY <2>4, <3>1 DEF ExtractWalk
    <3>2. CASE ~ LegalIn({"live"})
      BY <2>4, <3>2 DEF ExtractWalk
    <3> QED
      BY <3>1, <3>2
  <2>5. ASSUME ExtractExit(t) PROVE PhaseInv'
    BY <2>5 DEF ExtractExit
  <2> QED
    BY <1>7, <2>1, <2>2, <2>3, <2>4, <2>5 DEF RequestStep
<1> QED
  BY <1>1, <1>2, <1>3, <1>4, <1>5, <1>6, <1>7 DEF Step

\* The phases in which callbacks and natives run, as an invariant.
THEOREM Phases == Spec => []PhaseInv
<1>1. Init => PhaseInv
  BY DEF Init, PhaseInv, Starting, Nested, Dying, Steps,
         HookSteps, OwnSteps, EnterSteps, FreeSteps, StartSteps, InitSteps, DeathSteps, WalkSteps
<1>2. TypeOK /\ PhaseInv /\ [Next]_vars => PhaseInv'
  <2> SUFFICES ASSUME TypeOK, PhaseInv, [Next]_vars
               PROVE  PhaseInv'
    OBVIOUS
  <2> USE DEF PhaseInv, Starting, Nested, Dying
  <2>1. CASE Agent_OnLoad
    BY <2>1 DEF Agent_OnLoad, TypeOK, Steps,
           HookSteps, OwnSteps, EnterSteps, FreeSteps, StartSteps, InitSteps, DeathSteps, WalkSteps
  <2>2. CASE EndProcess
    BY <2>2 DEF EndProcess
  <2>3. CASE UNCHANGED vars
    BY <2>3 DEF vars
  <2>4. ASSUME NEW t \in Thread, Post(t) \/ Step(t)
        PROVE  PhaseInv'
    BY <2>4, PhaseStep
  <2> QED
    BY <2>1, <2>2, <2>3, <2>4 DEF Next, Halted
<1> QED
  BY <1>1, <1>2, MonitorSafety, PTL DEF Spec

\* cbVMStart registers the natives before it engages the injected calls, and
\* no later step undoes it: injected code never calls an unregistered native.
THEOREM NativesAreLinked == Spec => []NativesLinked
<1>1. PhaseInv => NativesLinked
  BY DEF PhaseInv, NativesLinked
<1> QED
  BY <1>1, Phases, PTL

\* check_jvmti_error ends the process only in the dead phase: no callback or
\* native uses a JVMTI function too early.
THEOREM FatalAfterDeath == Spec => []FatalOnlyAfterDeath
<1>1. PhaseInv => FatalOnlyAfterDeath
  BY DEF PhaseInv, FatalOnlyAfterDeath
<1> QED
  BY <1>1, Phases, PTL

-----------------------------------------------------------------------------
\* Two threads are never inside critical sections at once.
LEMMA Exclusion ==
  ASSUME MonitorBalanced, NEW t \in Thread, NEW u \in Thread,
         pc[t] \in HookSteps \cup OwnSteps, pc[u] \in HookSteps \cup OwnSteps
  PROVE  t = u
  BY DEF MonitorBalanced, Entries

\* A step of any thread keeps what the hooks read related to gdata.
LEMMA HookInvStep ==
  ASSUME TypeOK, MonitorBalanced, HookInv, NEW t \in Thread, Post(t) \/ Step(t)
  PROVE  HookInv'
<1> USE NoThreadAssumption, VmThreadAssumption 
       DEF At, Goto, FatalError, CanEnter, enterCriticalSection,
           exitCriticalSection, CallHook, RunsJava, ApplicationRuns,
           LegalIn, TypeOK, MonitorBalanced, Entries, Nested, Hook,
           HookInv, Instruments, Steps, HookSteps, OwnSteps,
           EnterSteps, FreeSteps, StartSteps, InitSteps, DeathSteps,
           WalkSteps
<1>1. ASSUME Post(t) PROVE HookInv'
  <2>1. ASSUME LoadClass(t) PROVE HookInv'
    BY <2>1 DEF LoadClass
  <2>2. ASSUME LoadTracker(t) PROVE HookInv'
    BY <2>2 DEF LoadTracker
  <2>3. ASSUME PostVMStart(t) PROVE HookInv'
    BY <2>3 DEF PostVMStart
  <2>4. ASSUME PostVMInit(t) PROVE HookInv'
    BY <2>4 DEF PostVMInit
  <2>5. ASSUME PostVMDeath(t) PROVE HookInv'
    BY <2>5 DEF PostVMDeath
  <2>6. ASSUME PostVMObjectAlloc(t) PROVE HookInv'
    BY <2>6 DEF PostVMObjectAlloc
  <2>7. ASSUME Allocate(t) PROVE HookInv'
    BY <2>7 DEF Allocate
  <2>8. ASSUME CallRequest(t) PROVE HookInv'
    BY <2>8 DEF CallRequest
  <2> QED
    BY <1>1, <2>1, <2>2, <2>3, <2>4, <2>5, <2>6, <2>7, <2>8 DEF Post
<1>2. ASSUME HookStep(t) PROVE HookInv'
  <2>1. ASSUME HookEnter(t) PROVE HookInv'
    BY <2>1 DEF HookEnter
  <2>2. ASSUME HookCheck(t) PROVE HookInv'
    BY <2>2 DEF HookCheck
  <2>3. ASSUME HookNumber(t) PROVE HookInv'
    BY <2>3 DEF HookNumber
  <2>4. ASSUME HookBump(t) PROVE HookInv'
    BY <2>4 DEF HookBump
  <2>5. ASSUME HookInject(t) PROVE HookInv'
    BY <2>5 DEF HookInject
  <2>6. ASSUME HookExit(t) PROVE HookInv'
    BY <2>6 DEF HookExit
  <2> QED
    BY <1>2, <2>1, <2>2, <2>3, <2>4, <2>5, <2>6 DEF HookStep
<1>3. ASSUME StartStep(t) PROVE HookInv'
  <2>1. ASSUME StartEnter(t) PROVE HookInv'
    BY <2>1 DEF StartEnter
  <2>2. ASSUME StartFind(t) PROVE HookInv'
    BY <2>2 DEF StartFind
  <2>3. ASSUME StartRegister(t) PROVE HookInv'
    BY <2>3 DEF StartRegister
  <2>4. ASSUME StartEngage(t) PROVE HookInv'
    BY <2>4 DEF StartEngage
  <2>5. ASSUME StartFlag(t) PROVE HookInv'
    BY <2>5 DEF StartFlag
  <2>6. ASSUME StartExit(t) PROVE HookInv'
    BY <2>6 DEF StartExit
  <2> QED
    BY <1>3, <2>1, <2>2, <2>3, <2>4, <2>5, <2>6 DEF StartStep
<1>4. ASSUME InitStep(t) PROVE HookInv'
  <2>1. ASSUME InitIterate(t) PROVE HookInv'
    BY <2>1 DEF InitIterate
  <2>2. ASSUME InitEnter(t) PROVE HookInv'
    BY <2>2 DEF InitEnter
  <2>3. ASSUME InitFlag(t) PROVE HookInv'
    BY <2>3 DEF InitFlag
  <2>4. ASSUME InitExit(t) PROVE HookInv'
    BY <2>4 DEF InitExit
  <2> QED
    BY <1>4, <2>1, <2>2, <2>3, <2>4 DEF InitStep
<1>5. ASSUME DeathStep(t) PROVE HookInv'
  <2>1. ASSUME DeathGC(t) PROVE HookInv'
    BY <2>1 DEF DeathGC
  <2>2. ASSUME DeathEnter(t) PROVE HookInv'
    BY <2>2 DEF DeathEnter
  <2>3. ASSUME DeathDisengage(t) PROVE HookInv'
    BY <2>3 DEF DeathDisengage
  <2>4. ASSUME DeathCallbacks(t) PROVE HookInv'
    BY <2>4 DEF DeathCallbacks
  <2>5. ASSUME DeathFlag(t) PROVE HookInv'
    BY <2>5 DEF DeathFlag
  <2>6. ASSUME DeathExit(t) PROVE HookInv'
    BY <2>6 DEF DeathExit
  <2>7. ASSUME DeathReturn(t) PROVE HookInv'
    BY <2>7 DEF DeathReturn
  <2> QED
    BY <1>5, <2>1, <2>2, <2>3, <2>4, <2>5, <2>6, <2>7 DEF DeathStep
<1>6. ASSUME AllocStep(t) PROVE HookInv'
  <2>1. ASSUME NativeNewobj(t) PROVE HookInv'
    BY <2>1 DEF NativeNewobj
  <2>2. ASSUME cbVMObjectAlloc(t) PROVE HookInv'
    BY <2>2 DEF cbVMObjectAlloc
  <2>3. ASSUME TagGet(t) PROVE HookInv'
    <3>1. CASE LegalIn({"start", "live"})
      <4>1. UNCHANGED <<gdata, hook, issued>> /\ pc' = [pc EXCEPT ![t] = "tag_set"]
        BY <2>3, <3>1 DEF TagGet
      <4> QED
        BY <4>1
    <3>2. CASE ~ LegalIn({"start", "live"})
      <4>1. UNCHANGED <<gdata, pc, hook, issued>>
        BY <2>3, <3>2 DEF TagGet
      <4> QED
        BY <4>1
    <3> QED
      BY <3>1, <3>2
  <2>4. ASSUME TagSet(t) PROVE HookInv'
    BY <2>4 DEF TagSet
  <2> QED
    BY <1>6, <2>1, <2>2, <2>3, <2>4 DEF AllocStep
<1>7. ASSUME RequestStep(t) PROVE HookInv'
  <2>1. ASSUME RequestSet(t) PROVE HookInv'
    <3>1. CASE LegalIn({"start", "live"})
      <4>1. UNCHANGED <<gdata, hook, issued>> /\ pc' = [pc EXCEPT ![t] = "java"]
        BY <2>1, <3>1 DEF RequestSet
      <4> QED
        BY <4>1
    <3>2. CASE ~ LegalIn({"start", "live"})
      <4>1. UNCHANGED <<gdata, pc, hook, issued>>
        BY <2>1, <3>2 DEF RequestSet
      <4> QED
        BY <4>1
    <3> QED
      BY <3>1, <3>2
  <2>2. ASSUME ExtractGC(t) PROVE HookInv'
    <3>1. CASE LegalIn({"live"})
      <4>1. UNCHANGED <<gdata, hook, issued>> /\ pc' = [pc EXCEPT ![t] = "extract_enter"]
        BY <2>2, <3>1 DEF ExtractGC
      <4> QED
        BY <4>1
    <3>2. CASE ~ LegalIn({"live"})
      <4>1. UNCHANGED <<gdata, pc, hook, issued>>
        BY <2>2, <3>2 DEF ExtractGC
      <4> QED
        BY <4>1
    <3> QED
      BY <3>1, <3>2
  <2>3. ASSUME ExtractEnter(t) PROVE HookInv'
    BY <2>3 DEF ExtractEnter
  <2>4. ASSUME ExtractWalk(t) PROVE HookInv'
    <3>1. CASE LegalIn({"live"})
      <4>1. UNCHANGED <<gdata, hook, issued>> /\ pc' = [pc EXCEPT ![t] = "extract_exit"]
        BY <2>4, <3>1 DEF ExtractWalk
      <4> QED
        BY <4>1
    <3>2. CASE ~ LegalIn({"live"})
      <4>1. UNCHANGED <<gdata, pc, hook, issued>>
        BY <2>4, <3>2 DEF ExtractWalk
      <4> QED
        BY <4>1
    <3> QED
      BY <3>1, <3>2
  <2>5. ASSUME ExtractExit(t) PROVE HookInv'
    BY <2>5 DEF ExtractExit
  <2> QED
    BY <1>7, <2>1, <2>2, <2>3, <2>4, <2>5 DEF RequestStep
<1> QED
  BY <1>1, <1>2, <1>3, <1>4, <1>5, <1>6, <1>7 DEF Step

\* What a hook read stays related to gdata until it is used.
THEOREM HookReads == Spec => []HookInv
<1>1. Init => HookInv
  BY DEF Init, HookInv
<1>2. TypeOK /\ MonitorBalanced /\ HookInv /\ [Next]_vars => HookInv'
  <2> SUFFICES ASSUME TypeOK, MonitorBalanced, HookInv, [Next]_vars
               PROVE  HookInv'
    OBVIOUS
  <2> USE DEF HookInv
  <2>1. CASE Agent_OnLoad
    BY <2>1 DEF Agent_OnLoad
  <2>2. CASE EndProcess
    BY <2>2 DEF EndProcess
  <2>3. CASE UNCHANGED vars
    BY <2>3 DEF vars
  <2>4. ASSUME NEW t \in Thread, Post(t) \/ Step(t)
        PROVE  HookInv'
    BY <2>4, HookInvStep
  <2> QED
    BY <2>1, <2>2, <2>3, <2>4 DEF Next, Halted
<1> QED
  BY <1>1, <1>2, MonitorSafety, PTL DEF Spec

\* gdata->ccount++ under the monitor gives every class image a number of its
\* own, whatever threads load classes at the same time.
THEOREM ClassNumbersFresh == Spec => []FreshClassNumber
<1>1. TypeOK /\ MonitorBalanced /\ HookInv => FreshClassNumber
  <2> SUFFICES ASSUME TypeOK, MonitorBalanced, HookInv, NEW t \in Thread,
                      pc[t] \in {"hook_bump", "hook_inject"}
               PROVE  /\ hook[t].number \notin issued
                      /\ \A u \in Thread \ {t} : pc[u] \in {"hook_bump", "hook_inject"} =>
                             hook[u].number # hook[t].number
    BY DEF FreshClassNumber
  <2>1. hook[t].number \notin issued
    BY DEF HookInv, TypeOK
  <2>2. \A u \in Thread \ {t} : pc[u] \notin {"hook_bump", "hook_inject"}
    BY Exclusion DEF HookSteps
  <2> QED
    BY <2>1, <2>2
<1> QED
  BY <1>1, HookReads, MonitorSafety, PTL

\* When java_crw_demo is called the machine has not died since the hook looked,
\* and the class is a system class iff cbVMStart has not completed.
THEOREM HookReadsValid == Spec => []HookReadsStillValid
<1>1. HookInv => HookReadsStillValid
  BY DEF HookInv, HookReadsStillValid
<1> QED
  BY <1>1, HookReads, PTL

\* StateInv does not notice a step that moves a thread between places outside
\* those sections and leaves the machine and gdata alone.
LEMMA StateKept ==
  ASSUME TypeOK, StateInv, NEW t \in Thread, NEW step,
         pc[t] \notin InBetween, step \notin InBetween,
         pc' = [pc EXCEPT ![t] = step], UNCHANGED <<vm, gdata>>
  PROVE  StateInv'
<1>1. \A u \in Thread : pc'[u] = IF u = t THEN step ELSE pc[u]
  BY DEF TypeOK
<1> QED
  BY <1>1 DEF StateInv, InBetween

-----------------------------------------------------------------------------
\* A step of any thread keeps the Java side and gdata in agreement.
LEMMA StateInvStep ==
  ASSUME TypeOK, MonitorBalanced, PhaseInv, StateInv, NEW t \in Thread, Post(t) \/ Step(t)
  PROVE  StateInv'
<1> USE NoThreadAssumption, VmThreadAssumption 
       DEF At, Goto, FatalError, CanEnter, enterCriticalSection,
           exitCriticalSection, CallHook, RunsJava, ApplicationRuns,
           LegalIn, TypeOK, MonitorBalanced, Entries, Nested, Hook,
           PhaseInv, Starting, Dying, StateInv, InBetween, Steps, HookSteps,
           OwnSteps, EnterSteps, FreeSteps, StartSteps, InitSteps,
           DeathSteps, WalkSteps
<1>1. ASSUME Post(t) PROVE StateInv'
  <2>1. ASSUME LoadClass(t) PROVE StateInv'
    BY <2>1, StateKept DEF LoadClass
  <2>2. ASSUME LoadTracker(t) PROVE StateInv'
    BY <2>2 DEF LoadTracker
  <2>3. ASSUME PostVMStart(t) PROVE StateInv'
    BY <2>3 DEF PostVMStart
  <2>4. ASSUME PostVMInit(t) PROVE StateInv'
    BY <2>4 DEF PostVMInit
  <2>5. ASSUME PostVMDeath(t) PROVE StateInv'
    BY <2>5 DEF PostVMDeath
  <2>6. ASSUME PostVMObjectAlloc(t) PROVE StateInv'
    BY <2>6, StateKept DEF PostVMObjectAlloc
  <2>7. ASSUME Allocate(t) PROVE StateInv'
    BY <2>7, StateKept DEF Allocate
  <2>8. ASSUME CallRequest(t) PROVE StateInv'
    BY <2>8 DEF CallRequest
  <2> QED
    BY <1>1, <2>1, <2>2, <2>3, <2>4, <2>5, <2>6, <2>7, <2>8 DEF Post
<1>2. ASSUME HookStep(t) PROVE StateInv'
  <2>1. ASSUME HookEnter(t) PROVE StateInv'
    BY <2>1 DEF HookEnter
  <2>2. ASSUME HookCheck(t) PROVE StateInv'
    BY <2>2 DEF HookCheck
  <2>3. ASSUME HookNumber(t) PROVE StateInv'
    BY <2>3 DEF HookNumber
  <2>4. ASSUME HookBump(t) PROVE StateInv'
    BY <2>4 DEF HookBump
  <2>5. ASSUME HookInject(t) PROVE StateInv'
    BY <2>5 DEF HookInject
  <2>6. ASSUME HookExit(t) PROVE StateInv'
    BY <2>6 DEF HookExit
  <2> QED
    BY <1>2, <2>1, <2>2, <2>3, <2>4, <2>5, <2>6 DEF HookStep
<1>3. ASSUME StartStep(t) PROVE StateInv'
  <2>1. ASSUME StartEnter(t) PROVE StateInv'
    BY <2>1 DEF StartEnter
  <2>2. ASSUME StartFind(t) PROVE StateInv'
    BY <2>2 DEF StartFind
  <2>3. ASSUME StartRegister(t) PROVE StateInv'
    BY <2>3 DEF StartRegister
  <2>4. ASSUME StartEngage(t) PROVE StateInv'
    <3>1. vm'.phase # "onload" /\ (\A u \in Thread : pc'[u] \notin InBetween)
            => vm'.engaged = (gdata'.vmStarted /\ ~ gdata'.vmDead)
      BY <2>4 DEF StartEngage
    <3>2. vm'.phase # "onload" /\ (\A u \in Thread : pc'[u] # "death_flag")
            => vm'.callbacks = ~ gdata'.vmDead
      BY <2>4 DEF StartEngage
    <3>3. ASSUME vm'.phase # "onload", NEW u \in Thread
          PROVE  /\ pc'[u] = "start_flag" => vm'.engaged
                 /\ pc'[u] \in {"death_callbacks", "death_flag"} => ~ vm'.engaged
                 /\ pc'[u] = "death_flag" => ~ vm'.callbacks
      BY <2>4, <3>3 DEF StartEngage
    <3> QED
      BY <3>1, <3>2, <3>3
  <2>5. ASSUME StartFlag(t) PROVE StateInv'
    BY <2>5 DEF StartFlag
  <2>6. ASSUME StartExit(t) PROVE StateInv'
    BY <2>6 DEF StartExit
  <2> QED
    BY <1>3, <2>1, <2>2, <2>3, <2>4, <2>5, <2>6 DEF StartStep
<1>4. ASSUME InitStep(t) PROVE StateInv'
  <2>1. ASSUME InitIterate(t) PROVE StateInv'
    BY <2>1 DEF InitIterate
  <2>2. ASSUME InitEnter(t) PROVE StateInv'
    BY <2>2 DEF InitEnter
  <2>3. ASSUME InitFlag(t) PROVE StateInv'
    BY <2>3 DEF InitFlag
  <2>4. ASSUME InitExit(t) PROVE StateInv'
    BY <2>4 DEF InitExit
  <2> QED
    BY <1>4, <2>1, <2>2, <2>3, <2>4 DEF InitStep
<1>5. ASSUME DeathStep(t) PROVE StateInv'
  <2>1. ASSUME DeathGC(t) PROVE StateInv'
    BY <2>1 DEF DeathGC
  <2>2. ASSUME DeathEnter(t) PROVE StateInv'
    BY <2>2 DEF DeathEnter
  <2>3. ASSUME DeathDisengage(t) PROVE StateInv'
    <3>1. vm'.phase # "onload" /\ (\A u \in Thread : pc'[u] \notin InBetween)
            => vm'.engaged = (gdata'.vmStarted /\ ~ gdata'.vmDead)
      BY <2>3 DEF DeathDisengage
    <3>2. vm'.phase # "onload" /\ (\A u \in Thread : pc'[u] # "death_flag")
            => vm'.callbacks = ~ gdata'.vmDead
      BY <2>3 DEF DeathDisengage
    <3>3. ASSUME vm'.phase # "onload", NEW u \in Thread
          PROVE  /\ pc'[u] = "start_flag" => vm'.engaged
                 /\ pc'[u] \in {"death_callbacks", "death_flag"} => ~ vm'.engaged
                 /\ pc'[u] = "death_flag" => ~ vm'.callbacks
      BY <2>3, <3>3 DEF DeathDisengage
    <3> QED
      BY <3>1, <3>2, <3>3
  <2>4. ASSUME DeathCallbacks(t) PROVE StateInv'
    <3>1. vm'.phase # "onload" /\ (\A u \in Thread : pc'[u] \notin InBetween)
            => vm'.engaged = (gdata'.vmStarted /\ ~ gdata'.vmDead)
      BY <2>4 DEF DeathCallbacks
    <3>2. vm'.phase # "onload" /\ (\A u \in Thread : pc'[u] # "death_flag")
            => vm'.callbacks = ~ gdata'.vmDead
      BY <2>4 DEF DeathCallbacks
    <3>3. ASSUME vm'.phase # "onload", NEW u \in Thread
          PROVE  /\ pc'[u] = "start_flag" => vm'.engaged
                 /\ pc'[u] \in {"death_callbacks", "death_flag"} => ~ vm'.engaged
                 /\ pc'[u] = "death_flag" => ~ vm'.callbacks
      BY <2>4, <3>3 DEF DeathCallbacks
    <3> QED
      BY <3>1, <3>2, <3>3
  <2>5. ASSUME DeathFlag(t) PROVE StateInv'
    BY <2>5 DEF DeathFlag
  <2>6. ASSUME DeathExit(t) PROVE StateInv'
    BY <2>6 DEF DeathExit
  <2>7. ASSUME DeathReturn(t) PROVE StateInv'
    BY <2>7 DEF DeathReturn
  <2> QED
    BY <1>5, <2>1, <2>2, <2>3, <2>4, <2>5, <2>6, <2>7 DEF DeathStep
<1>6. ASSUME AllocStep(t) PROVE StateInv'
  <2>1. ASSUME NativeNewobj(t) PROVE StateInv'
    BY <2>1 DEF NativeNewobj
  <2>2. ASSUME cbVMObjectAlloc(t) PROVE StateInv'
    BY <2>2 DEF cbVMObjectAlloc
  <2>3. ASSUME TagGet(t) PROVE StateInv'
    <3>1. CASE LegalIn({"start", "live"})
      BY <2>3, <3>1 DEF TagGet
    <3>2. CASE ~ LegalIn({"start", "live"})
      BY <2>3, <3>2 DEF TagGet
    <3> QED
      BY <3>1, <3>2
  <2>4. ASSUME TagSet(t) PROVE StateInv'
    BY <2>4 DEF TagSet
  <2> QED
    BY <1>6, <2>1, <2>2, <2>3, <2>4 DEF AllocStep
<1>7. ASSUME RequestStep(t) PROVE StateInv'
  <2>1. ASSUME RequestSet(t) PROVE StateInv'
    <3>1. CASE LegalIn({"start", "live"})
      BY <2>1, <3>1 DEF RequestSet
    <3>2. CASE ~ LegalIn({"start", "live"})
      BY <2>1, <3>2 DEF RequestSet
    <3> QED
      BY <3>1, <3>2
  <2>2. ASSUME ExtractGC(t) PROVE StateInv'
    <3>1. CASE LegalIn({"live"})
      BY <2>2, <3>1 DEF ExtractGC
    <3>2. CASE ~ LegalIn({"live"})
      BY <2>2, <3>2 DEF ExtractGC
    <3> QED
      BY <3>1, <3>2
  <2>3. ASSUME ExtractEnter(t) PROVE StateInv'
    BY <2>3 DEF ExtractEnter
  <2>4. ASSUME ExtractWalk(t) PROVE StateInv'
    <3>1. CASE LegalIn({"live"})
      BY <2>4, <3>1 DEF ExtractWalk
    <3>2. CASE ~ LegalIn({"live"})
      BY <2>4, <3>2 DEF ExtractWalk
    <3> QED
      BY <3>1, <3>2
  <2>5. ASSUME ExtractExit(t) PROVE StateInv'
    BY <2>5 DEF ExtractExit
  <2> QED
    BY <1>7, <2>1, <2>2, <2>3, <2>4, <2>5 DEF RequestStep
<1> QED
  BY <1>1, <1>2, <1>3, <1>4, <1>5, <1>6, <1>7 DEF Step

\* cbVMStart and cbVMDeath leave engaged, the natives, the callbacks and the
\* flags of gdata in agreement whenever the monitor is free.
THEOREM AgentStateAgrees == Spec => []AgentStateConsistent
<1>1. Init => StateInv
  BY DEF Init, StateInv
<1>2. TypeOK /\ MonitorBalanced /\ PhaseInv /\ StateInv /\ [Next]_vars => StateInv'
  <2> SUFFICES ASSUME TypeOK, MonitorBalanced, PhaseInv, StateInv, [Next]_vars
               PROVE  StateInv'
    OBVIOUS
  <2> USE DEF StateInv
  <2>1. CASE Agent_OnLoad
    BY <2>1 DEF Agent_OnLoad, TypeOK, PhaseInv
  <2>2. CASE EndProcess
    BY <2>2 DEF EndProcess
  <2>3. CASE UNCHANGED vars
    BY <2>3 DEF vars
  <2>4. ASSUME NEW t \in Thread, Post(t) \/ Step(t)
        PROVE  StateInv'
    BY <2>4, StateInvStep
  <2> QED
    BY <2>1, <2>2, <2>3, <2>4 DEF Next, Halted
<1>3. MonitorBalanced /\ PhaseInv /\ StateInv => AgentStateConsistent
  <2> SUFFICES ASSUME MonitorBalanced, PhaseInv, StateInv, monitor.owner = NoThread,
                      vm.phase # "onload"
               PROVE  /\ vm.engaged = (gdata.vmStarted /\ ~ gdata.vmDead)
                      /\ vm.callbacks = ~ gdata.vmDead
                      /\ gdata.vmStarted => vm.registered
    BY DEF AgentStateConsistent
  <2>1. \A t \in Thread : pc[t] \notin HookSteps \cup OwnSteps
    BY NoThreadAssumption DEF MonitorBalanced, Entries
  <2> QED
    BY <2>1 DEF StateInv, InBetween, PhaseInv, OwnSteps, StartSteps, DeathSteps
<1> QED
  BY <1>1, <1>2, <1>3, MonitorSafety, Phases, PTL DEF Spec
=============================================================================
