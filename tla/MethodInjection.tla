-------------------------- MODULE MethodInjection --------------------------
(***************************************************************************)
(* method_inject_and_write_code of java_crw_demo.c: three passes over the  *)
(* byte code of a method.  The first decides what to inject and where old  *)
(* positions move to, the second widens branches and pads switches until   *)
(* nothing moves any more, the third writes the new code.                  *)
(*                                                                         *)
(* An instruction is an opcode class and, for a branch or switch, the      *)
(* instruction it jumps to; positions are byte offsets as in the code.     *)
(* JumpLimit stands for 32767, the largest 16 bit branch offset.  history  *)
(* holds what the written code does, for the properties to look at.        *)
(***************************************************************************)
EXTENDS Integers, Sequences

CONSTANTS
    Methods,            \* the methods: [code, objectInit, callLen]
    JumpLimit,          \* largest signed offset of a short branch
    SwitchBody,         \* bytes of a switch after its padding
    EntryLen,           \* bytes injected at the entry of Object.<init>
    NewarrayLen,        \* bytes injected after newarray and its like
    ReturnLen,          \* bytes injected before a return; 0: no tracker
    LARGEST_INJECTION

Opcode == {"plain", "newarray", "return", "if", "goto", "goto_w", "switch"}
ShortBranch == {"if", "goto"}
Jumps == ShortBranch \cup {"goto_w", "switch"}

\* What injection_template makes is at most half of LARGEST_INJECTION: a dup or
\* aload_0, two constants of at most three bytes and an invokestatic.
ASSUME LengthsAssumption ==
    /\ LARGEST_INJECTION \in Nat
    /\ \A len \in {EntryLen, NewarrayLen, ReturnLen} \cup {m.callLen : m \in Methods} :
           len \in Nat /\ 2 * len <= LARGEST_INJECTION
    /\ JumpLimit \in Nat /\ JumpLimit >= 8
    /\ SwitchBody \in Nat /\ SwitchBody % 4 = 0
\* objectInit: the constructor of Object.  callLen: the bytes injected at the entry
\* of any other method, which depend on its number; 0: no tracker is called there.
ASSUME MethodsAssumption ==
    \A m \in Methods :
        /\ m.objectInit \in BOOLEAN
        /\ m.code \in Seq([op : Opcode, target : Nat]) /\ Len(m.code) > 0
        /\ \A k \in DOMAIN m.code :
               m.code[k].op \in Jumps => m.code[k].target \in DOMAIN m.code

VARIABLES
    method,      \* the method being rewritten
    start,       \* start[k]: old position of instruction k; the last is code_len
    pass,        \* "inject", "adjust", "write", "done" or "fatal"
    cur,         \* the instruction at input_position
    map,         \* mi->map: old position -> position for jumps to it
    widening,    \* mi->widening: bytes added to the instruction at a position
    injections,  \* mi->injections: the pieces injected at a position
    outPos,      \* output position relative to the new code
    history      \* landing and opcode positions, jumps and paddings written

vars == <<method, start, pass, cur, map, widening, injections, outPos, history>>

-----------------------------------------------------------------------------
\* The input.

NEXT_4BYTE_BOUNDARY(opaddr) == ((opaddr + 4) \div 4) * 4

opcode_length(op, at) ==
    CASE op \in {"plain", "return"} -> 1
      [] op = "newarray" -> 2
      [] op \in ShortBranch -> 3
      [] op = "goto_w" -> 5
      [] op = "switch" -> NEXT_4BYTE_BOUNDARY(at) - at + SwitchBody

code == method.code
Last == Len(code)

\* Positions(c)[k] is where instruction k of c starts; the last one is code_len.
Positions(c) ==
    LET p[k \in 1 .. Len(c) + 1] ==
          IF k = 1 THEN 0 ELSE p[k-1] + opcode_length(c[k-1].op, p[k-1])
    IN  p
Pos(k) == start[k]
code_len == Pos(Last + 1)

\* A method a compiler emits: short branches fit and control never falls off
\* the end.
ValidCode(c) ==
    LET p == Positions(c)
    IN  /\ c[Len(c)].op \in {"return", "goto", "goto_w", "switch"}
        /\ \A k \in DOMAIN c : c[k].op \in ShortBranch =>
               p[c[k].target] - p[k] \in -JumpLimit - 1 .. JumpLimit

\* method_init.
Init ==
    /\ method \in {m \in Methods : ValidCode(m.code)}
    /\ start = Positions(code)
    /\ pass = "entry"
    /\ cur = 1
    /\ map = [p \in 0 .. code_len |-> p]
    /\ widening = [p \in 0 .. code_len |-> 0]
    /\ injections = [p \in 0 .. code_len |-> <<>>]
    /\ outPos = 0
    /\ history = [landing |-> [k \in 1 .. Last |-> -1], jumps |-> {}, switches |-> {}]

\* adjust_map: every position from at on moves.
adjust_map(m, at, offset) ==
    [p \in DOMAIN m |-> IF p >= at THEN m[p] + offset ELSE m[p]]

-----------------------------------------------------------------------------
\* First pass: injections.

\* What is injected at a position: the call at the entry, calls after the
\* instruction in front of the position, calls before the instruction there.  Two
\* of them meet at a return behind a newarray and at one at the entry.
Kinds == {"entry", "after", "before"}

\* The length of the pieces of some kinds, of all that is injected at a position.
LengthOf(pieces, kinds) ==
    LET sum[n \in 0 .. Len(pieces)] ==
          IF n = 0 THEN 0
          ELSE sum[n-1] + (IF pieces[n].kind \in kinds THEN pieces[n].len ELSE 0)
    IN  sum[Len(pieces)]

\* inject_bytecodes, with its assertions.
CanInject(inj, at, len) ==
    /\ at <= code_len
    /\ 2 * len <= LARGEST_INJECTION
    /\ LengthOf(inj[at], Kinds) + len <= LARGEST_INJECTION
inject_bytecodes(inj, at, kind, len) ==
    [inj EXCEPT ![at] = Append(@, [kind |-> kind, len |-> len])]

\* entry_injection_code, before_injection_code, after_injection_code: what
\* injection_template returns for the trackers that are configured.
entry_injection_code == IF method.objectInit THEN EntryLen ELSE method.callLen
before_injection_code(op) ==
    IF op = "return" /\ ~ method.objectInit THEN ReturnLen ELSE 0
after_injection_code(op) == IF op = "newarray" THEN NewarrayLen ELSE 0

Fatal == pass' = "fatal" /\ UNCHANGED <<method, start, cur, map, widening, injections, outPos, history>>

\* You never want to jump into the entry injection: position 0 moves past it.
InjectEntry ==
    /\ pass = "entry"
    /\ LET len == entry_injection_code
       IN  IF len > 0 => CanInject(injections, 0, len)
             THEN /\ pass' = "inject"
                  /\ IF len > 0
                       THEN /\ injections' = inject_bytecodes(injections, 0, "entry", len)
                            /\ map' = adjust_map(map, 0, len)
                       ELSE UNCHANGED <<injections, map>>
                  /\ UNCHANGED <<method, start, cur, widening, outPos, history>>
             ELSE Fatal

\* Moving the instruction itself along with what follows it.
MapBeforeHere(m, k, len) == adjust_map(m, Pos(k), len)

\* Where old positions go when an instruction with the given injections before
\* and after it is passed.  Jumps to the instruction run the code injected
\* before it; jumps to the next one do not run the code injected after it.
MapBefore(m, k, len) == adjust_map(m, Pos(k + 1), len)
MapAfter(m, k, len) == adjust_map(m, Pos(k + 1), len)

inject_for_opcode ==
    /\ pass = "inject"
    /\ cur <= Last
    /\ LET op == code[cur].op
           before == before_injection_code(op)
           after == after_injection_code(op)
           one == IF before = 0 THEN injections
                  ELSE inject_bytecodes(injections, Pos(cur), "before", before)
           two == IF after = 0 THEN one
                  ELSE inject_bytecodes(one, Pos(cur + 1), "after", after)
       IN  IF /\ before > 0 => CanInject(injections, Pos(cur), before)
              /\ after > 0 => CanInject(one, Pos(cur + 1), after)
             THEN /\ injections' = two
                  /\ map' = MapAfter(MapBefore(map, cur, before), cur, after)
                  /\ cur' = cur + 1
                  /\ UNCHANGED <<method, start, pass, widening, outPos, history>>
             ELSE Fatal

NextPass(from, to) ==
    /\ pass = from
    /\ cur = Last + 1
    /\ pass' = to
    /\ cur' = 1
    /\ UNCHANGED <<method, start, map, widening, injections, outPos, history>>

-----------------------------------------------------------------------------
\* Second pass: widening.  Any change starts the pass again from the beginning.

method_code_map(k) == map[Pos(k)]
NewDelta(k) == method_code_map(code[k].target) - method_code_map(k)
\* One too many.
FitsAlmost(delta) == delta \in -JumpLimit - 1 .. JumpLimit + 1
Fits(delta) == delta \in -JumpLimit - 1 .. JumpLimit

\* Switches whose padding stays as it was; and branches widened by too little.
NeededWithoutPadding(k) ==
    CASE code[k].op = "goto" /\ widening[Pos(k)] = 0 /\ ~ Fits(NewDelta(k)) -> 2
      [] code[k].op = "if" /\ widening[Pos(k)] = 0 /\ ~ Fits(NewDelta(k)) -> 5
      [] OTHER -> widening[Pos(k)]
NeededAsGoto(k) ==
    IF code[k].op \in ShortBranch /\ widening[Pos(k)] = 0 /\ ~ Fits(NewDelta(k))
      THEN 2 ELSE widening[Pos(k)]
NeededByFour(k) ==
    IF code[k].op \in ShortBranch /\ ~ Fits(NewDelta(k)) THEN 4 ELSE widening[Pos(k)]

\* The widening instruction k needs, as things stand.
Needed(k) ==
    LET at == Pos(k)
        new_pos == method_code_map(k)
        new_pad == NEXT_4BYTE_BOUNDARY(new_pos) - new_pos
        old_pad == NEXT_4BYTE_BOUNDARY(at) - at
    IN  CASE code[k].op = "switch" -> new_pad - old_pad
          [] code[k].op = "goto" /\ widening[at] = 0 /\ ~ Fits(NewDelta(k)) -> 2
          [] code[k].op = "if" /\ widening[at] = 0 /\ ~ Fits(NewDelta(k)) -> 5
          [] OTHER -> widening[at]

\* Starting again after every switch, moved or not.
adjust_instruction_again ==
    /\ pass = "adjust"
    /\ cur <= Last
    /\ LET at == Pos(cur)
           delta == Needed(cur) - widening[at]
       IN  /\ map' = adjust_map(map, Pos(cur + 1), delta)
           /\ widening' = [widening EXCEPT ![at] = @ + delta]
           /\ cur' = IF delta = 0 /\ code[cur].op # "switch" THEN cur + 1 ELSE 1
    /\ UNCHANGED <<method, start, pass, injections, outPos, history>>

adjust_instruction ==
    /\ pass = "adjust"
    /\ cur <= Last
    /\ LET at == Pos(cur)
           delta == Needed(cur) - widening[at]
       IN  IF delta = 0
             THEN cur' = cur + 1 /\ UNCHANGED <<map, widening>>
             ELSE /\ map' = adjust_map(map, Pos(cur + 1), delta)
                  /\ widening' = [widening EXCEPT ![at] = @ + delta]
                  /\ cur' = 1
    /\ UNCHANGED <<method, start, pass, injections, outPos, history>>

-----------------------------------------------------------------------------
\* Third pass: writing.

\* writeU2 keeps the low bits; the machine reads them back as a signed number.
AsShort(n) == ((n + JumpLimit + 1) % (2 * (JumpLimit + 1))) - (JumpLimit + 1)

\* A written jump: the instruction it was, where its opcode is now, the offset.
Jump(k, at, delta) == [src |-> k, at |-> at, delta |-> delta]

\* What is written for instruction k whose opcode goes to position at: its
\* length, the jumps in it, and the place of a switch's operands.
Written(k, at) ==
    LET op == code[k].op
        widened == widening[Pos(k)]
        new_pos == method_code_map(k)
        pad == NEXT_4BYTE_BOUNDARY(new_pos) - new_pos - 1
    IN  CASE op \in ShortBranch /\ widened = 0 ->
               [len |-> 3, jumps |-> {Jump(k, at, AsShort(NewDelta(k)))}, operands |-> {}]
          [] op = "goto" /\ widened = 2 ->
               [len |-> 5, jumps |-> {Jump(k, at, NewDelta(k))}, operands |-> {}]
          [] op = "if" /\ widened = 5 ->
               \* the inverse branch around a goto_w
               [len |-> 8, jumps |-> {Jump(k, at + 3, NewDelta(k) - 3)}, operands |-> {}]
          [] op = "goto_w" ->
               [len |-> 5, jumps |-> {Jump(k, at, NewDelta(k))}, operands |-> {}]
          [] op = "switch" ->
               [len |-> 1 + pad + SwitchBody, jumps |-> {Jump(k, at, NewDelta(k))},
                operands |-> {at + 1 + pad}]
          [] op \notin Jumps ->
               [len |-> opcode_length(op, Pos(k)), jumps |-> {}, operands |-> {}]

\* "Unexpected widening" or "unexpected opcode".
ExpectedWidening(k) ==
    /\ code[k].op = "if" => widening[Pos(k)] \in {0, 5}
    /\ code[k].op = "goto" => widening[Pos(k)] \in {0, 2}

\* The injected pieces go first.  A jump to the instruction should land on what
\* was injected before it, and behind what precedes it.
write_instruction ==
    /\ pass = "write"
    /\ cur <= Last
    /\ LET pieces == injections[Pos(cur)]
           skipped == LengthOf(pieces, {"entry", "after"})
           at == outPos + LengthOf(pieces, Kinds)
           w == Written(cur, at)
       IN  IF ExpectedWidening(cur)
             THEN /\ outPos' = at + w.len
                  /\ history' = [landing |-> [history.landing EXCEPT ![cur] =
                                                outPos + skipped],
                                 jumps |-> history.jumps \cup w.jumps,
                                 switches |-> history.switches \cup w.operands]
                  /\ cur' = cur + 1
                  /\ UNCHANGED <<method, start, pass, map, widening, injections>>
             ELSE Fatal

-----------------------------------------------------------------------------
Pass ==
    \/ InjectEntry
    \/ inject_for_opcode  \/ NextPass("inject", "adjust")
    \/ adjust_instruction \/ NextPass("adjust", "write")
    \/ write_instruction  \/ NextPass("write", "done")

Stopped == pass \in {"done", "fatal"} /\ UNCHANGED vars

Next == Pass \/ Stopped

Spec == Init /\ [][Next]_vars /\ WF_vars(Pass)

-----------------------------------------------------------------------------
\* Properties.

\* Every variable has its type.
TypeOK ==
    /\ method.code \in Seq([op : Opcode, target : Nat])
    /\ method.objectInit \in BOOLEAN /\ method.callLen \in Nat
    /\ start \in [1 .. Last + 1 -> Nat]
    /\ pass \in {"entry", "inject", "adjust", "write", "done", "fatal"}
    /\ cur \in 1 .. Last + 1
    /\ map \in [0 .. code_len -> Nat]
    /\ widening \in [0 .. code_len -> {-3, -2, -1, 0, 1, 2, 3, 5}]
    /\ outPos \in Nat

\* The map the passes computed is where the third pass really puts the code:
\* injected pieces, widened branches and paddings before a position add up to
\* its displacement, for the end of the method too.
MapMatchesOutput ==
    /\ pass = "write" => \A k \in 1 .. cur - 1 : history.landing[k] = map[Pos(k)]
    /\ pass = "done" => outPos = map[code_len]

\* Every jump of the new code lands where its target went: in front of what was
\* injected before the target and behind what was injected after the
\* instruction that precedes it.  In particular no short offset is cut off.
JumpsLand ==
    pass = "done" =>
        \A j \in history.jumps : j.at + j.delta = history.landing[code[j.src].target]

\* The operands of a switch start at a multiple of four of the new code.
SwitchesAligned == \A operands \in history.switches : operands % 4 = 0

\* No assertion of inject_bytecodes and no fatal error of write_instruction.
NeverFatal == pass # "fatal"

\* The second pass, which starts again after every change, comes to an end.
Terminates == <>(pass = "done")
=============================================================================
