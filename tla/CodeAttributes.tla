--------------------------- MODULE CodeAttributes ---------------------------
(***************************************************************************)
(* The second half of method_write_bytecodes of java_crw_demo.c: when the  *)
(* new byte code is written, the tables that follow it are rewritten for   *)
(* the positions the code moved to.  The exception table comes first, then *)
(* the attributes; each is read from the input, entry by entry, and mapped *)
(* with method_code_map.                                                   *)
(*                                                                         *)
(* The input's tables are those a compiler may emit for the method: a line *)
(* for every instruction, every range of instructions as a variable's or a *)
(* protected range, and a frame where the verifier wants one.  U2Max       *)
(* stands for 65535 and SameLimit for 63, the largest offset a frame holds *)
(* in its type byte.                                                       *)
(***************************************************************************)
EXTENDS MethodInjection

CONSTANTS SameLimit, U2Max

ASSUME LimitsAssumption == SameLimit \in Nat /\ U2Max \in Nat

VARIABLES
    table,        \* the table at input_position, "code" before, "end" after
    style,        \* how the input's frames are stored; "unread" before
    frame,        \* the instruction the last frame belongs to; 0: none yet
    last_pc, last_new_pc,
    written       \* the entries written, by table

tables == <<table, style, frame, last_pc, last_new_pc, written>>

Styles == {"same", "stack1", "explicit", "StackMap"}
Tables == {"code", "exception_table", "LineNumberTable", "LocalVariableTable", "frames", "end"}

-----------------------------------------------------------------------------
\* The input's tables.

\* A protected or variable's range: instructions from up to, not including, to.
Ranges == {r \in [from : 1 .. Last, to : 2 .. Last + 1] : r.from < r.to}
\* The handler is not in the range it protects.
Handler == Last
Protected == {r \in Ranges : r.to <= Handler}
Blockends == {"return", "goto", "goto_w", "switch"}
Targets == {code[k].target : k \in {j \in DOMAIN code : code[j].op \in Jumps}}

\* The verifier wants a frame where control may come from elsewhere and where
\* it does not come from the instruction before.
FrameSites ==
    Targets \cup {Handler} \cup {k \in 2 .. Last : code[k-1].op \in Blockends}
FramesLeft == {k \in FrameSites : k > frame}
NextFrame == CHOOSE k \in FramesLeft : \A j \in FramesLeft : k <= j

\* The uninitialized objects a frame may name, each by the place of its "new".
NewSites(k) == {j \in 1 .. k - 1 : code[j].op = "plain"}

new_code_len == outPos
\* writeU2 keeps the lower 16 bits.
AsU2(n) == n % (U2Max + 1)

-----------------------------------------------------------------------------
CodeInit ==
    /\ Init
    /\ code_len <= U2Max
    /\ table = "code"
    /\ style = "unread"
    /\ frame = 0
    /\ last_pc = 0
    /\ last_new_pc = 0
    /\ written = [exceptions |-> {}, lines |-> {}, variables |-> {}, frames |-> <<>>]

\* method_inject_and_write_code is over, and the code length is fixed up.
CodeWritten ==
    /\ pass = "done"
    /\ table = "code"
    /\ table' = "exception_table"
    /\ UNCHANGED <<style, frame, last_pc, last_new_pc, written>>

\* "Don't skip entry injection code": position 0 stays where it is.
MapFromZero(k) == IF Pos(k) = 0 THEN 0 ELSE method_code_map(k)

\* A protected range that takes in the call at the entry.
ProtectedFromZero(r) ==
    [range |-> r, start |-> AsU2(MapFromZero(r.from)), end |-> AsU2(method_code_map(r.to)),
     handler |-> AsU2(method_code_map(Handler))]
ProtectedEntry(r) ==
    [range |-> r, start |-> AsU2(method_code_map(r.from)), end |-> AsU2(method_code_map(r.to)),
     handler |-> AsU2(method_code_map(Handler))]

method_write_exception_table ==
    /\ table = "exception_table"
    /\ table' = "LineNumberTable"
    /\ written' = [written EXCEPT !.exceptions = {ProtectedEntry(r) : r \in Protected}]
    /\ UNCHANGED <<style, frame, last_pc, last_new_pc>>

write_line_table ==
    /\ table = "LineNumberTable"
    /\ table' = "LocalVariableTable"
    /\ written' = [written EXCEPT !.lines =
           {[of |-> k, start |-> AsU2(MapFromZero(k))] : k \in 1 .. Last}]
    /\ UNCHANGED <<style, frame, last_pc, last_new_pc>>

\* A variable whose range keeps its length.
VariableSameLength(r) ==
    [range |-> r, start |-> AsU2(MapFromZero(r.from)), length |-> AsU2(Pos(r.to) - Pos(r.from))]
VariableEntry(r) ==
    [range |-> r, start |-> AsU2(MapFromZero(r.from)),
     length |-> AsU2(method_code_map(r.to) - MapFromZero(r.from))]

\* The tables of variables and of variable types have the same format.
write_var_table ==
    /\ table = "LocalVariableTable"
    /\ table' = "frames"
    /\ \E s \in Styles : style' = s
    /\ written' = [written EXCEPT !.variables = {VariableEntry(r) : r \in Ranges}]
    /\ UNCHANGED <<frame, last_pc, last_new_pc>>

-----------------------------------------------------------------------------
\* Frames.

\* writeUoffset: the fields it leaves in the output, by width and value.
writeUoffset(val) ==
    IF new_code_len > U2Max THEN <<[width |-> 4, val |-> val], [width |-> 2, val |-> AsU2(val)]>>
    ELSE <<[width |-> 2, val |-> AsU2(val)]>>

delta_adj == IF frame = 0 THEN 0 ELSE 1

\* copy_verification_types: the place of the "new" of an uninitialized object.
copy_verification_types(k) == {[new |-> j, at |-> method_code_map(j)] : j \in NewSites(k)}

\* The frame the input has for instruction k: its form and offset_delta.
InputFrame(k) ==
    LET offset == Pos(k) - last_pc - delta_adj
    IN  [form |-> CASE style = "explicit" -> "explicit"
                    [] offset <= SameLimit -> style
                    [] style = "same" -> "same_extended"
                    [] style = "stack1" -> "stack1_extended",
         offset |-> offset]

\* A type byte that holds one offset too many.
NewFormLate(form, offset) ==
    CASE form = "same" /\ offset > SameLimit + 1 -> "same_extended"
      [] form = "stack1" /\ offset > SameLimit + 1 -> "stack1_extended"
      [] OTHER -> form
\* A frame keeps its form when its offset still fits, otherwise it is extended.
NewForm(form, offset) ==
    CASE form = "same" /\ offset > SameLimit -> "same_extended"
      [] form = "stack1" /\ offset > SameLimit -> "stack1_extended"
      [] OTHER -> form
\* Where the offset goes: into the type byte or behind it.
OffsetFields(form, offset) ==
    IF form \in {"same", "stack1"} THEN <<[width |-> 1, val |-> offset]>>
    ELSE writeUoffset(offset)

\* One entry of the StackMapTable attribute, with the assertions after it.
write_stackmap_table ==
    /\ table = "frames"
    /\ style # "StackMap"
    /\ pass = "done"
    /\ FramesLeft # {}
    /\ LET k == NextFrame
           input == InputFrame(k)
           delta == delta_adj + input.offset
           new_pc == map[last_pc + delta]
           new_delta == new_pc - last_new_pc
           form == NewForm(input.form, new_delta - delta_adj)
           types == IF form \in {"same", "same_extended"} THEN {} ELSE copy_verification_types(k)
       IN  IF /\ delta >= 0 /\ new_delta >= 0
              /\ last_pc + delta <= code_len /\ new_pc <= new_code_len
             THEN /\ frame' = k
                  /\ last_pc' = last_pc + delta
                  /\ last_new_pc' = new_pc
                  /\ written' = [written EXCEPT !.frames = Append(@,
                         [of |-> k, form |-> form, types |-> types,
                          fields |-> OffsetFields(form, new_delta - delta_adj)])]
                  /\ UNCHANGED vars
             ELSE Fatal /\ UNCHANGED <<frame, last_pc, last_new_pc, written>>
    /\ UNCHANGED <<table, style>>

\* One entry of the CLDC StackMap attribute: positions, not offsets.
write_cldc_stackmap_table ==
    /\ table = "frames"
    /\ style = "StackMap"
    /\ FramesLeft # {}
    /\ frame' = NextFrame
    /\ written' = [written EXCEPT !.frames = Append(@,
           [of |-> NextFrame, form |-> "StackMap",
            types |-> copy_verification_types(NextFrame),
            fields |-> writeUoffset(method_code_map(NextFrame))])]
    /\ UNCHANGED <<table, style, last_pc, last_new_pc>>

TablesWritten ==
    /\ table = "frames"
    /\ FramesLeft = {}
    /\ table' = "end"
    /\ UNCHANGED <<style, frame, last_pc, last_new_pc, written>>

-----------------------------------------------------------------------------
\* method_write_bytecodes from method_inject_and_write_code to the end.
method_write_bytecodes ==
    \/ Pass /\ UNCHANGED tables
    \/ CodeWritten /\ UNCHANGED vars
    \/ method_write_exception_table /\ UNCHANGED vars
    \/ write_line_table /\ UNCHANGED vars
    \/ write_var_table /\ UNCHANGED vars
    \/ write_stackmap_table
    \/ write_cldc_stackmap_table /\ UNCHANGED vars
    \/ TablesWritten /\ UNCHANGED vars

CodeStopped == (table = "end" \/ pass = "fatal") /\ UNCHANGED <<vars, tables>>

CodeNext == method_write_bytecodes \/ CodeStopped

CodeSpec ==
    CodeInit /\ [][CodeNext]_<<vars, tables>> /\ WF_<<vars, tables>>(method_write_bytecodes)

-----------------------------------------------------------------------------
\* Properties.

\* Every variable has its type.
CodeTypeOK ==
    /\ TypeOK
    /\ table \in Tables
    /\ style \in Styles \cup {"unread"}
    /\ frame \in 0 .. Last
    /\ {last_pc, last_new_pc} \subseteq Nat
    /\ DOMAIN written = {"exceptions", "lines", "variables", "frames"}

\* Where old instruction k and all that is injected for it are in the new code:
\* history says where the third pass put them.
LandingOf(k) == IF k = Last + 1 THEN outPos ELSE history.landing[k]
Piece(k) == LandingOf(k) .. LandingOf(k + 1) - 1
EntryCode == 0 .. LandingOf(1) - 1
Pieces(r) == UNION {Piece(k) : k \in r.from .. r.to - 1}
\* The method is finished and one the class file format has 16 bit positions for.
Representable == table = "end" /\ outPos <= U2Max

\* A protected range of the new code holds exactly the instructions it held,
\* with what was injected for them (the tracker called after a newarray may
\* throw in place of it), and its handler is where the handler went; the call
\* at the entry is in no range.
ExceptionsCovered ==
    Representable =>
        \A e \in written.exceptions :
            /\ e.start .. e.end - 1 = Pieces(e.range)
            /\ e.handler = LandingOf(Handler)

\* A variable that lives from the start of the method lives in the injected
\* entry too, any other range holds exactly what it held; and a line starts
\* with its first instruction, the first line with the method.
DebugTablesMatch ==
    Representable =>
        /\ \A v \in written.variables :
               v.start .. v.start + v.length - 1 =
                   Pieces(v.range) \cup (IF v.range.from = 1 THEN EntryCode ELSE {})
        /\ \A l \in written.lines :
               l.start = IF l.of = 1 THEN 0 ELSE LandingOf(l.of)

\* Where the verifier takes frame i of the new table to be: the first frame of a
\* StackMapTable holds its position, the others what is between, less one.
FramePosition(i) ==
    LET offset(n) == written.frames[n].fields[1].val
        at[n \in 1 .. i] == IF n = 1 THEN offset(1) ELSE at[n-1] + offset(n) + 1
    IN  IF style = "StackMap" THEN offset(i) ELSE at[i]

\* Where the opcode of an instruction is in the new code.
OpcodeAt(k) == LandingOf(k) + LengthOf(injections[Pos(k)], {"before"})

\* Every frame of the new table is found where its instruction's jumps land: the
\* offsets, each relative to the frame before, add up, one that is kept in the
\* type byte fits there and any other is a field of two bytes, "u2 or u4 depending
\* on the code_len".  A frame names the "new" itself.
FramesLand ==
    Representable =>
        \A i \in DOMAIN written.frames :
            LET f == written.frames[i]
            IN  /\ FramePosition(i) = LandingOf(f.of)
                /\ Len(f.fields) = 1
                /\ IF f.form \in {"same", "stack1"} THEN f.fields[1].val \in 0 .. SameLimit
                   ELSE f.fields[1].width = 2
                /\ \A t \in f.types : t.at = OpcodeAt(t.new)

\* "We didn't add any basic blocks so the frame count remains the same": every
\* place the new code branches to has a frame.  A widened if branches around
\* the goto_w that takes its place, to the instruction after it.
NoNewBlocks ==
    Representable =>
        \A k \in DOMAIN code :
            widening[Pos(k)] = 5 =>
                \E i \in DOMAIN written.frames : FramePosition(i) = LandingOf(k + 1)
=============================================================================
