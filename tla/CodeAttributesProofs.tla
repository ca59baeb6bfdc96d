------------------------ MODULE CodeAttributesProofs ------------------------
(***************************************************************************)
(* The tables that follow the code agree with the code, for every method   *)
(* with a frame wherever the verifier wants one, all lengths of injected   *)
(* code and any limits.  What the byte code's invariant says about the map *)
(* gives every table its meaning; the frames, each of which is relative to *)
(* the one before, need an invariant of their own.                         *)
(***************************************************************************)
EXTENDS CodeAttributes, MethodInjectionProofs

-----------------------------------------------------------------------------
\* The inductive invariant.

\* The tables come after the code, each in its turn.
Progress ==
    /\ table \in Tables
    /\ style \in Styles \cup {"unread"}
    /\ pass # "done" => table = "code"
    /\ IF table \in {"frames", "end"} THEN style \in Styles ELSE frame = 0
    /\ DOMAIN written = {"exceptions", "lines", "variables", "frames"}

\* A table that is written is the input's, entry by entry.
ExceptionEntries == {ProtectedEntry(r) : r \in Protected}
LineEntries == {[of |-> k, start |-> AsU2(MapFromZero(k))] : k \in 1 .. Last}
VariableEntries == {VariableEntry(r) : r \in Ranges}
EntriesInv ==
    /\ table \notin {"code", "exception_table"} => written.exceptions = ExceptionEntries
    /\ table \in {"LocalVariableTable", "frames", "end"} => written.lines = LineEntries
    /\ table \in {"frames", "end"} => written.variables = VariableEntries

\* The forms of a stack map frame as they are written.
Forms == {"same", "stack1", "same_extended", "stack1_extended", "explicit", "StackMap"}
Frame == [of : Nat, form : Forms, types : SUBSET [new : Nat, at : Int],
          fields : Seq([width : Nat, val : Int])]

\* The offset frame i of a table has to have.
FrameOffset(frames, i) ==
    IF style = "StackMap" \/ i = 1 THEN map[Pos(frames[i].of)]
    ELSE map[Pos(frames[i].of)] - map[Pos(frames[i-1].of)] - 1

\* A frame with the given offset is stored in a form that has room for it.
FrameRight(f, offset) ==
    /\ f.of \in 1 .. Last
    /\ f.form \in {"same", "stack1"} => offset <= SameLimit
    /\ f.fields = OffsetFields(f.form, offset)
    /\ \A t \in f.types :
           t.new \in 1 .. Last /\ code[t.new].op = "plain" /\ t.at = map[Pos(t.new)]

FramesHold(frames) ==
    \A i \in 1 .. Len(frames) :
        /\ FrameRight(frames[i], FrameOffset(frames, i))
        /\ i # 1 => frames[i-1].of < frames[i].of

\* The frames that are written, and where the last of them is.
FramesInv ==
    /\ written.frames \in Seq(Frame)
    /\ FramesHold(written.frames)
    /\ frame \in 0 .. Last
    /\ frame = 0 <=> Len(written.frames) = 0
    /\ frame # 0 => written.frames[Len(written.frames)].of = frame
    /\ last_pc = IF frame = 0 \/ style = "StackMap" THEN 0 ELSE Pos(frame)
    /\ last_new_pc = IF frame = 0 \/ style = "StackMap" THEN 0 ELSE map[Pos(frame)]

\* The inductive invariant of the rewriting of the whole Code attribute.
CodeInv == InjectionInv /\ Progress /\ EntriesInv /\ FramesInv

-----------------------------------------------------------------------------
\* The steps.

\* Before anything is written.
LEMMA InitCode == CodeInit => CodeInv
<1> SUFFICES ASSUME CodeInit PROVE CodeInv
  OBVIOUS
<1>1. Init /\ InjectionInv
  BY InitInjection DEF CodeInit
<1>2. Progress
  BY <1>1 DEF CodeInit, Progress, Tables, Init
<1>3. EntriesInv
  BY DEF CodeInit, EntriesInv
<1>4. Last \in Nat
  BY <1>1, InvFacts
<1>5. FramesInv
  <2>1. written.frames = << >> /\ frame = 0 /\ last_pc = 0 /\ last_new_pc = 0
    BY DEF CodeInit
  <2>2. << >> \in Seq(Frame) /\ Len(<< >>) = 0
    OBVIOUS
  <2> QED  BY <1>4, <2>1, <2>2 DEF FramesInv, FramesHold
<1> QED  BY <1>1, <1>2, <1>3, <1>5 DEF CodeInv

\* Where the third pass has put the instructions, and that the last frame and
\* everything it needs is inside the code.
LEMMA DoneFacts ==
    ASSUME InjectionInv, pass = "done"
    PROVE  /\ outPos = map[Pos(Last + 1)] /\ outPos \in Nat
           /\ \A k \in 1 .. Last + 1 : LandingOf(k) = map[Pos(k)] /\ LandingOf(k) \in Nat
           /\ \A k \in 1 .. Last + 1 : LandingOf(k) <= outPos
           /\ \A j, k \in 1 .. Last + 1 : j < k => LandingOf(j) < LandingOf(k)
<1>1. OutputInv /\ Last \in Nat /\ Last + 1 \in 1 .. Last + 1
  BY InvFacts
<1>2. outPos = map[Pos(Last + 1)]
  BY <1>1 DEF OutputInv, code_len
<1>3. \A k \in 1 .. Last + 1 : map[Pos(k)] \in Nat
  BY LandingFacts
<1>4. ASSUME NEW k \in 1 .. Last + 1 PROVE LandingOf(k) = map[Pos(k)]
  <2>1. CASE k = Last + 1
    BY <1>2, <2>1 DEF LandingOf
  <2>2. CASE k # Last + 1
    <3>1. k \in 1 .. Last /\ IsWritten(k)
      BY <1>1, <2>2 DEF IsWritten
    <3> QED  BY <1>1, <2>2, <3>1 DEF LandingOf, OutputInv
  <2> QED  BY <2>1, <2>2
<1>5. \A j, k \in 1 .. Last + 1 : j < k => map[Pos(j)] < map[Pos(k)]
  BY LandingFacts
<1>6. ASSUME NEW k \in 1 .. Last + 1 PROVE map[Pos(k)] <= map[Pos(Last + 1)]
  <2>1. k < Last + 1 \/ k = Last + 1
    BY <1>1
  <2>2. map[Pos(k)] \in Nat /\ map[Pos(Last + 1)] \in Nat
    BY <1>1, <1>3
  <2> QED  BY <1>1, <1>5, <2>1, <2>2
<1> QED  BY <1>1, <1>2, <1>3, <1>4, <1>5, <1>6

\* The next frame is one of the method's, behind the last one.
LEMMA NextFrameFacts ==
    ASSUME InjectionInv, frame \in Nat, FramesLeft # {}
    PROVE  NextFrame \in 1 .. Last /\ frame < NextFrame
<1>1. Layout /\ Last \in Nat \ {0}
  BY InvFacts
<1>2. FrameSites \in SUBSET (1 .. Last)
  <2>1. Targets \in SUBSET (1 .. Last)
    <3>1. DOMAIN code = 1 .. Last
      BY <1>1, CodeFacts DEF Last
    <3> QED  BY <1>1, <3>1, CodeFacts DEF Targets
  <2>2. {k \in 2 .. Last : code[k-1].op \in Blockends} \in SUBSET (1 .. Last)
    BY <1>1
  <2>3. {Handler} \in SUBSET (1 .. Last)
    BY <1>1 DEF Handler
  <2> QED  BY <2>1, <2>2, <2>3 DEF FrameSites
<1>3. FramesLeft \in SUBSET Nat /\ FramesLeft \in SUBSET (1 .. Last)
  <2>1. \A k \in FramesLeft : k \in 1 .. Last
    BY <1>2 DEF FramesLeft
  <2>2. \A k \in 1 .. Last : k \in Nat
    BY <1>1
  <2> QED  BY <2>1, <2>2
<1>4. \E k \in FramesLeft : \A j \in FramesLeft : k <= j
  BY <1>3, LeastNumber
<1>5. NextFrame \in FramesLeft
  BY <1>4 DEF NextFrame
<1>6. NextFrame > frame /\ NextFrame \in 1 .. Last
  BY <1>3, <1>5 DEF FramesLeft
<1> QED  BY <1>6

\* One more frame.
LEMMA FrameAdded ==
    ASSUME NEW frames, frames \in Seq(Frame), FramesHold(frames), NEW f, f \in Frame,
           Len(frames) # 0 => frames[Len(frames)].of < f.of,
           FrameRight(f, FrameOffset(Append(frames, f), Len(frames) + 1))
    PROVE  FramesHold(Append(frames, f))
<1> DEFINE longer == Append(frames, f)
<1>1. /\ longer \in Seq(Frame) /\ Len(frames) \in Nat /\ Len(longer) = Len(frames) + 1
      /\ longer[Len(frames) + 1] = f
      /\ \A i \in 1 .. Len(frames) : longer[i] = frames[i]
  OBVIOUS
<1>2. FrameRight(f, FrameOffset(longer, Len(frames) + 1))
  OBVIOUS
<1> HIDE DEF longer
<1> SUFFICES ASSUME NEW i \in 1 .. Len(longer)
             PROVE  /\ FrameRight(longer[i], FrameOffset(longer, i))
                    /\ i # 1 => longer[i-1].of < longer[i].of
  BY DEF FramesHold, longer
<1>3. CASE i = Len(frames) + 1
  <2>1. i # 1 => Len(frames) # 0 /\ i - 1 = Len(frames) /\ Len(frames) \in 1 .. Len(frames)
    BY <1>1, <1>3
  <2> QED  BY <1>1, <1>2, <1>3, <2>1
<1>4. CASE i \in 1 .. Len(frames)
  <2>1. i # 1 => i - 1 \in 1 .. Len(frames)
    BY <1>1, <1>4
  <2>2. FrameOffset(longer, i) = FrameOffset(frames, i)
    BY <1>1, <1>4, <2>1 DEF FrameOffset
  <2> QED  BY <1>1, <1>4, <2>1, <2>2 DEF FramesHold
<1> QED  BY <1>1, <1>3, <1>4

\* The input's tables and the map stay as they are.
LEMMA CodeKeeps ==
    ASSUME InjectionInv, UNCHANGED vars
    PROVE  /\ InjectionInv' /\ Last' = Last /\ code' = code /\ \A k : Pos(k)' = Pos(k)
           /\ UNCHANGED <<ExceptionEntries, LineEntries, VariableEntries>>
<1>1. InjectionInv'
  BY InjectionStep
<1>2. /\ code' = code /\ Last' = Last /\ map' = map
      /\ Handler' = Handler /\ Ranges' = Ranges /\ Protected' = Protected
      /\ \A k : Pos(k)' = Pos(k)
      /\ \A k : method_code_map(k)' = method_code_map(k)
      /\ \A k : MapFromZero(k)' = MapFromZero(k)
  BY DEF vars, code, Last, Handler, Ranges, Protected, Pos, method_code_map, MapFromZero
<1>3. \A r : ProtectedEntry(r)' = ProtectedEntry(r)
  BY DEF vars, ProtectedEntry, method_code_map, Handler, Last, code, Pos, AsU2
<1>4. \A r : VariableEntry(r)' = VariableEntry(r)
  BY DEF vars, VariableEntry, method_code_map, MapFromZero, Pos, AsU2
<1>5. ExceptionEntries' = ExceptionEntries
  BY <1>2, <1>3 DEF ExceptionEntries
<1>6. LineEntries' = LineEntries
  BY <1>2 DEF LineEntries, AsU2
<1>7. VariableEntries' = VariableEntries
  BY <1>2, <1>4 DEF VariableEntries
<1> QED  BY <1>1, <1>2, <1>5, <1>6, <1>7

\* Without a frame there is nothing to say about frames.
LEMMA NoFrames ==
    ASSUME FramesInv, frame = 0, Last' = Last, Last \in Nat,
           UNCHANGED <<frame, last_pc, last_new_pc>>, written'.frames = written.frames
    PROVE  FramesInv'
<1>1. /\ written.frames \in Seq(Frame) /\ Len(written.frames) = 0
      /\ last_pc = 0 /\ last_new_pc = 0
  BY DEF FramesInv
<1> QED  BY <1>1 DEF FramesInv, FramesHold

\* What holds of some frames stays so.
LEMMA FramesKeep ==
    ASSUME UNCHANGED <<vars, style>>, NEW frames, FramesHold(frames)
    PROVE  FramesHold(frames)'
<1>1. /\ map' = map /\ style' = style /\ outPos' = outPos /\ code' = code /\ Last' = Last
      /\ \A k : Pos(k)' = Pos(k)
  BY DEF vars, Pos, Last, code
<1>2. \A i : FrameOffset(frames, i)' = FrameOffset(frames, i)
  BY <1>1 DEF FrameOffset
<1>3. \A form, offset : OffsetFields(form, offset)' = OffsetFields(form, offset)
  BY <1>1 DEF OffsetFields, writeUoffset, new_code_len, AsU2
<1>4. \A f, offset : FrameRight(f, offset)' <=> FrameRight(f, offset)
  BY <1>1, <1>3 DEF FrameRight
<1> QED  BY <1>2, <1>4 DEF FramesHold

\* The passes over the code.
LEMMA CodePassStep ==
    ASSUME CodeInv, Pass, UNCHANGED tables
    PROVE  CodeInv'
<1>1. InjectionInv /\ InjectionInv' /\ Last \in Nat
  BY InjectionStep, InvFacts DEF CodeInv, Next
<1>2. /\ pass # "done" /\ UNCHANGED method
  BY DEF Pass, InjectEntry, inject_for_opcode, adjust_instruction, write_instruction, NextPass, Fatal
<1>3. table = "code" /\ frame = 0
  BY <1>2 DEF CodeInv, Progress
<1>4. UNCHANGED <<table, style, frame, last_pc, last_new_pc, written>>
  BY DEF tables
<1>5. Progress'
  BY <1>3, <1>4 DEF CodeInv, Progress
<1>6. EntriesInv'
  BY <1>3, <1>4 DEF EntriesInv
<1>7. FramesInv'
  <2>1. Last' = Last
    BY <1>2 DEF Last, code
  <2> QED  BY <1>1, <1>3, <1>4, <2>1, NoFrames DEF CodeInv
<1> QED  BY <1>1, <1>5, <1>6, <1>7 DEF CodeInv

\* The tables before the frames.
LEMMA TableStep ==
    ASSUME CodeInv, UNCHANGED vars,
           \/ CodeWritten \/ method_write_exception_table
           \/ write_line_table \/ write_var_table
    PROVE  CodeInv'
<1>1. InjectionInv /\ Progress /\ EntriesInv /\ FramesInv /\ Last \in Nat
  BY InvFacts DEF CodeInv
<1>2. /\ InjectionInv' /\ Last' = Last
      /\ UNCHANGED <<ExceptionEntries, LineEntries, VariableEntries>>
  BY <1>1, CodeKeeps
<1>3. /\ UNCHANGED <<frame, last_pc, last_new_pc>> /\ pass' = pass
      /\ table \in {"code", "exception_table", "LineNumberTable", "LocalVariableTable"}
      /\ frame = 0
  BY <1>1 DEF CodeWritten, method_write_exception_table, write_line_table, write_var_table, Progress,
           vars
<1>4. CASE CodeWritten
  <2>1. pass = "done" /\ table' = "exception_table" /\ UNCHANGED <<style, written>>
    BY <1>4 DEF CodeWritten
  <2>2. Progress'
    BY <1>1, <1>3, <2>1 DEF Progress, Tables
  <2>3. EntriesInv'
    BY <2>1 DEF EntriesInv
  <2>4. FramesInv'
    BY <1>1, <1>2, <1>3, <2>1, NoFrames
  <2> QED  BY <1>2, <2>2, <2>3, <2>4 DEF CodeInv
<1>5. CASE method_write_exception_table
  <2>1. /\ table = "exception_table" /\ table' = "LineNumberTable" /\ UNCHANGED style
        /\ written' = [written EXCEPT !.exceptions = ExceptionEntries]
    BY <1>5 DEF method_write_exception_table, ExceptionEntries
  <2>2. Progress'
    BY <1>1, <1>3, <2>1 DEF Progress, Tables
  <2>3. EntriesInv'
    BY <1>1, <1>2, <2>1 DEF EntriesInv, Progress
  <2>4. FramesInv'
    BY <1>1, <1>2, <1>3, <2>1, NoFrames
  <2> QED  BY <1>2, <2>2, <2>3, <2>4 DEF CodeInv
<1>6. CASE write_line_table
  <2>1. /\ table = "LineNumberTable" /\ table' = "LocalVariableTable" /\ UNCHANGED style
        /\ written' = [written EXCEPT !.lines = LineEntries]
    BY <1>6 DEF write_line_table, LineEntries
  <2>2. Progress'
    BY <1>1, <1>3, <2>1 DEF Progress, Tables
  <2>3. EntriesInv'
    BY <1>1, <1>2, <2>1 DEF EntriesInv, Progress
  <2>4. FramesInv'
    BY <1>1, <1>2, <1>3, <2>1, NoFrames
  <2> QED  BY <1>2, <2>2, <2>3, <2>4 DEF CodeInv
<1>7. CASE write_var_table
  <2>1. /\ table = "LocalVariableTable" /\ table' = "frames" /\ style' \in Styles
        /\ written' = [written EXCEPT !.variables = VariableEntries]
    BY <1>7 DEF write_var_table, VariableEntries
  <2>2. Progress'
    BY <1>1, <1>3, <2>1 DEF Progress, Tables
  <2>3. EntriesInv'
    BY <1>1, <1>2, <2>1 DEF EntriesInv, Progress
  <2>4. FramesInv'
    BY <1>1, <1>2, <1>3, <2>1, NoFrames
  <2> QED  BY <1>2, <2>2, <2>3, <2>4 DEF CodeInv
<1> QED  BY <1>4, <1>5, <1>6, <1>7

\* The tables are finished, or nothing happens.
LEMMA EndStep ==
    ASSUME CodeInv, UNCHANGED vars, TablesWritten \/ UNCHANGED tables
    PROVE  CodeInv'
<1>1. InjectionInv /\ Progress /\ EntriesInv /\ FramesInv
  BY DEF CodeInv
<1>2. /\ InjectionInv' /\ Last' = Last /\ map' = map /\ \A k : Pos(k)' = Pos(k)
      /\ UNCHANGED <<ExceptionEntries, LineEntries, VariableEntries>>
  BY <1>1, CodeKeeps DEF vars
<1>3. /\ UNCHANGED <<style, frame, last_pc, last_new_pc, written>> /\ pass' = pass
      /\ table' = table \/ (table = "frames" /\ table' = "end")
  BY DEF TablesWritten, tables, vars
<1>4. Progress'
  BY <1>1, <1>3 DEF Progress, Tables
<1>5. EntriesInv'
  BY <1>1, <1>2, <1>3 DEF EntriesInv
<1>6. FramesInv'
  <2>1. FramesHold(written.frames)'
    <3>1. PICK frames : frames = written.frames
      OBVIOUS
    <3>2. FramesHold(frames) /\ frames = written'.frames
      BY <1>1, <1>3, <3>1 DEF FramesInv
    <3>3. FramesHold(frames)'
      BY <1>3, <3>2, FramesKeep
    <3> QED  BY <3>2, <3>3 DEF FramesHold
  <2> QED  BY <1>1, <1>2, <1>3, <2>1 DEF FramesInv
<1> QED  BY <1>2, <1>4, <1>5, <1>6 DEF CodeInv

\* One frame: what is appended to the table fits the invariant.
LEMMA FrameWritten ==
    ASSUME CodeInv, UNCHANGED <<vars, table, style>>, table = "frames",
           NEW k \in 1 .. Last, frame < k, frame' = k,
           NEW f, f \in Frame, f.of = k,
           FrameRight(f, IF style = "StackMap" \/ frame = 0 THEN map[Pos(k)]
                         ELSE map[Pos(k)] - map[Pos(frame)] - 1),
           written' = [written EXCEPT !.frames = Append(written.frames, f)],
           last_pc' = IF style = "StackMap" THEN 0 ELSE Pos(k),
           last_new_pc' = IF style = "StackMap" THEN 0 ELSE map[Pos(k)]
    PROVE  CodeInv'
<1> DEFINE F == written.frames
           longer == Append(F, f)
<1>1. InjectionInv /\ Progress /\ EntriesInv /\ FramesInv /\ Last \in Nat
  BY InvFacts DEF CodeInv
<1>2. /\ InjectionInv' /\ Last' = Last /\ map' = map /\ \A j : Pos(j)' = Pos(j)
      /\ UNCHANGED <<ExceptionEntries, LineEntries, VariableEntries>>
      /\ pass' = pass /\ table' = table /\ style' = style
  BY <1>1, CodeKeeps DEF vars
<1>3. /\ DOMAIN written' = DOMAIN written
      /\ written'.frames = longer /\ written'.exceptions = written.exceptions
      /\ written'.lines = written.lines /\ written'.variables = written.variables
  BY <1>1 DEF Progress
<1>4. Progress' /\ EntriesInv'
  <2> HIDE DEF longer
  <2> QED  BY <1>1, <1>2, <1>3 DEF Progress, EntriesInv
<1>5. /\ F \in Seq(Frame) /\ FramesHold(F) /\ Len(F) \in Nat
      /\ frame \in 0 .. Last /\ (frame = 0 <=> Len(F) = 0)
      /\ frame # 0 => F[Len(F)].of = frame
  BY <1>1 DEF FramesInv
<1>6. /\ longer \in Seq(Frame) /\ Len(longer) = Len(F) + 1 /\ longer[Len(F) + 1] = f
      /\ Len(F) # 0 => longer[(Len(F) + 1) - 1] = F[Len(F)]
  <2> HIDE DEF F
  <2>1. longer \in Seq(Frame) /\ Len(longer) = Len(F) + 1 /\ longer[Len(F) + 1] = f
    BY <1>5
  <2>2. Len(F) # 0 => (Len(F) + 1) - 1 = Len(F) /\ Len(F) \in 1 .. Len(F)
    BY <1>5
  <2>3. \A i \in 1 .. Len(F) : longer[i] = F[i]
    BY <1>5
  <2> QED  BY <2>1, <2>2, <2>3
<1> HIDE DEF F, longer
<1>7. FrameOffset(longer, Len(F) + 1) =
          IF style = "StackMap" \/ frame = 0 THEN map[Pos(k)]
          ELSE map[Pos(k)] - map[Pos(frame)] - 1
  <2>1. Len(F) + 1 = 1 <=> frame = 0
    BY <1>5
  <2> QED  BY <1>5, <1>6, <2>1 DEF FrameOffset
<1>8. FramesHold(longer)
  <2>1. Len(F) # 0 => F[Len(F)].of < f.of
    BY <1>5
  <2>2. FrameRight(f, FrameOffset(longer, Len(F) + 1))
    BY <1>7
  <2> QED  BY <1>5, <2>1, <2>2, FrameAdded DEF longer
<1>9. FramesHold(written.frames)'
  <2>1. PICK frames : frames = longer
    OBVIOUS
  <2>2. FramesHold(frames) /\ frames = written'.frames
    BY <1>3, <1>8, <2>1
  <2>3. FramesHold(frames)'
    BY <2>2, FramesKeep
  <2> QED  BY <2>2, <2>3 DEF FramesHold
<1>10. FramesInv'
  <2>1. k # 0 /\ k \in 0 .. Last /\ Len(longer) # 0 /\ longer[Len(longer)].of = k
    BY <1>1, <1>5, <1>6
  <2>2. written'.frames \in Seq(Frame)
    BY <1>3, <1>6
  <2>3. /\ last_pc' = (IF frame = 0 \/ style = "StackMap" THEN 0 ELSE Pos(frame))'
        /\ last_new_pc' = (IF frame = 0 \/ style = "StackMap" THEN 0 ELSE map[Pos(frame)])'
    BY <1>2, <2>1 DEF Pos
  <2> QED  BY <1>2, <1>3, <1>9, <2>1, <2>2, <2>3 DEF FramesInv
<1> QED  BY <1>2, <1>4, <1>10 DEF CodeInv

\* The fields an offset is written to.
LEMMA FieldsType ==
    ASSUME InjectionInv, pass = "done", NEW form, NEW offset \in Int
    PROVE  OffsetFields(form, offset) \in Seq([width : Nat, val : Int])
<1>1. outPos \in Nat /\ U2Max \in Nat
  BY DoneFacts, LimitsAssumption
<1>2. AsU2(offset) \in Int
  BY <1>1 DEF AsU2
<1> DEFINE S == [width : Nat, val : Int]
           a == [width |-> 4, val |-> offset]
           b == [width |-> 1, val |-> offset]
           c == [width |-> 2, val |-> AsU2(offset)]
<1>3. a \in S /\ b \in S /\ c \in S
  BY <1>2
<1>4. OffsetFields(form, offset) \in {<<b>>, <<a, c>>, <<c>>}
  BY DEF OffsetFields, writeUoffset
<1> HIDE DEF a, b, c, S
<1>5. <<b>> \in Seq(S) /\ <<a, c>> \in Seq(S) /\ <<c>> \in Seq(S)
  BY <1>3
<1> QED  BY <1>4, <1>5 DEF S

\* The places of the new instructions that a frame names.
LEMMA VerificationTypes ==
    ASSUME InjectionInv, NEW k \in 1 .. Last
    PROVE  /\ copy_verification_types(k) \in SUBSET [new : Nat, at : Int]
           /\ \A t \in copy_verification_types(k) :
                  t.new \in 1 .. Last /\ code[t.new].op = "plain" /\ t.at = map[Pos(t.new)]
<1>1. Last \in Nat /\ \A j \in 1 .. Last + 1 : map[Pos(j)] \in Int
  BY InvFacts
<1>2. ASSUME NEW j \in NewSites(k)
      PROVE  j \in 1 .. Last /\ code[j].op = "plain" /\ j \in Nat /\ map[Pos(j)] \in Int
  <2>1. j \in 1 .. k - 1 /\ code[j].op = "plain"
    BY DEF NewSites
  <2>2. j \in 1 .. Last /\ j \in 1 .. Last + 1
    BY <1>1, <2>1
  <2> QED  BY <1>1, <2>1, <2>2
<1>3. ASSUME NEW t \in copy_verification_types(k)
      PROVE  /\ t \in [new : Nat, at : Int]
             /\ t.new \in 1 .. Last /\ code[t.new].op = "plain" /\ t.at = map[Pos(t.new)]
  <2>1. PICK j \in NewSites(k) : t = [new |-> j, at |-> map[Pos(j)]]
    BY DEF copy_verification_types, method_code_map
  <2> QED  BY <1>2, <2>1
<1> QED  BY <1>3

\* A frame of a StackMapTable: its assertions hold.
LEMMA StackMapTableStep ==
    ASSUME CodeInv, write_stackmap_table
    PROVE  CodeInv'
<1>1. /\ InjectionInv /\ FramesInv /\ Progress /\ Layout /\ Last \in Nat
      /\ \A j \in 1 .. Last + 1 : Pos(j) \in 0 .. code_len
      /\ \A j \in 1 .. Last + 1 : map[Pos(j)] \in Int
  BY InvFacts DEF CodeInv
<1>2. /\ table = "frames" /\ style \in {"same", "stack1", "explicit"} /\ pass = "done"
      /\ FramesLeft # {} /\ UNCHANGED <<table, style>>
  BY <1>1 DEF write_stackmap_table, Progress, Styles
<1> DEFINE input == InputFrame(NextFrame)
           offset == map[Pos(NextFrame)] - last_new_pc - delta_adj
           form == NewForm(input.form, offset)
           types == IF form \in {"same", "same_extended"} THEN {}
                    ELSE copy_verification_types(NextFrame)
           f == [of |-> NextFrame, form |-> form, types |-> types,
                 fields |-> OffsetFields(form, offset)]
<1>3. frame \in 0 .. Last /\ frame \in Nat
  BY <1>1 DEF FramesInv
<1>4. NextFrame \in 1 .. Last /\ frame < NextFrame
  BY <1>1, <1>2, <1>3, NextFrameFacts
<1>5. /\ last_pc = IF frame = 0 THEN 0 ELSE Pos(frame)
      /\ last_new_pc = IF frame = 0 THEN 0 ELSE map[Pos(frame)]
  BY <1>1, <1>2 DEF FramesInv
<1>6. /\ NextFrame \in 1 .. Last + 1 /\ Pos(NextFrame) \in 0 .. code_len
      /\ map[Pos(NextFrame)] \in Nat /\ code_len \in Nat
  BY <1>1, <1>4, LandingFacts, PositionFacts
<1>7. /\ last_pc \in Nat /\ last_pc <= Pos(NextFrame)
      /\ last_new_pc \in Nat /\ last_new_pc <= map[Pos(NextFrame)]
  <2>1. CASE frame = 0
    BY <1>5, <1>6, <2>1
  <2>2. CASE frame # 0
    <3>1. frame \in 1 .. Last + 1
      BY <1>1, <1>3, <2>2
    <3>2. Pos(frame) < Pos(NextFrame) /\ map[Pos(frame)] < map[Pos(NextFrame)]
      BY <1>1, <1>4, <1>6, <3>1, PositionFacts, LandingFacts
    <3>3. Pos(frame) \in 0 .. code_len /\ map[Pos(frame)] \in Nat
      BY <1>1, <3>1, PositionFacts, LandingFacts
    <3> QED  BY <1>5, <1>6, <2>2, <3>2, <3>3
  <2> QED  BY <2>1, <2>2
<1>8. delta_adj \in {0, 1} /\ delta_adj \in Int
  BY DEF delta_adj
<1>9. input.offset = Pos(NextFrame) - last_pc - delta_adj
  BY DEF InputFrame
<1>10. /\ last_pc + (delta_adj + input.offset) = Pos(NextFrame)
       /\ delta_adj + input.offset >= 0
  BY <1>6, <1>7, <1>8, <1>9
<1>11. map[Pos(NextFrame)] - last_new_pc >= 0 /\ map[Pos(NextFrame)] <= new_code_len
  <2>1. LandingOf(NextFrame) = map[Pos(NextFrame)] /\ LandingOf(NextFrame) <= outPos
    BY <1>1, <1>2, <1>6, DoneFacts
  <2> QED  BY <1>6, <1>7, <2>1 DEF new_code_len
<1>12. /\ frame' = NextFrame /\ last_pc' = Pos(NextFrame) /\ last_new_pc' = map[Pos(NextFrame)]
       /\ written' = [written EXCEPT !.frames = Append(written.frames, f)]
       /\ UNCHANGED vars
  <2> DEFINE delta == delta_adj + input.offset
             new_pc == map[last_pc + delta]
             new_delta == new_pc - last_new_pc
             new_form == NewForm(input.form, new_delta - delta_adj)
             g == [of |-> NextFrame, form |-> new_form,
                   types |-> IF new_form \in {"same", "same_extended"} THEN {}
                             ELSE copy_verification_types(NextFrame),
                   fields |-> OffsetFields(new_form, new_delta - delta_adj)]
  <2>1. \/ /\ frame' = NextFrame /\ last_pc' = last_pc + delta /\ last_new_pc' = new_pc
           /\ written' = [written EXCEPT !.frames = Append(written.frames, g)]
           /\ UNCHANGED vars
        \/ ~ (/\ delta >= 0 /\ new_delta >= 0
              /\ last_pc + delta <= code_len /\ new_pc <= new_code_len)
    BY DEF write_stackmap_table
  <2>2. new_pc = map[Pos(NextFrame)] /\ new_delta = map[Pos(NextFrame)] - last_new_pc
    BY <1>10
  <2>3. g = f
    BY <2>2
  <2>4. Pos(NextFrame) <= code_len
    BY <1>6
  <2> HIDE DEF input, f, g, new_delta, new_pc
  <2> QED  BY <1>10, <1>11, <2>1, <2>2, <2>3, <2>4
<1>13. offset \in Int
  BY <1>6, <1>7, <1>8
<1>14. /\ form \in {"same", "stack1", "same_extended", "stack1_extended", "explicit"}
       /\ form \in {"same", "stack1"} => offset <= SameLimit
  <2>1. input.form \in {"same", "stack1", "same_extended", "stack1_extended", "explicit"}
    BY <1>2 DEF InputFrame
  <2>2. SameLimit \in Nat
    BY LimitsAssumption
  <2> HIDE DEF input, offset
  <2> QED  BY <1>13, <2>1, <2>2 DEF NewForm
<1>15. form \in Forms
  <2> HIDE DEF form
  <2> QED  BY <1>14 DEF Forms
<1>16. /\ types \in SUBSET [new : Nat, at : Int]
       /\ \A t \in types : t.new \in 1 .. Last /\ code[t.new].op = "plain" /\ t.at = map[Pos(t.new)]
  <2> HIDE DEF form
  <2> QED  BY <1>1, <1>4, VerificationTypes
<1>17. OffsetFields(form, offset) \in Seq([width : Nat, val : Int])
  <2> HIDE DEF form, offset
  <2> QED  BY <1>1, <1>2, <1>13, FieldsType
<1> HIDE DEF form, types, input
<1>18. f \in Frame /\ f.of = NextFrame
  <2>1. NextFrame \in Nat
    BY <1>1, <1>4
  <2> HIDE DEF offset
  <2> QED  BY <1>15, <1>16, <1>17, <2>1 DEF Frame
<1>19. offset = IF style = "StackMap" \/ frame = 0 THEN map[Pos(NextFrame)]
                ELSE map[Pos(NextFrame)] - map[Pos(frame)] - 1
  BY <1>2, <1>5, <1>6 DEF delta_adj
<1>20. FrameRight(f, offset)
  <2> HIDE DEF offset
  <2> QED  BY <1>4, <1>14, <1>16 DEF FrameRight
<1> HIDE DEF f, offset
<1>21. /\ last_pc' = IF style = "StackMap" THEN 0 ELSE Pos(NextFrame)
       /\ last_new_pc' = IF style = "StackMap" THEN 0 ELSE map[Pos(NextFrame)]
  BY <1>2, <1>12
<1> QED  BY <1>2, <1>4, <1>12, <1>18, <1>19, <1>20, <1>21, FrameWritten

\* A frame of a StackMap attribute.
LEMMA CLDCStep ==
    ASSUME CodeInv, write_cldc_stackmap_table, UNCHANGED vars
    PROVE  CodeInv'
<1>1. /\ InjectionInv /\ FramesInv /\ Progress /\ Last \in Nat
      /\ \A j \in 1 .. Last + 1 : map[Pos(j)] \in Int
  BY InvFacts DEF CodeInv
<1>2. table = "frames" /\ style = "StackMap" /\ pass = "done" /\ FramesLeft # {}
  BY <1>1 DEF write_cldc_stackmap_table, Progress
<1> DEFINE types == copy_verification_types(NextFrame)
           fields == OffsetFields("StackMap", map[Pos(NextFrame)])
           f == [of |-> NextFrame, form |-> "StackMap", types |-> types, fields |-> fields]
<1>3. frame \in Nat
  BY <1>1 DEF FramesInv
<1>4. NextFrame \in 1 .. Last /\ frame < NextFrame
  BY <1>1, <1>2, <1>3, NextFrameFacts
<1>5. /\ UNCHANGED <<table, style, last_pc, last_new_pc>> /\ frame' = NextFrame
      /\ written' = [written EXCEPT !.frames = Append(written.frames, f)]
  BY DEF write_cldc_stackmap_table, OffsetFields, method_code_map
<1>6. map[Pos(NextFrame)] \in Int /\ NextFrame \in Nat
  BY <1>1, <1>4
<1>7. /\ types \in SUBSET [new : Nat, at : Int]
      /\ \A t \in types : t.new \in 1 .. Last /\ code[t.new].op = "plain" /\ t.at = map[Pos(t.new)]
  BY <1>1, <1>4, VerificationTypes
<1>8. fields \in Seq([width : Nat, val : Int])
  BY <1>1, <1>2, <1>6, FieldsType
<1>9. f.fields = OffsetFields("StackMap", map[Pos(NextFrame)])
  OBVIOUS
<1> HIDE DEF types, fields
<1>10. f \in Frame /\ f.of = NextFrame
  BY <1>6, <1>7, <1>8 DEF Frame, Forms
<1>11. FrameRight(f, map[Pos(NextFrame)])
  BY <1>4, <1>7, <1>9 DEF FrameRight
<1>12. last_pc' = 0 /\ last_new_pc' = 0
  BY <1>1, <1>2, <1>5 DEF FramesInv
<1> HIDE DEF f
<1> QED  BY <1>2, <1>4, <1>5, <1>10, <1>11, <1>12, FrameWritten

\* Every step keeps the invariant.
LEMMA CodeStep == CodeInv /\ [CodeNext]_<<vars, tables>> => CodeInv'
<1> SUFFICES ASSUME CodeInv, [CodeNext]_<<vars, tables>> PROVE CodeInv'
  OBVIOUS
<1>1. CASE Pass /\ UNCHANGED tables
  BY <1>1, CodePassStep
<1>2. CASE /\ UNCHANGED vars
           /\ \/ CodeWritten \/ method_write_exception_table
              \/ write_line_table \/ write_var_table
  BY <1>2, TableStep
<1>3. CASE write_stackmap_table
  BY <1>3, StackMapTableStep
<1>4. CASE write_cldc_stackmap_table /\ UNCHANGED vars
  BY <1>4, CLDCStep
<1>5. CASE (TablesWritten \/ UNCHANGED tables) /\ UNCHANGED vars
  BY <1>5, EndStep
<1> QED  BY <1>1, <1>2, <1>3, <1>4, <1>5 DEF CodeNext, method_write_bytecodes, CodeStopped

-----------------------------------------------------------------------------
\* What the invariant means for the tables.

\* Two bytes keep what fits into them.
LEMMA FittingU2 ==
    ASSUME NEW n \in Nat, n <= U2Max
    PROVE  AsU2(n) = n
<1>1. U2Max + 1 \in Nat /\ n < U2Max + 1
  BY LimitsAssumption
<1> DEFINE m == U2Max + 1
<1> HIDE DEF m
<1>2. n % m = n
  BY <1>1 DEF m
<1> QED  BY <1>2 DEF AsU2, m

\* In a finished method that is representable every position is.
LEMMA RepresentableFacts ==
    ASSUME CodeInv, Representable
    PROVE  /\ InjectionInv /\ pass = "done" /\ outPos <= U2Max /\ U2Max \in Nat /\ Last \in Nat \ {0}
           /\ written.exceptions = ExceptionEntries /\ written.lines = LineEntries
           /\ written.variables = VariableEntries
           /\ \A k \in 1 .. Last + 1 : AsU2(method_code_map(k)) = LandingOf(k)
           /\ \A k \in 1 .. Last + 1 : MapFromZero(k) = IF k = 1 THEN 0 ELSE LandingOf(k)
<1>1. /\ InjectionInv /\ pass = "done" /\ outPos <= U2Max /\ U2Max \in Nat /\ Last \in Nat \ {0}
      /\ Layout
  BY LimitsAssumption, InvFacts DEF CodeInv, Progress, Representable
<1>2. /\ written.exceptions = ExceptionEntries /\ written.lines = LineEntries
      /\ written.variables = VariableEntries
  BY DEF CodeInv, EntriesInv, Representable
<1>3. ASSUME NEW k \in 1 .. Last + 1 PROVE AsU2(method_code_map(k)) = LandingOf(k)
  <2>1. /\ LandingOf(k) = method_code_map(k) /\ LandingOf(k) \in Nat /\ LandingOf(k) <= outPos
        /\ outPos \in Nat
    BY <1>1, DoneFacts DEF method_code_map
  <2>2. LandingOf(k) <= U2Max
    BY <1>1, <2>1
  <2> QED  BY <2>1, <2>2, FittingU2
<1>4. ASSUME NEW k \in 1 .. Last + 1 PROVE MapFromZero(k) = IF k = 1 THEN 0 ELSE LandingOf(k)
  <2>1. Pos(k) = 0 <=> k = 1
    BY <1>1, PositionFacts
  <2>2. LandingOf(k) = method_code_map(k)
    BY <1>1, DoneFacts DEF method_code_map
  <2> QED  BY <2>1, <2>2 DEF MapFromZero
<1> QED  BY <1>1, <1>2, <1>3, <1>4

\* The pieces of some instructions in a row leave no gap and do not overlap with
\* what is around them.
LEMMA PiecesInARow ==
    ASSUME InjectionInv, pass = "done", NEW a \in 1 .. Last + 1, NEW b \in 1 .. Last + 1, a < b
    PROVE  UNION {Piece(k) : k \in a .. b - 1} = LandingOf(a) .. LandingOf(b) - 1
<1> DEFINE f == [k \in 1 .. Last + 1 |-> LandingOf(k)]
<1>1. /\ Last \in Nat /\ Last + 1 \in Nat
      /\ \A k \in 1 .. Last + 1 : LandingOf(k) \in Nat
      /\ \A j, k \in 1 .. Last + 1 : j < k => LandingOf(j) < LandingOf(k)
  BY InvFacts, DoneFacts
<1>2. f \in [1 .. Last + 1 -> Int]
  BY <1>1
<1>3. ASSUME NEW x \in Int, LandingOf(a) <= x, x < LandingOf(b)
      PROVE  \E k \in a .. b - 1 : x \in Piece(k)
  <2>1. f[a] <= x /\ x < f[b]
    BY <1>3
  <2>2. PICK k \in a .. b - 1 : f[k] <= x /\ x < f[k + 1]
    <3> HIDE DEF f
    <3> QED  BY <1>1, <1>2, <2>1, StepsCover
  <2>3. k \in 1 .. Last + 1 /\ k + 1 \in 1 .. Last + 1
    BY <1>1
  <2>4. LandingOf(k) <= x /\ x < LandingOf(k + 1)
    BY <2>2, <2>3
  <2>5. x \in Piece(k)
    BY <1>1, <2>3, <2>4 DEF Piece
  <2> QED  BY <2>5
<1>4. ASSUME NEW k \in a .. b - 1, NEW x \in Piece(k)
      PROVE  x \in LandingOf(a) .. LandingOf(b) - 1
  <2>1. /\ k \in 1 .. Last + 1 /\ k + 1 \in 1 .. Last + 1
        /\ a = k \/ a < k
        /\ k + 1 = b \/ k + 1 < b
    BY <1>1
  <2>2. LandingOf(a) <= LandingOf(k) /\ LandingOf(k + 1) <= LandingOf(b)
    BY <1>1, <2>1
  <2>3. x \in LandingOf(k) .. LandingOf(k + 1) - 1
    BY DEF Piece
  <2> QED  BY <1>1, <2>1, <2>2, <2>3
<1>5. \A x \in LandingOf(a) .. LandingOf(b) - 1 : x \in Int /\ LandingOf(a) <= x /\ x < LandingOf(b)
  BY <1>1
<1> HIDE DEF f
<1>6. UNION {Piece(k) : k \in a .. b - 1} \subseteq LandingOf(a) .. LandingOf(b) - 1
  BY <1>4
<1>7. LandingOf(a) .. LandingOf(b) - 1 \subseteq UNION {Piece(k) : k \in a .. b - 1}
  BY <1>3, <1>5
<1> QED  BY <1>6, <1>7

\* Protected ranges and handlers.
LEMMA ExceptionsMeaning == ASSUME CodeInv PROVE ExceptionsCovered
<1> SUFFICES ASSUME Representable, NEW e \in written.exceptions
             PROVE  /\ e.start .. e.end - 1 = Pieces(e.range)
                    /\ e.handler = LandingOf(Handler)
  BY DEF ExceptionsCovered
<1>1. /\ InjectionInv /\ pass = "done" /\ Last \in Nat \ {0}
      /\ written.exceptions = ExceptionEntries
      /\ \A k \in 1 .. Last + 1 : AsU2(method_code_map(k)) = LandingOf(k)
  BY RepresentableFacts
<1>2. PICK r \in Protected : e = ProtectedEntry(r)
  BY <1>1 DEF ExceptionEntries
<1>3. r.from \in 1 .. Last + 1 /\ r.to \in 1 .. Last + 1 /\ r.from < r.to
  BY <1>1 DEF Protected, Ranges
<1>4. Handler \in 1 .. Last + 1
  BY <1>1 DEF Handler
<1>5. /\ e.start = LandingOf(r.from) /\ e.end = LandingOf(r.to) /\ e.range = r
      /\ e.handler = LandingOf(Handler)
  BY <1>1, <1>2, <1>3, <1>4 DEF ProtectedEntry
<1>6. Pieces(r) = LandingOf(r.from) .. LandingOf(r.to) - 1
  BY <1>1, <1>3, PiecesInARow DEF Pieces
<1> QED  BY <1>5, <1>6

\* Variables and lines.
LEMMA DebugMeaning == ASSUME CodeInv PROVE DebugTablesMatch
<1> SUFFICES ASSUME Representable
             PROVE  /\ \A v \in written.variables :
                           v.start .. v.start + v.length - 1 =
                               Pieces(v.range) \cup (IF v.range.from = 1 THEN EntryCode ELSE {})
                    /\ \A l \in written.lines :
                           l.start = IF l.of = 1 THEN 0 ELSE LandingOf(l.of)
  BY DEF DebugTablesMatch
<1>1. /\ InjectionInv /\ pass = "done" /\ Last \in Nat \ {0} /\ U2Max \in Nat
      /\ written.variables = VariableEntries /\ written.lines = LineEntries
      /\ \A k \in 1 .. Last + 1 : AsU2(method_code_map(k)) = LandingOf(k)
      /\ \A k \in 1 .. Last + 1 : MapFromZero(k) = IF k = 1 THEN 0 ELSE LandingOf(k)
      /\ outPos <= U2Max
  BY RepresentableFacts
<1>2. /\ \A k \in 1 .. Last + 1 : LandingOf(k) \in Nat /\ LandingOf(k) <= outPos
      /\ \A k \in 1 .. Last + 1 : LandingOf(k) = method_code_map(k)
      /\ \A j, k \in 1 .. Last + 1 : j < k => LandingOf(j) < LandingOf(k)
      /\ outPos \in Nat
  BY <1>1, DoneFacts DEF method_code_map
<1>3. ASSUME NEW k \in 1 .. Last + 1
      PROVE  AsU2(MapFromZero(k)) = IF k = 1 THEN 0 ELSE LandingOf(k)
  <2>1. MapFromZero(k) \in Nat /\ MapFromZero(k) <= U2Max
    BY <1>1, <1>2
  <2>2. AsU2(MapFromZero(k)) = MapFromZero(k)
    BY <2>1, FittingU2
  <2> QED  BY <1>1, <2>2
<1>4. ASSUME NEW l \in written.lines PROVE l.start = IF l.of = 1 THEN 0 ELSE LandingOf(l.of)
  <2>1. PICK k \in 1 .. Last : l = [of |-> k, start |-> AsU2(MapFromZero(k))]
    BY <1>1 DEF LineEntries
  <2>2. k \in 1 .. Last + 1
    BY <1>1
  <2> QED  BY <1>3, <2>1, <2>2
<1>5. ASSUME NEW v \in written.variables
      PROVE  v.start .. v.start + v.length - 1 =
                 Pieces(v.range) \cup (IF v.range.from = 1 THEN EntryCode ELSE {})
  <2>1. PICK r \in Ranges : v = VariableEntry(r)
    BY <1>1 DEF VariableEntries
  <2>2. /\ r.from \in 1 .. Last + 1 /\ r.to \in 1 .. Last + 1 /\ r.from < r.to
        /\ 1 \in 1 .. Last + 1
    BY <1>1 DEF Ranges
  <2> DEFINE first == MapFromZero(r.from)
             end == LandingOf(r.to)
  <2>3. first = (IF r.from = 1 THEN 0 ELSE LandingOf(r.from)) /\ AsU2(first) = first
    BY <1>1, <1>3, <2>2
  <2>4. /\ first \in Nat /\ end \in Nat /\ first <= end /\ end <= U2Max
        /\ LandingOf(r.from) \in Nat /\ LandingOf(r.from) < end
    BY <1>1, <1>2, <2>2, <2>3
  <2>5. v.range = r /\ v.start = AsU2(first) /\ v.length = AsU2(method_code_map(r.to) - first)
    BY <2>1 DEF VariableEntry
  <2>6. method_code_map(r.to) = end
    BY <1>2, <2>2
  <2> HIDE DEF first, end
  <2>7. AsU2(end - first) = end - first
    <3>1. end - first \in Nat /\ end - first <= U2Max
      BY <1>1, <2>4
    <3> QED  BY <3>1, FittingU2
  <2>8. v.start = first /\ v.length = end - first
    BY <2>3, <2>5, <2>6, <2>7
  <2>9. v.start .. v.start + v.length - 1 = first .. end - 1
    BY <2>4, <2>8
  <2>10. Pieces(r) = LandingOf(r.from) .. end - 1
    BY <1>1, <2>2, PiecesInARow DEF Pieces, end
  <2>11. CASE r.from = 1
    <3>1. EntryCode = 0 .. LandingOf(r.from) - 1 /\ first = 0
      BY <2>3, <2>11 DEF EntryCode
    <3>2. 0 .. end - 1 = (LandingOf(r.from) .. end - 1) \cup (0 .. LandingOf(r.from) - 1)
      BY <2>4
    <3> QED  BY <2>5, <2>9, <2>10, <2>11, <3>1, <3>2
  <2>12. CASE r.from # 1
    BY <2>3, <2>5, <2>9, <2>10, <2>12
  <2> QED  BY <2>11, <2>12
<1> QED  BY <1>4, <1>5

\* The offset of a frame that is not the first of a StackMapTable is what is
\* between it and the frame before it, less one; it fits into two bytes.
LEMMA OffsetFacts ==
    ASSUME CodeInv, Representable, NEW i \in 1 .. Len(written.frames)
    PROVE  /\ FrameOffset(written.frames, i) \in Nat
           /\ FrameOffset(written.frames, i) <= U2Max
           /\ written.frames[i].of \in 1 .. Last
           /\ map[Pos(written.frames[i].of)] \in Nat
           /\ written.frames[i].fields =
                  <<[width |-> IF written.frames[i].form \in {"same", "stack1"} THEN 1 ELSE 2,
                     val |-> FrameOffset(written.frames, i)]>>
<1> DEFINE F == written.frames
           offset == FrameOffset(F, i)
           here == map[Pos(F[i].of)]
           former == map[Pos(F[i-1].of)]
<1>1. /\ InjectionInv /\ pass = "done" /\ outPos <= U2Max /\ U2Max \in Nat /\ Last \in Nat
  BY RepresentableFacts
<1>2. /\ FramesHold(F) /\ Len(F) \in Nat
  BY DEF CodeInv, FramesInv
<1>3. FrameRight(F[i], offset) /\ (i # 1 => F[i-1].of < F[i].of)
  BY <1>2 DEF FramesHold
<1>4. F[i].of \in 1 .. Last /\ F[i].of \in 1 .. Last + 1
  BY <1>1, <1>3 DEF FrameRight
<1>5. here \in Nat /\ here <= U2Max
  <2>1. LandingOf(F[i].of) = here /\ LandingOf(F[i].of) \in Nat /\ LandingOf(F[i].of) <= outPos
        /\ outPos \in Nat
    BY <1>1, <1>4, DoneFacts
  <2> QED  BY <1>1, <2>1
<1>6. i # 1 => former \in Nat /\ former < here
  <2> SUFFICES ASSUME i # 1 PROVE former \in Nat /\ former < here
    OBVIOUS
  <2>1. i - 1 \in 1 .. Len(F)
    BY <1>2
  <2>2. F[i-1].of \in 1 .. Last + 1
    <3>1. F[i-1].of \in 1 .. Last
      BY <1>2, <2>1 DEF FramesHold, FrameRight
    <3> QED  BY <1>1, <3>1
  <2> QED  BY <1>1, <1>3, <1>4, <2>2, LandingFacts
<1>7. offset \in {here, (here - former) - 1} /\ (i = 1 => offset = here)
  BY DEF FrameOffset
<1>8. offset \in Nat /\ offset <= U2Max
  <2>1. CASE i = 1
    BY <1>5, <1>7, <2>1
  <2>2. CASE i # 1
    <3> HIDE DEF here, former, offset
    <3> QED  BY <1>1, <1>5, <1>6, <1>7, <2>2
  <2> QED  BY <2>1, <2>2
<1>9. AsU2(offset) = offset
  <2> HIDE DEF offset
  <2> QED  BY <1>8, FittingU2
<1>10. ~ (new_code_len > U2Max)
  BY <1>1, DoneFacts DEF new_code_len
<1>11. F[i].fields = OffsetFields(F[i].form, offset)
  BY <1>3 DEF FrameRight
<1> HIDE DEF offset
<1>12. OffsetFields(F[i].form, offset) =
           <<[width |-> IF F[i].form \in {"same", "stack1"} THEN 1 ELSE 2, val |-> offset]>>
  BY <1>9, <1>10 DEF OffsetFields, writeUoffset
<1> QED  BY <1>4, <1>5, <1>8, <1>11, <1>12 DEF offset

\* The verifier adds the offsets up to where the frame's instruction landed.
LEMMA PositionsAddUp ==
    ASSUME CodeInv, Representable, NEW i \in 1 .. Len(written.frames)
    PROVE  FramePosition(i) = map[Pos(written.frames[i].of)]
<1> DEFINE F == written.frames
           offset(n) == F[n].fields[1].val
           here(n) == map[Pos(F[n].of)]
           IsAt(g) == g = [n \in 1 .. i |-> IF n = 1 THEN offset(1) ELSE g[n-1] + offset(n) + 1]
           at == CHOOSE g : IsAt(g)
           h == [n \in 1 .. i |-> here(n)]
<1>1. i \in Nat /\ \A n \in 1 .. i : n \in 1 .. Len(F)
  BY DEF CodeInv, FramesInv
<1>2. \A n \in 1 .. i : offset(n) = FrameOffset(F, n) /\ here(n) \in Nat
  <2> SUFFICES ASSUME NEW n \in 1 .. i PROVE offset(n) = FrameOffset(F, n) /\ here(n) \in Nat
    OBVIOUS
  <2> DEFINE width == IF F[n].form \in {"same", "stack1"} THEN 1 ELSE 2
             there == FrameOffset(F, n)
  <2>1. F[n].fields = <<[width |-> width, val |-> there]>> /\ here(n) \in Nat
    BY <1>1, OffsetFacts
  <2> HIDE DEF width, there
  <2>2. F[n].fields[1].val = there
    BY <2>1
  <2> QED  BY <2>1, <2>2 DEF there
<1>3. CASE style = "StackMap"
  <2>1. FrameOffset(F, i) = here(i)
    BY <1>3 DEF FrameOffset
  <2>2. FramePosition(i) = offset(i)
    BY <1>3 DEF FramePosition
  <2> QED  BY <1>1, <1>2, <2>1, <2>2
<1>4. CASE style # "StackMap"
  <2>1. /\ offset(1) = here(1)
        /\ \A n \in 2 .. i : here(n) = here(n-1) + offset(n) + 1
    <3>1. 1 \in 1 .. i
      BY <1>1
    <3>2. FrameOffset(F, 1) = here(1)
      BY DEF FrameOffset
    <3>3. ASSUME NEW n \in 2 .. i PROVE here(n) = here(n-1) + offset(n) + 1
      <4>1. n \in 1 .. i /\ n - 1 \in 1 .. i /\ n # 1
        BY <1>1
      <4>2. FrameOffset(F, n) = here(n) - here(n-1) - 1
        BY <1>4, <4>1 DEF FrameOffset
      <4>3. offset(n) = here(n) - here(n-1) - 1 /\ here(n) \in Int /\ here(n-1) \in Int
        BY <1>2, <4>1, <4>2
      <4> HIDE DEF offset, here
      <4> QED  BY <4>3
    <3> QED  BY <1>2, <3>1, <3>2, <3>3
  <2> HIDE DEF offset, here
  <2>2. IsAt(h)
    <3>1. \A n \in 1 .. i : h[n] = IF n = 1 THEN offset(1) ELSE h[n-1] + offset(n) + 1
      <4> TAKE n \in 1 .. i
      <4>1. n = 1 \/ (n \in 2 .. i /\ n - 1 \in 1 .. i)
        BY <1>1
      <4> QED  BY <2>1, <4>1
    <3> QED  BY <3>1
  <2>3. IsAt(at)
    <3> HIDE DEF IsAt, h
    <3> QED  BY <2>2
  <2>4. FramePosition(i) = at[i]
    BY <1>4 DEF FramePosition, offset
  <2> HIDE DEF at, h
  <2> DEFINE S == {n \in Nat : at[n] = here(n)}
  <2>5. 1 \in S
    BY <1>1, <2>1, <2>3
  <2>6. ASSUME NEW n \in 1 .. i - 1, n \in S PROVE n + 1 \in S
    <3>1. n + 1 \in 1 .. i /\ n + 1 \in 2 .. i /\ n + 1 # 1 /\ (n + 1) - 1 = n
      BY <1>1
    <3>2. at[n + 1] = at[n] + offset(n + 1) + 1
      BY <2>3, <3>1
    <3>3. here(n + 1) = here(n) + offset(n + 1) + 1
      BY <2>1, <3>1
    <3> QED  BY <2>6, <3>1, <3>2, <3>3
  <2>7. \A n \in 1 .. i : n \in S
    <3> HIDE DEF S
    <3> QED  BY <1>1, <2>5, <2>6, IntervalInduction
  <2>8. at[i] = here(i)
    BY <1>1, <2>7
  <2> QED  BY <2>4, <2>8 DEF here
<1> QED  BY <1>3, <1>4

\* Frames.
LEMMA FramesMeaning == ASSUME CodeInv PROVE FramesLand
<1> SUFFICES ASSUME Representable, NEW i \in DOMAIN written.frames
             PROVE  /\ FramePosition(i) = LandingOf(written.frames[i].of)
                    /\ Len(written.frames[i].fields) = 1
                    /\ IF written.frames[i].form \in {"same", "stack1"}
                         THEN written.frames[i].fields[1].val \in 0 .. SameLimit
                         ELSE written.frames[i].fields[1].width = 2
                    /\ \A t \in written.frames[i].types : t.at = OpcodeAt(t.new)
  BY DEF FramesLand
<1> DEFINE f == written.frames[i]
           offset == FrameOffset(written.frames, i)
<1>1. /\ InjectionInv /\ pass = "done" /\ Last \in Nat \ {0}
  BY RepresentableFacts
<1>2. i \in 1 .. Len(written.frames)
  BY DEF CodeInv, FramesInv
<1>3. FrameRight(f, offset)
  BY <1>2 DEF CodeInv, FramesInv, FramesHold
<1>4. /\ offset \in Nat /\ f.of \in 1 .. Last
      /\ f.fields = <<[width |-> IF f.form \in {"same", "stack1"} THEN 1 ELSE 2, val |-> offset]>>
  BY <1>2, OffsetFacts
<1>5. FramePosition(i) = LandingOf(f.of)
  <2>1. f.of \in 1 .. Last + 1
    BY <1>1, <1>4
  <2>2. LandingOf(f.of) = map[Pos(f.of)]
    BY <1>1, <2>1, DoneFacts
  <2> QED  BY <1>2, <2>2, PositionsAddUp
<1>6. ASSUME NEW t \in f.types PROVE t.at = OpcodeAt(t.new)
  <2>1. t.new \in 1 .. Last /\ code[t.new].op = "plain" /\ t.at = map[Pos(t.new)]
    BY <1>3 DEF FrameRight
  <2>2. t.new \in 1 .. Last + 1
    BY <1>1, <2>1
  <2>3. LandingOf(t.new) = map[Pos(t.new)] /\ LandingOf(t.new) \in Nat
    BY <1>1, <2>2, DoneFacts
  <2>4. Before(t.new) = 0
    <3>1. InjectionsInv /\ Layout
      BY <1>1, InvFacts
    <3>2. before_injection_code(code[t.new].op) = 0
      BY <2>1, <3>1, InjectionLengths
    <3> QED  BY <2>2, <3>1, <3>2 DEF InjectionsInv
  <2>5. OpcodeAt(t.new) = LandingOf(t.new) + Before(t.new)
    BY DEF OpcodeAt, Before
  <2> QED  BY <2>1, <2>3, <2>4, <2>5
<1>7. f.form \in {"same", "stack1"} => offset \in 0 .. SameLimit
  <2>1. f.form \in {"same", "stack1"} => offset <= SameLimit
    BY <1>3 DEF FrameRight
  <2> HIDE DEF offset
  <2> QED  BY <1>4, <2>1, LimitsAssumption
<1> HIDE DEF f, offset
<1>8. Len(f.fields) = 1 /\ f.fields[1].val = offset
      /\ (f.form \notin {"same", "stack1"} => f.fields[1].width = 2)
  BY <1>4
<1>9. IF f.form \in {"same", "stack1"} THEN f.fields[1].val \in 0 .. SameLimit
      ELSE f.fields[1].width = 2
  BY <1>7, <1>8
<1> QED  BY <1>5, <1>6, <1>8, <1>9 DEF f

\* Types.
LEMMA CodeTypes == ASSUME CodeInv PROVE CodeTypeOK
<1>1. InjectionInv /\ Progress /\ FramesInv /\ Last \in Nat
  BY InvFacts DEF CodeInv
<1>2. frame \in 0 .. Last
  BY <1>1 DEF FramesInv
<1>3. last_pc \in Nat /\ last_new_pc \in Nat
  <2>1. CASE frame = 0
    BY <1>1, <2>1 DEF FramesInv
  <2>2. CASE frame # 0
    <3>1. frame \in 1 .. Last + 1
      BY <1>1, <1>2, <2>2
    <3>2. Pos(frame) \in Nat /\ map[Pos(frame)] \in Nat
      <4>1. Pos(frame) \in 0 .. code_len /\ code_len \in Nat
        BY <1>1, <3>1, InvFacts
      <4> QED  BY <1>1, <3>1, <4>1, LandingFacts
    <3> QED  BY <1>1, <3>2 DEF FramesInv
  <2> QED  BY <2>1, <2>2
<1> QED  BY <1>1, <1>2, <1>3, InvariantTypes DEF CodeTypeOK, Progress

-----------------------------------------------------------------------------
\* Results.

\* The inductive invariant: the map agrees with the code, the tables are the
\* input's, and every frame is stored relative to the one before it.
THEOREM TablesAgree == CodeSpec => []CodeInv
<1> QED  BY InitCode, CodeStep, PTL DEF CodeSpec

\* The byte code keeps its properties while the tables are written, and none of
\* the assertions on frames fails either.
THEOREM CodeStaysRight ==
    CodeSpec => [](MapMatchesOutput /\ JumpsLand /\ SwitchesAligned /\ NeverFatal)
<1>1. CodeInv => MapMatchesOutput /\ JumpsLand /\ SwitchesAligned /\ NeverFatal
  BY InvariantMeans DEF CodeInv
<1> QED  BY <1>1, TablesAgree, PTL

\* Every variable has its type; no frame is before the start of the code.
THEOREM TableTypes == CodeSpec => []CodeTypeOK
<1> QED  BY TablesAgree, CodeTypes, PTL

\* A protected range holds exactly the instructions it held, with what is
\* injected for them, and its handler is where the handler went.
THEOREM RangesStayProtected == CodeSpec => []ExceptionsCovered
<1> QED  BY TablesAgree, ExceptionsMeaning, PTL

\* Variables live and lines start where they did.
THEOREM DebuggersFindTheirWay == CodeSpec => []DebugTablesMatch
<1> QED  BY TablesAgree, DebugMeaning, PTL

\* Every frame is found where its instruction's jumps land.
THEOREM FramesLandRight == CodeSpec => []FramesLand
<1> QED  BY TablesAgree, FramesMeaning, PTL
=============================================================================
