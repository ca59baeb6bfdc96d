----------------------- MODULE MethodInjectionProofs ------------------------
(***************************************************************************)
(* The three passes of method_inject_and_write_code agree with each other, *)
(* for every method, all lengths of injected code and any branch limit.    *)
(*                                                                         *)
(* InjectionInv is inductive.  Its heart is MapInv: what the map displaces *)
(* an instruction by is always exactly what is injected and widened        *)
(* before it, whatever has been injected and widened so far.               *)
(***************************************************************************)
EXTENDS MethodInjection, IntegerLemmas, SequenceTheorems

-----------------------------------------------------------------------------
\* The inductive invariant.

\* The opcodes of a method are where their lengths put them.
Layout ==
    /\ method \in Methods /\ ValidCode(code)
    /\ start \in [1 .. Last + 1 -> Nat]
    /\ Pos(1) = 0
    /\ \A k \in 1 .. Last : Pos(k + 1) = Pos(k) + opcode_length(code[k].op, Pos(k))

\* The lengths of what is injected at instruction k: what a jump to it does not
\* run, and what it does.
Behind(k) == LengthOf(injections[Pos(k)], {"entry", "after"})
Before(k) == LengthOf(injections[Pos(k)], {"before"})
AllAt(k) == LengthOf(injections[Pos(k)], Kinds)

\* The first pass has dealt with instruction k.
Dealt(k) == pass # "entry" /\ (pass = "inject" => k < cur)
\* The second pass has found nothing to change, up to instruction k.
Settled(k) == pass \in {"adjust", "write", "done"} /\ (pass = "adjust" => k < cur)
\* The third pass has written instruction k.
IsWritten(k) == pass \in {"write", "done"} /\ (pass = "write" => k < cur)

\* What is injected and the types of the variables.
InjectedPiece == [kind : Kinds, len : Nat]
Shapes ==
    /\ pass \in {"entry", "inject", "adjust", "write", "done"}
    /\ cur \in 1 .. Last + 1
    /\ pass = "entry" => cur = 1
    /\ map \in [0 .. code_len -> Int]
    /\ widening \in [0 .. code_len -> {-3, -2, -1, 0, 1, 2, 3, 5}]
    /\ injections \in [0 .. code_len -> Seq(InjectedPiece)]
    /\ outPos \in Int

\* What the first pass injects and where.
InjectionsInv ==
    \A k \in 1 .. Last + 1 :
        /\ AllAt(k) = Behind(k) + Before(k)
        /\ Before(k) = IF k <= Last /\ Dealt(k) THEN before_injection_code(code[k].op) ELSE 0
        /\ Behind(k) = IF k = 1 THEN IF pass = "entry" THEN 0 ELSE entry_injection_code
                       ELSE IF Dealt(k - 1) THEN after_injection_code(code[k-1].op) ELSE 0

\* The length of instruction k as it is widened.
WidenedLength(k) == opcode_length(code[k].op, Pos(k)) + widening[Pos(k)]

\* What widenings there are; a switch is padded to one to four bytes.
WideningInv ==
    \A k \in 1 .. Last :
        CASE code[k].op = "if" -> widening[Pos(k)] \in {0, 5}
          [] code[k].op = "goto" -> widening[Pos(k)] \in {0, 2}
          [] code[k].op = "switch" -> WidenedLength(k) - SwitchBody \in 1 .. 4
          [] OTHER -> widening[Pos(k)] = 0

\* What is inside an instruction moves along with it.
Interior(m) ==
    \A k \in 1 .. Last, p \in 0 .. code_len :
        Pos(k) <= p /\ p < Pos(k + 1) => m[p] = m[Pos(k)] + (p - Pos(k))

\* The map displaces each instruction by what is injected and widened before it.
MapInv ==
    /\ map[0] = Behind(1)
    /\ \A k \in 1 .. Last :
           map[Pos(k + 1)] = map[Pos(k)] + WidenedLength(k) + Before(k) + Behind(k + 1)
    /\ Interior(map)

\* Where the second pass has been nothing has to move.
SettledInv == \A k \in 1 .. Last : Settled(k) => Needed(k) = widening[Pos(k)]

\* The third pass is where the map says, and so is what it has written.
OutputInv ==
    /\ outPos = CASE pass = "write" -> map[Pos(cur)] - Behind(cur)
                  [] pass = "done" -> map[code_len]
                  [] OTHER -> 0
    /\ DOMAIN history.landing = 1 .. Last
    /\ \A k \in 1 .. Last : IsWritten(k) => history.landing[k] = map[Pos(k)]
    /\ \A j \in history.jumps :
           /\ j.src \in 1 .. Last /\ code[j.src].op \in Jumps
           /\ j.at + j.delta = map[Pos(code[j.src].target)]
    /\ \A operands \in history.switches : operands % 4 = 0
    /\ pass \notin {"write", "done"} => history.jumps = {} /\ history.switches = {}

\* The inductive invariant of the three passes.
InjectionInv ==
    Layout /\ Shapes /\ InjectionsInv /\ WideningInv /\ MapInv /\ SettledInv /\ OutputInv

-----------------------------------------------------------------------------
\* Operators.

\* A boundary is one to four bytes behind the opcode, at a multiple of four.
LEMMA BoundaryFacts ==
    ASSUME NEW n \in Int
    PROVE  /\ NEXT_4BYTE_BOUNDARY(n) \in Int
           /\ NEXT_4BYTE_BOUNDARY(n) - n \in 1 .. 4
           /\ NEXT_4BYTE_BOUNDARY(n) % 4 = 0
<1> DEFINE q == (n + 4) \div 4
<1>1. q \in Int /\ 4 * q <= n + 4 /\ n + 4 < 4 * q + 4
  OBVIOUS
<1>2. NEXT_4BYTE_BOUNDARY(n) = q * 4
  BY DEF NEXT_4BYTE_BOUNDARY
<1> HIDE DEF q
<1>3. (q * 4) % 4 = 0
  BY <1>1
<1> QED  BY <1>1, <1>2, <1>3

\* Every instruction has a length.
LEMMA OpcodeLengthType ==
    ASSUME NEW op \in Opcode, NEW at \in Nat
    PROVE  opcode_length(op, at) \in Nat \ {0}
<1>1. /\ NEXT_4BYTE_BOUNDARY(at) - at \in 1 .. 4
      /\ SwitchBody \in Nat
  BY BoundaryFacts, LengthsAssumption
<1> QED  BY <1>1 DEF opcode_length, Opcode, ShortBranch

\* An offset that fits is written as it is.
LEMMA FittingOffset ==
    ASSUME NEW delta \in Int, Fits(delta)
    PROVE  AsShort(delta) = delta
<1>1. JumpLimit \in Nat /\ JumpLimit >= 8
  BY LengthsAssumption
<1>2. delta + JumpLimit + 1 \in 0 .. 2 * (JumpLimit + 1) - 1
  BY <1>1 DEF Fits
<1>3. (delta + JumpLimit + 1) % (2 * (JumpLimit + 1)) = delta + JumpLimit + 1
  <2> DEFINE x == delta + JumpLimit + 1
             y == 2 * (JumpLimit + 1)
  <2>1. x \in Nat /\ y \in Nat /\ x < y
    BY <1>1, <1>2
  <2> HIDE DEF x, y
  <2>2. x % y = x
    BY <2>1
  <2> QED  BY <2>2 DEF x, y
<1> QED  BY <1>1, <1>3 DEF AsShort

\* What one piece adds to the length of the pieces of some kinds.
Share(piece, kinds) == IF piece.kind \in kinds THEN piece.len ELSE 0

\* LengthOf is the sum of the shares.
LEMMA LengthOfSums ==
    ASSUME NEW pieces \in Seq(InjectedPiece), NEW kinds
    PROVE  \E g : /\ Sums(g, Len(pieces), [n \in 1 .. Len(pieces) |-> Share(pieces[n], kinds)])
                  /\ LengthOf(pieces, kinds) = g[Len(pieces)]
<1> DEFINE w == [n \in 1 .. Len(pieces) |-> Share(pieces[n], kinds)]
           IsSum(g) == g = [n \in 0 .. Len(pieces) |->
                             IF n = 0 THEN 0
                             ELSE g[n-1] + (IF pieces[n].kind \in kinds THEN pieces[n].len ELSE 0)]
           s == CHOOSE g : IsSum(g)
<1>1. w \in [1 .. Len(pieces) -> Int] /\ Len(pieces) \in Nat
  <2>1. \A n \in 1 .. Len(pieces) : pieces[n] \in InjectedPiece
    OBVIOUS
  <2>2. \A n \in 1 .. Len(pieces) : Share(pieces[n], kinds) \in Int
    BY <2>1 DEF InjectedPiece, Share
  <2> QED  BY <2>2
<1>2. PICK h : /\ Sums(h, Len(pieces), w)
               /\ h = [k \in 0 .. Len(pieces) |-> IF k = 0 THEN 0 ELSE h[k-1] + w[k]]
  <2> HIDE DEF w
  <2> QED  BY <1>1, SumExists
<1>3. IsSum(h)
  <2>1. \A k \in 1 .. Len(pieces) : w[k] = IF pieces[k].kind \in kinds THEN pieces[k].len ELSE 0
    BY DEF Share
  <2> HIDE DEF w
  <2> QED  BY <1>2, <2>1
<1>4. IsSum(s)
  <2> HIDE DEF IsSum
  <2> QED  BY <1>3
<1>5. Sums(s, Len(pieces), w)
  <2>1. \A k \in 1 .. Len(pieces) : w[k] = IF pieces[k].kind \in kinds THEN pieces[k].len ELSE 0
    BY DEF Share
  <2> DEFINE S == {k \in Nat : s[k] = h[k]}
  <2> HIDE DEF w, s
  <2>2. 0 \in S
    BY <1>3, <1>4
  <2>3. ASSUME NEW k \in 0 .. Len(pieces) - 1, k \in S PROVE k + 1 \in S
    <3>1. k + 1 \in 0 .. Len(pieces) /\ k + 1 # 0 /\ (k + 1) - 1 = k
      BY <1>1
    <3> QED  BY <3>1, <2>3, <1>3, <1>4
  <2>4. \A k \in 0 .. Len(pieces) : k \in S
    <3> HIDE DEF S
    <3> QED  BY <2>2, <2>3, <1>1, IntervalInduction
  <2>5. s = h
    BY <2>4, <1>3, <1>4
  <2> QED  BY <2>5, <1>2
<1>6. LengthOf(pieces, kinds) = s[Len(pieces)]
  BY DEF LengthOf
<1> HIDE DEF s
<1> QED  BY <1>5, <1>6

\* Nothing injected has no length.
LEMMA LengthOfEmpty ==
    ASSUME NEW kinds
    PROVE  LengthOf(<< >>, kinds) = 0
<1>1. << >> \in Seq(InjectedPiece) /\ Len(<< >>) = 0
  OBVIOUS
<1>2. PICK g : /\ Sums(g, 0, [n \in 1 .. Len(<< >>) |-> Share(<< >>[n], kinds)])
               /\ LengthOf(<< >>, kinds) = g[0]
  BY <1>1, LengthOfSums
<1> QED  BY <1>2 DEF Sums

\* One more piece adds its share.
LEMMA LengthOfAppend ==
    ASSUME NEW pieces \in Seq(InjectedPiece), NEW piece \in InjectedPiece, NEW kinds
    PROVE  /\ LengthOf(pieces, kinds) \in Int
           /\ LengthOf(Append(pieces, piece), kinds) = LengthOf(pieces, kinds) + Share(piece, kinds)
<1> DEFINE longer == Append(pieces, piece)
           v == [n \in 1 .. Len(pieces) |-> Share(pieces[n], kinds)]
           w == [n \in 1 .. Len(longer) |-> Share(longer[n], kinds)]
<1>1. /\ longer \in Seq(InjectedPiece) /\ Len(pieces) \in Nat
      /\ Len(longer) = Len(pieces) + 1 /\ longer[Len(longer)] = piece
      /\ \A n \in 1 .. Len(pieces) : longer[n] = pieces[n]
  OBVIOUS
<1>2. PICK g : Sums(g, Len(pieces), v) /\ LengthOf(pieces, kinds) = g[Len(pieces)]
  BY LengthOfSums
<1>3. PICK h : Sums(h, Len(longer), w) /\ LengthOf(longer, kinds) = h[Len(longer)]
  <2> HIDE DEF longer
  <2> QED  BY <1>1, LengthOfSums
<1>4. \A n \in 1 .. Len(pieces) : v[n] = w[n]
  BY <1>1
<1>5. w[Len(longer)] = Share(piece, kinds)
  BY <1>1
<1> HIDE DEF v, w, longer
<1>6. g[Len(pieces)] = h[Len(pieces)]
  BY <1>1, <1>2, <1>3, <1>4, SumsAgree
<1>7. h[Len(longer)] = h[Len(longer) - 1] + w[Len(longer)] /\ Len(longer) - 1 = Len(pieces)
  BY <1>1, <1>3 DEF Sums
<1>8. g[Len(pieces)] \in Int
  BY <1>1, <1>2 DEF Sums
<1> QED  BY <1>2, <1>3, <1>5, <1>6, <1>7, <1>8 DEF longer

-----------------------------------------------------------------------------
\* The layout of the method.

\* The instructions and their targets.
LEMMA CodeFacts ==
    ASSUME Layout
    PROVE  /\ method.objectInit \in BOOLEAN
           /\ code \in Seq([op : Opcode, target : Nat])
           /\ Last \in Nat \ {0}
           /\ \A k \in 1 .. Last : code[k].op \in Opcode
           /\ \A k \in 1 .. Last : code[k].op \in Jumps => code[k].target \in 1 .. Last
           /\ code[Last].op # "newarray"
<1>1. method \in Methods
  BY DEF Layout
<1>2. /\ method.code \in Seq([op : Opcode, target : Nat]) /\ Len(method.code) > 0
      /\ \A k \in DOMAIN method.code :
             method.code[k].op \in Jumps => method.code[k].target \in DOMAIN method.code
      /\ method.objectInit \in BOOLEAN
  BY <1>1, MethodsAssumption
<1>3. /\ DOMAIN method.code = 1 .. Len(method.code) /\ Len(method.code) \in Nat
      /\ \A k \in 1 .. Len(method.code) : method.code[k] \in [op : Opcode, target : Nat]
  <2>1. ASSUME NEW c \in Seq([op : Opcode, target : Nat])
        PROVE  /\ DOMAIN c = 1 .. Len(c) /\ Len(c) \in Nat
               /\ \A k \in 1 .. Len(c) : c[k] \in [op : Opcode, target : Nat]
    <3>1. DOMAIN c = 1 .. Len(c) /\ Len(c) \in Nat
      OBVIOUS
    <3> QED  BY <3>1, ElementOfSeq
  <2> QED  BY <1>2, <2>1
<1>4. code[Last].op \in {"return", "goto", "goto_w", "switch"}
  BY DEF Layout, ValidCode, Last, code
<1> QED  BY <1>2, <1>3, <1>4 DEF code, Last

\* Later instructions have later positions, all of them in the code.
LEMMA PositionFacts ==
    ASSUME Layout
    PROVE  /\ code_len \in Nat /\ 0 \in 0 .. code_len
           /\ \A k \in 1 .. Last + 1 : Pos(k) \in 0 .. code_len
           /\ \A j, k \in 1 .. Last + 1 : j < k <=> Pos(j) < Pos(k)
           /\ \A j, k \in 1 .. Last + 1 : Pos(j) = Pos(k) => j = k
           /\ \A k \in 1 .. Last + 1 : Pos(k) = 0 <=> k = 1
<1>1. Last \in Nat \ {0} /\ \A k \in 1 .. Last : code[k].op \in Opcode
  BY CodeFacts
<1>2. start \in [1 .. Last + 1 -> Nat] /\ start[1] = 0
  BY DEF Layout, Pos
<1>3. \A k \in 1 .. Last : start[k] < start[k + 1]
  <2> TAKE k \in 1 .. Last
  <2>1. start[k + 1] = start[k] + opcode_length(code[k].op, start[k]) /\ start[k] \in Nat
    BY <1>1, <1>2 DEF Layout, Pos
  <2>2. opcode_length(code[k].op, start[k]) \in Nat \ {0}
    BY <1>1, <2>1, OpcodeLengthType
  <2> QED  BY <2>1, <2>2
<1>4. start \in [1 .. Last + 1 -> Int] /\ Last + 1 \in Nat /\ (Last + 1) - 1 = Last
  BY <1>1, <1>2
<1>5. \A j, k \in 1 .. Last + 1 : j < k => start[j] < start[k]
  BY <1>3, <1>4, StepsIncrease
<1>6. \A k \in 1 .. Last + 1 : start[k] \in Nat
  BY <1>2
<1>7. \A j, k \in 1 .. Last + 1 : j < k <=> start[j] < start[k]
  <2> TAKE j, k \in 1 .. Last + 1
  <2>1. j < k \/ j = k \/ k < j
    BY <1>1
  <2> QED  BY <2>1, <1>5, <1>6
<1>8. Last + 1 \in 1 .. Last + 1 /\ 1 \in 1 .. Last + 1
  BY <1>1
<1>9. \A k \in 1 .. Last + 1 : start[k] <= start[Last + 1]
  <2> TAKE k \in 1 .. Last + 1
  <2>1. k < Last + 1 \/ k = Last + 1
    BY <1>1
  <2> QED  BY <2>1, <1>5, <1>6, <1>8
<1>10. \A j, k \in 1 .. Last + 1 : start[j] = start[k] => j = k
  <2> TAKE j, k \in 1 .. Last + 1
  <2>1. j < k \/ j = k \/ k < j
    BY <1>1
  <2> QED  BY <2>1, <1>5, <1>6
<1> QED  BY <1>2, <1>6, <1>7, <1>8, <1>9, <1>10 DEF Pos, code_len

\* A position is inside exactly one instruction or at the end.
LEMMA InsideFacts ==
    ASSUME Layout, NEW p \in 0 .. code_len
    PROVE  p = code_len \/ \E k \in 1 .. Last : Pos(k) <= p /\ p < Pos(k + 1)
<1>1. Last \in Nat \ {0}
  BY CodeFacts
<1>2. start \in [1 .. Last + 1 -> Int] /\ start[1] = 0 /\ code_len = start[Last + 1] /\ code_len \in Nat
  BY PositionFacts DEF Layout, Pos, code_len
<1>3. SUFFICES ASSUME p # code_len PROVE \E k \in 1 .. Last : start[k] <= p /\ p < start[k + 1]
  BY DEF Pos
<1>4. /\ Last + 1 \in Nat /\ 1 \in 1 .. Last + 1 /\ Last + 1 \in 1 .. Last + 1
      /\ 1 < Last + 1 /\ p \in Int /\ start[1] <= p /\ p < start[Last + 1]
  BY <1>1, <1>2, <1>3
<1>5. \E k \in 1 .. (Last + 1) - 1 : start[k] <= p /\ p < start[k + 1]
  BY <1>2, <1>4, StepsCover
<1> QED  BY <1>1, <1>5

\* Nothing moves by nothing.
LEMMA NoShift ==
    ASSUME NEW n \in Nat, NEW m \in [0 .. n -> Int], NEW at
    PROVE  adjust_map(m, at, 0) = m
BY DEF adjust_map

\* adjust_map moves instruction j and what follows it.
LEMMA ShiftFacts ==
    ASSUME Layout, NEW j \in 1 .. Last + 1, NEW offset \in Int,
           NEW m \in [0 .. code_len -> Int]
    PROVE  /\ adjust_map(m, Pos(j), offset) \in [0 .. code_len -> Int]
           /\ \A k \in 1 .. Last + 1 : k < j => adjust_map(m, Pos(j), offset)[Pos(k)] = m[Pos(k)]
           /\ \A k \in 1 .. Last + 1 :
                  j <= k => adjust_map(m, Pos(j), offset)[Pos(k)] = m[Pos(k)] + offset
           /\ \A p \in 0 .. code_len :
                  adjust_map(m, Pos(j), offset)[p] = IF p >= Pos(j) THEN m[p] + offset ELSE m[p]
<1>1. adjust_map(m, Pos(j), offset) \in [0 .. code_len -> Int]
  BY DEF adjust_map
<1>2. \A p \in 0 .. code_len :
          adjust_map(m, Pos(j), offset)[p] = IF p >= Pos(j) THEN m[p] + offset ELSE m[p]
  BY DEF adjust_map
<1>3. /\ Last \in Nat /\ code_len \in Nat
      /\ \A k \in 1 .. Last + 1 : Pos(k) \in 0 .. code_len
      /\ \A k \in 1 .. Last + 1 : k < j <=> Pos(k) < Pos(j)
  BY CodeFacts, PositionFacts
<1>4. \A k \in 1 .. Last + 1 : k < j => ~ (Pos(k) >= Pos(j))
  BY <1>3
<1>5. \A k \in 1 .. Last + 1 : j <= k => Pos(k) >= Pos(j)
  BY <1>3
<1> QED  BY <1>1, <1>2, <1>3, <1>4, <1>5

\* A map that is shifted from instruction j on, instruction by instruction.
ShiftedFrom(new, m, j, offset) ==
    /\ new \in [0 .. code_len -> Int]
    /\ \A k \in 1 .. Last + 1 : k < j => new[Pos(k)] = m[Pos(k)]
    /\ \A k \in 1 .. Last + 1 : j <= k => new[Pos(k)] = m[Pos(k)] + offset

\* adjust_map at an instruction shifts the map from that instruction on.
LEMMA Shifted ==
    ASSUME Layout, NEW j \in 1 .. Last + 1, NEW offset \in Int,
           NEW m \in [0 .. code_len -> Int]
    PROVE  ShiftedFrom(adjust_map(m, Pos(j), offset), m, j, offset)
<1>1. adjust_map(m, Pos(j), offset) \in [0 .. code_len -> Int]
  BY ShiftFacts
<1>2. \A k \in 1 .. Last + 1 : k < j => adjust_map(m, Pos(j), offset)[Pos(k)] = m[Pos(k)]
  BY ShiftFacts
<1>3. \A k \in 1 .. Last + 1 : j <= k => adjust_map(m, Pos(j), offset)[Pos(k)] = m[Pos(k)] + offset
  BY ShiftFacts
<1> QED  BY <1>1, <1>2, <1>3 DEF ShiftedFrom

\* Positions satisfies its recursion.
LEMMA PositionsUnfold ==
    ASSUME NEW c \in Seq([op : Opcode, target : Nat])
    PROVE  /\ Positions(c) \in [1 .. Len(c) + 1 -> Nat]
           /\ Positions(c)[1] = 0
           /\ \A k \in 1 .. Len(c) :
                  Positions(c)[k + 1] = Positions(c)[k] + opcode_length(c[k].op, Positions(c)[k])
<1>1. Len(c) \in Nat /\ \A k \in 1 .. Len(c) : c[k].op \in Opcode
  <2>1. \A k \in 1 .. Len(c) : c[k] \in [op : Opcode, target : Nat]
    BY ElementOfSeq
  <2> QED  BY <2>1
<1> DEFINE step == [k \in Nat |-> [v \in Nat |->
                      IF k \in 2 .. Len(c) + 1 THEN v + opcode_length(c[k-1].op, v) ELSE 0]]
           IsPos(g) == g = [k \in 1 .. Len(c) + 1 |->
                              IF k = 1 THEN 0 ELSE g[k-1] + opcode_length(c[k-1].op, g[k-1])]
           p == CHOOSE g : IsPos(g)
<1>2. step \in [Nat -> [Nat -> Nat]]
  <2>1. \A k \in Nat, v \in Nat :
            (IF k \in 2 .. Len(c) + 1 THEN v + opcode_length(c[k-1].op, v) ELSE 0) \in Nat
    <3> TAKE k \in Nat, v \in Nat
    <3>1. CASE k \in 2 .. Len(c) + 1
      <4>1. k - 1 \in 1 .. Len(c)
        BY <1>1, <3>1
      <4>2. opcode_length(c[k-1].op, v) \in Nat \ {0}
        BY <1>1, <4>1, OpcodeLengthType
      <4> QED  BY <3>1, <4>2
    <3>2. CASE k \notin 2 .. Len(c) + 1
      BY <3>2
    <3> QED  BY <3>1, <3>2
  <2> QED  BY <2>1
<1>3. PICK g : Iterates(g, 1, Len(c) + 1, Nat, 0, step)
  <2> HIDE DEF step
  <2>1. 0 \in Nat /\ 1 \in Nat /\ Len(c) + 1 \in Nat /\ 1 <= Len(c) + 1
    BY <1>1
  <2> QED  BY <1>2, <2>1, IterationExists
<1>4. g \in [1 .. Len(c) + 1 -> Nat] /\ g[1] = 0
  BY <1>3 DEF Iterates
<1>5. \A k \in 2 .. Len(c) + 1 : g[k] = g[k-1] + opcode_length(c[k-1].op, g[k-1])
  <2> TAKE k \in 2 .. Len(c) + 1
  <2>1. k \in 1 + 1 .. Len(c) + 1 /\ k \in Nat /\ k - 1 \in 1 .. Len(c) + 1
    BY <1>1
  <2>2. g[k-1] \in Nat
    BY <1>4, <2>1
  <2>3. g[k] = step[k][g[k-1]]
    <3> HIDE DEF step
    <3> QED  BY <1>3, <2>1 DEF Iterates
  <2>4. step[k][g[k-1]] = g[k-1] + opcode_length(c[k-1].op, g[k-1])
    BY <2>1, <2>2
  <2> QED  BY <2>3, <2>4
<1> HIDE DEF step
<1>6. IsPos(g)
  <2>1. \A k \in 1 .. Len(c) + 1 :
            g[k] = IF k = 1 THEN 0 ELSE g[k-1] + opcode_length(c[k-1].op, g[k-1])
    <3> TAKE k \in 1 .. Len(c) + 1
    <3>1. k = 1 \/ k \in 2 .. Len(c) + 1
      BY <1>1
    <3> QED  BY <3>1, <1>4, <1>5
  <2> QED  BY <1>4, <2>1
<1>7. IsPos(p)
  <2> HIDE DEF IsPos
  <2> QED  BY <1>6
<1>8. Positions(c) = p
  BY DEF Positions
<1> HIDE DEF p
<1>9. /\ DOMAIN p = 1 .. Len(c) + 1 /\ p[1] = 0
      /\ \A k \in 1 .. Len(c) : p[k + 1] = p[k] + opcode_length(c[k].op, p[k])
  <2>1. DOMAIN p = 1 .. Len(c) + 1 /\ p[1] = 0
    BY <1>1, <1>7
  <2>2. ASSUME NEW k \in 1 .. Len(c)
        PROVE  p[k + 1] = p[k] + opcode_length(c[k].op, p[k])
    <3>1. k + 1 \in 1 .. Len(c) + 1 /\ k + 1 # 1 /\ (k + 1) - 1 = k
      BY <1>1
    <3> QED  BY <1>7, <3>1
  <2> QED  BY <2>1, <2>2
<1>10. \A k \in 1 .. Len(c) + 1 : p[k] \in Nat
  <2> DEFINE S == {k \in Nat : p[k] \in Nat}
  <2>1. 1 \in S
    BY <1>9
  <2>2. ASSUME NEW k \in 1 .. (Len(c) + 1) - 1, k \in S PROVE k + 1 \in S
    <3>1. k \in 1 .. Len(c) /\ p[k] \in Nat /\ k + 1 \in Nat
      BY <1>1, <2>2
    <3>2. opcode_length(c[k].op, p[k]) \in Nat \ {0}
      BY <1>1, <3>1, OpcodeLengthType
    <3>3. p[k + 1] \in Nat
      BY <1>9, <3>1, <3>2
    <3> QED  BY <3>1, <3>3
  <2>3. 1 \in Nat /\ Len(c) + 1 \in Nat
    BY <1>1
  <2> HIDE DEF S
  <2>4. \A k \in 1 .. Len(c) + 1 : k \in S
    BY <2>1, <2>2, <2>3, IntervalInduction
  <2> QED  BY <2>4 DEF S
<1>11. p \in [1 .. Len(c) + 1 -> Nat]
  <2>1. p = [k \in 1 .. Len(c) + 1 |-> p[k]]
    BY <1>7
  <2> QED  BY <2>1, <1>10
<1> QED  BY <1>8, <1>9, <1>11

\* Moving whole instructions keeps their insides together.
LEMMA InteriorShift ==
    ASSUME Layout, NEW j \in 1 .. Last + 1, NEW offset \in Int,
           NEW m \in [0 .. code_len -> Int], Interior(m)
    PROVE  Interior(adjust_map(m, Pos(j), offset))
<1> SUFFICES ASSUME NEW k \in 1 .. Last, NEW p \in 0 .. code_len, Pos(k) <= p, p < Pos(k + 1)
             PROVE  adjust_map(m, Pos(j), offset)[p] =
                        adjust_map(m, Pos(j), offset)[Pos(k)] + (p - Pos(k))
  BY DEF Interior
<1>1. Last \in Nat \ {0} /\ code_len \in Nat
  BY CodeFacts, PositionFacts
<1>2. k \in 1 .. Last + 1 /\ k + 1 \in 1 .. Last + 1
  BY <1>1
<1>3. Pos(k) \in 0 .. code_len /\ Pos(k + 1) \in 0 .. code_len /\ Pos(j) \in 0 .. code_len
  BY <1>2, PositionFacts
<1>4. m[p] = m[Pos(k)] + (p - Pos(k)) /\ m[p] \in Int /\ m[Pos(k)] \in Int
  BY <1>3 DEF Interior
<1>5. \A q \in 0 .. code_len :
          adjust_map(m, Pos(j), offset)[q] = IF q >= Pos(j) THEN m[q] + offset ELSE m[q]
  BY ShiftFacts
<1>6. p >= Pos(j) <=> Pos(k) >= Pos(j)
  <2>1. CASE j <= k
    <3>1. j < k \/ j = k
      BY <1>1, <1>2, <2>1
    <3>2. Pos(j) < Pos(k) \/ Pos(j) = Pos(k)
      BY <3>1, <1>2, PositionFacts
    <3> QED  BY <3>2, <1>3
  <2>2. CASE k < j
    <3>1. k + 1 < j \/ k + 1 = j
      BY <1>1, <1>2, <2>2
    <3>2. (Pos(k + 1) < Pos(j) \/ Pos(k + 1) = Pos(j)) /\ Pos(k) < Pos(j)
      BY <3>1, <1>2, <2>2, PositionFacts
    <3> QED  BY <3>2, <1>3
  <2> QED  BY <2>1, <2>2, <1>1, <1>2
<1>7. CASE p >= Pos(j)
  <2>1. /\ adjust_map(m, Pos(j), offset)[p] = m[p] + offset
        /\ adjust_map(m, Pos(j), offset)[Pos(k)] = m[Pos(k)] + offset
    BY <1>3, <1>5, <1>6, <1>7
  <2> QED  BY <1>3, <1>4, <2>1
<1>8. CASE ~ (p >= Pos(j))
  <2>1. /\ adjust_map(m, Pos(j), offset)[p] = m[p]
        /\ adjust_map(m, Pos(j), offset)[Pos(k)] = m[Pos(k)]
    BY <1>3, <1>5, <1>6, <1>8
  <2> QED  BY <1>4, <2>1
<1> QED  BY <1>7, <1>8

\* What new injections are when a piece is added to those of instruction j.
PieceAdded(new, inj, j, kind, len) ==
    /\ new \in [0 .. code_len -> Seq(InjectedPiece)]
    /\ \A k \in 1 .. Last + 1 : k # j => new[Pos(k)] = inj[Pos(k)]
    /\ \A kinds \in SUBSET Kinds :
           LengthOf(new[Pos(j)], kinds) = LengthOf(inj[Pos(j)], kinds)
                                            + (IF kind \in kinds THEN len ELSE 0)

\* inject_bytecodes adds a piece to what is injected at instruction j; no piece
\* is added when there is nothing to inject.
LEMMA InjectFacts ==
    ASSUME Layout, NEW inj, inj \in [0 .. code_len -> Seq(InjectedPiece)],
           NEW j, j \in 1 .. Last + 1, NEW kind, kind \in Kinds, NEW len, len \in Nat, NEW new,
           new = IF len = 0 THEN inj ELSE inject_bytecodes(inj, Pos(j), kind, len)
    PROVE  PieceAdded(new, inj, j, kind, len)
<1> DEFINE piece == [kind |-> kind, len |-> len]
<1>1. piece \in InjectedPiece
  BY DEF InjectedPiece
<1>2. Pos(j) \in 0 .. code_len /\ inj[Pos(j)] \in Seq(InjectedPiece)
  BY PositionFacts
<1>3. \A kinds : LengthOf(inj[Pos(j)], kinds) \in Int
  <2> HIDE DEF piece
  <2> QED  BY <1>1, <1>2, LengthOfAppend
<1>4. CASE len = 0
  <2>1. new = inj
    BY <1>4
  <2>2. ASSUME NEW kinds
        PROVE  LengthOf(inj[Pos(j)], kinds) = LengthOf(inj[Pos(j)], kinds)
                                                + (IF kind \in kinds THEN len ELSE 0)
    BY <1>3, <1>4
  <2> QED  BY <2>1, <2>2 DEF PieceAdded
<1>5. CASE len # 0
  <2>1. Append(inj[Pos(j)], piece) \in Seq(InjectedPiece)
    <3> HIDE DEF piece
    <3> QED  BY <1>1, <1>2
  <2>2. new = [inj EXCEPT ![Pos(j)] = Append(inj[Pos(j)], piece)]
    BY <1>5 DEF inject_bytecodes
  <2>3. new \in [0 .. code_len -> Seq(InjectedPiece)]
    <3> HIDE DEF piece
    <3> QED  BY <2>1, <2>2
  <2>4. \A k \in 1 .. Last + 1 : k # j => new[Pos(k)] = inj[Pos(k)]
    <3> TAKE k \in 1 .. Last + 1
    <3>1. Pos(k) \in 0 .. code_len /\ (Pos(k) = Pos(j) => k = j)
      BY PositionFacts
    <3> HIDE DEF piece
    <3> QED  BY <2>2, <3>1
  <2>5. new[Pos(j)] = Append(inj[Pos(j)], piece)
    <3> HIDE DEF piece
    <3> QED  BY <1>2, <2>2
  <2>6. \A kinds : LengthOf(Append(inj[Pos(j)], piece), kinds) =
                       LengthOf(inj[Pos(j)], kinds) + Share(piece, kinds)
    <3> HIDE DEF piece
    <3> QED  BY <1>1, <1>2, LengthOfAppend
  <2>7. \A kinds : Share(piece, kinds) = IF kind \in kinds THEN len ELSE 0
    BY DEF Share
  <2> HIDE DEF piece
  <2>8. \A kinds : LengthOf(new[Pos(j)], kinds) = LengthOf(inj[Pos(j)], kinds)
                                                  + (IF kind \in kinds THEN len ELSE 0)
    BY <2>5, <2>6, <2>7
  <2> QED  BY <2>3, <2>4, <2>8 DEF PieceAdded
<1> QED  BY <1>4, <1>5

\* The lengths of the injected code.
LEMMA InjectionLengths ==
    ASSUME Layout
    PROVE  /\ entry_injection_code \in Nat /\ 2 * entry_injection_code <= LARGEST_INJECTION
           /\ \A op : /\ before_injection_code(op) \in Nat
                      /\ 2 * before_injection_code(op) <= LARGEST_INJECTION
                      /\ op # "return" => before_injection_code(op) = 0
           /\ \A op : /\ after_injection_code(op) \in Nat
                      /\ 2 * after_injection_code(op) <= LARGEST_INJECTION
                      /\ op # "newarray" => after_injection_code(op) = 0
           /\ LARGEST_INJECTION \in Nat
<1>1. /\ LARGEST_INJECTION \in Nat
      /\ EntryLen \in Nat /\ NewarrayLen \in Nat /\ ReturnLen \in Nat
      /\ 2 * EntryLen <= LARGEST_INJECTION /\ 2 * NewarrayLen <= LARGEST_INJECTION
      /\ 2 * ReturnLen <= LARGEST_INJECTION
      /\ method.callLen \in Nat /\ 2 * method.callLen <= LARGEST_INJECTION
  BY LengthsAssumption DEF Layout
<1>2. method.objectInit \in BOOLEAN
  BY CodeFacts
<1> QED  BY <1>1, <1>2 DEF entry_injection_code, before_injection_code, after_injection_code

\* The method stays as it is.
LEMMA LayoutStep ==
    ASSUME Layout, UNCHANGED <<method, start>>
    PROVE  Layout' /\ code' = code /\ Last' = Last /\ code_len' = code_len
BY DEF Layout, code, Last, Pos, code_len

-----------------------------------------------------------------------------
\* The steps.

\* method_init.
LEMMA InitInjection == Init => InjectionInv
<1> SUFFICES ASSUME Init PROVE InjectionInv
  OBVIOUS
<1>1. method \in Methods /\ ValidCode(code) /\ start = Positions(code)
  BY DEF Init, code
<1>2. code \in Seq([op : Opcode, target : Nat])
  BY <1>1, MethodsAssumption DEF code
<1>3. Layout
  BY <1>1, <1>2, PositionsUnfold DEF Layout, Last, Pos
<1>4. Last \in Nat \ {0} /\ \A k \in 1 .. Last : code[k].op \in Opcode
  BY <1>3, CodeFacts
<1>5. /\ code_len \in Nat /\ Pos(1) = 0
      /\ \A k \in 1 .. Last + 1 : Pos(k) \in 0 .. code_len
  BY <1>3, PositionFacts DEF Layout
<1>6. Shapes
  <2>1. [p \in 0 .. code_len |-> << >>] \in [0 .. code_len -> Seq(InjectedPiece)]
    OBVIOUS
  <2> QED  BY <1>4, <1>5, <2>1 DEF Init, Shapes
<1>7. \A k \in 1 .. Last + 1 : \A kinds : LengthOf(injections[Pos(k)], kinds) = 0
  <2>1. \A k \in 1 .. Last + 1 : injections[Pos(k)] = << >>
    BY <1>5 DEF Init
  <2> QED  BY <2>1, LengthOfEmpty
<1>8. \A k \in 1 .. Last + 1 : Behind(k) = 0 /\ Before(k) = 0 /\ AllAt(k) = 0
  BY <1>7 DEF Behind, Before, AllAt
<1>9. InjectionsInv
  <2>1. pass = "entry" /\ \A k : ~ Dealt(k)
    BY DEF Init, Dealt
  <2>2. \A k \in 1 .. Last + 1 : AllAt(k) = Behind(k) + Before(k)
    BY <1>8
  <2> QED  BY <1>8, <2>1, <2>2 DEF InjectionsInv
<1>10. \A k \in 1 .. Last : k \in 1 .. Last + 1 /\ k + 1 \in 1 .. Last + 1
  BY <1>4
<1>11. \A k \in 1 .. Last : widening[Pos(k)] = 0
  BY <1>5, <1>10 DEF Init
<1>12. WideningInv
  <2> SUFFICES ASSUME NEW k \in 1 .. Last, code[k].op = "switch"
               PROVE  WidenedLength(k) - SwitchBody \in 1 .. 4
    BY <1>11 DEF WideningInv
  <2>1. Pos(k) \in Int /\ SwitchBody \in Nat
    BY <1>5, <1>10, LengthsAssumption
  <2>2. opcode_length(code[k].op, Pos(k)) = NEXT_4BYTE_BOUNDARY(Pos(k)) - Pos(k) + SwitchBody
    BY DEF opcode_length, ShortBranch
  <2> QED  BY <1>11, <2>1, <2>2, BoundaryFacts DEF WidenedLength
<1>13. MapInv
  <2>1. \A p \in 0 .. code_len : map[p] = p
    BY DEF Init
  <2>2. map[0] = Behind(1)
    BY <1>4, <1>5, <1>8, <2>1
  <2>3. ASSUME NEW k \in 1 .. Last
        PROVE  map[Pos(k + 1)] = map[Pos(k)] + WidenedLength(k) + Before(k) + Behind(k + 1)
    <3>1. Pos(k) \in Nat /\ opcode_length(code[k].op, Pos(k)) \in Nat
      BY <1>4, <1>5, <1>10, OpcodeLengthType
    <3>2. WidenedLength(k) = opcode_length(code[k].op, Pos(k))
      BY <1>11, <3>1 DEF WidenedLength
    <3>3. Pos(k + 1) = Pos(k) + opcode_length(code[k].op, Pos(k))
      BY <1>3 DEF Layout
    <3>4. map[Pos(k + 1)] = Pos(k + 1) /\ map[Pos(k)] = Pos(k)
      BY <1>5, <1>10, <2>1
    <3> QED  BY <1>8, <1>10, <3>1, <3>2, <3>3, <3>4
  <2>4. Interior(map)
    BY <1>5, <1>10, <2>1 DEF Interior
  <2> QED  BY <2>2, <2>3, <2>4 DEF MapInv
<1>14. SettledInv
  BY DEF Init, SettledInv, Settled
<1>15. OutputInv
  BY DEF Init, OutputInv, IsWritten
<1> QED  BY <1>3, <1>6, <1>9, <1>12, <1>13, <1>14, <1>15 DEF InjectionInv

\* Behind and before from one state to the next.
LEMMA LengthsOfStep ==
    ASSUME Layout, UNCHANGED <<method, start>>
    PROVE  \A k : /\ Behind(k)' = LengthOf(injections'[Pos(k)], {"entry", "after"})
                  /\ Before(k)' = LengthOf(injections'[Pos(k)], {"before"})
                  /\ AllAt(k)' = LengthOf(injections'[Pos(k)], Kinds)
BY DEF Behind, Before, AllAt, Pos, Kinds

\* The sets of kinds lengths are taken of.
LEMMA KindSets ==
    /\ {"entry", "after"} \in SUBSET Kinds
    /\ {"before"} \in SUBSET Kinds
    /\ Kinds \in SUBSET Kinds
BY DEF Kinds

\* Facts about the invariant that every step uses.
LEMMA InvFacts ==
    ASSUME InjectionInv
    PROVE  /\ Layout /\ Shapes /\ InjectionsInv /\ WideningInv /\ MapInv /\ SettledInv /\ OutputInv
           /\ Last \in Nat \ {0} /\ code_len \in Nat
           /\ \A k \in 1 .. Last + 1 : Pos(k) \in 0 .. code_len
           /\ \A k \in 1 .. Last + 1 : injections[Pos(k)] \in Seq(InjectedPiece)
           /\ \A k \in 1 .. Last + 1 : map[Pos(k)] \in Int
           /\ \A k \in 1 .. Last + 1 : Behind(k) \in Nat /\ Before(k) \in Nat
           /\ \A k \in 1 .. Last : WidenedLength(k) \in Int
<1>1. Layout /\ Shapes /\ InjectionsInv /\ WideningInv /\ MapInv /\ SettledInv /\ OutputInv
  BY DEF InjectionInv
<1>2. Last \in Nat \ {0} /\ code_len \in Nat /\ \A k \in 1 .. Last + 1 : Pos(k) \in 0 .. code_len
  BY <1>1, CodeFacts, PositionFacts
<1>3. \A k \in 1 .. Last + 1 : injections[Pos(k)] \in Seq(InjectedPiece) /\ map[Pos(k)] \in Int
  BY <1>1, <1>2 DEF Shapes
<1>4. ASSUME NEW k \in 1 .. Last + 1 PROVE Behind(k) \in Nat /\ Before(k) \in Nat
  <2>1. Behind(k) \in {0, entry_injection_code, after_injection_code(code[k-1].op)}
    BY <1>1 DEF InjectionsInv
  <2>2. Before(k) \in {0, before_injection_code(code[k].op)}
    BY <1>1 DEF InjectionsInv
  <2> QED  BY <1>1, <2>1, <2>2, InjectionLengths
<1>5. ASSUME NEW k \in 1 .. Last PROVE WidenedLength(k) \in Int
  <2>1. k \in 1 .. Last + 1
    BY <1>2
  <2>2. Pos(k) \in 0 .. code_len /\ code[k].op \in Opcode
    BY <1>1, <1>2, <2>1, CodeFacts
  <2>4. Pos(k) \in Nat /\ widening[Pos(k)] \in Int
    <3>1. widening \in [0 .. code_len -> {-3, -2, -1, 0, 1, 2, 3, 5}]
      BY <1>1 DEF Shapes
    <3>2. widening[Pos(k)] \in {-3, -2, -1, 0, 1, 2, 3, 5}
      BY <2>2, <3>1
    <3> QED  BY <1>2, <2>2, <3>2
  <2>3. opcode_length(code[k].op, Pos(k)) \in Nat \ {0}
    BY <2>2, <2>4, OpcodeLengthType
  <2> QED  BY <2>3, <2>4 DEF WidenedLength
<1> QED  BY <1>1, <1>2, <1>3, <1>4, <1>5

\* In the first pass nothing is widened or written.
LEMMA FirstPassKeeps ==
    ASSUME InjectionInv, pass \in {"entry", "inject"}, pass' \in {"entry", "inject"},
           UNCHANGED <<method, start, widening, outPos, history>>
    PROVE  Layout' /\ WideningInv' /\ SettledInv' /\ OutputInv'
<1>1. Layout /\ WideningInv /\ OutputInv
  BY InvFacts
<1>2. Layout' /\ code' = code /\ Last' = Last
  BY <1>1, LayoutStep
<1>3. WideningInv'
  BY <1>1, <1>2 DEF WideningInv, WidenedLength, Pos
<1>4. SettledInv'
  BY DEF SettledInv, Settled
<1>5. OutputInv'
  BY <1>1, <1>2 DEF OutputInv, IsWritten
<1> QED  BY <1>2, <1>3, <1>4, <1>5

\* The injection at the entry.
LEMMA EntryStep ==
    ASSUME InjectionInv, InjectEntry
    PROVE  InjectionInv'
<1> DEFINE len == entry_injection_code
<1>1. /\ Layout /\ Shapes /\ InjectionsInv /\ MapInv
      /\ Last \in Nat \ {0} /\ code_len \in Nat
      /\ \A k \in 1 .. Last + 1 : Pos(k) \in 0 .. code_len
      /\ \A k \in 1 .. Last + 1 : map[Pos(k)] \in Int
      /\ \A k \in 1 .. Last : WidenedLength(k) \in Int
  BY InvFacts
<1>2. 1 \in 1 .. Last + 1 /\ Pos(1) = 0
  BY <1>1 DEF Layout
<1>3. len \in Nat /\ 2 * len <= LARGEST_INJECTION /\ LARGEST_INJECTION \in Nat
  BY <1>1, InjectionLengths
<1>4. pass = "entry" /\ cur = 1
  BY <1>1 DEF InjectEntry, Shapes
<1>5. \A k \in 1 .. Last + 1 : Behind(k) = 0 /\ Before(k) = 0 /\ AllAt(k) = 0
  BY <1>1, <1>4 DEF InjectionsInv, Dealt
<1>6. LengthOf(injections[0], Kinds) = 0
  BY <1>1, <1>2, <1>5 DEF AllAt
<1>7. CanInject(injections, 0, len)
  BY <1>1, <1>3, <1>6 DEF CanInject
<1>8. /\ pass' = "inject" /\ UNCHANGED <<method, start, cur, widening, outPos, history>>
      /\ injections' = IF len = 0 THEN injections
                       ELSE inject_bytecodes(injections, Pos(1), "entry", len)
      /\ map' = adjust_map(map, Pos(1), len)
  <2>1. adjust_map(map, 0, 0) = map
    BY <1>1, NoShift DEF Shapes
  <2> QED  BY <1>2, <1>3, <1>7, <2>1 DEF InjectEntry
<1>9. Layout' /\ WideningInv' /\ SettledInv' /\ OutputInv'
  BY <1>4, <1>8, FirstPassKeeps
<1>10. code' = code /\ Last' = Last /\ code_len' = code_len /\ \A k : Pos(k)' = Pos(k)
  BY <1>1, <1>8, LayoutStep DEF Pos
<1> HIDE DEF len
<1>11. PieceAdded(injections', injections, 1, "entry", len)
  <2>1. "entry" \in Kinds /\ injections \in [0 .. code_len -> Seq(InjectedPiece)]
    BY <1>1 DEF Kinds, Shapes
  <2> QED  BY <1>1, <1>2, <1>3, <1>8, <2>1, InjectFacts
<1>12. /\ \A k \in 1 .. Last + 1 : k # 1 => Before(k)' = 0 /\ Behind(k)' = 0 /\ AllAt(k)' = 0
       /\ Before(1)' = 0 /\ Behind(1)' = len /\ AllAt(1)' = len
  <2>1. "entry" \in Kinds /\ "entry" \notin {"before"} /\ "entry" \in {"entry", "after"}
    BY DEF Kinds
  <2>2. \A k : /\ Behind(k)' = LengthOf(injections'[Pos(k)], {"entry", "after"})
               /\ Before(k)' = LengthOf(injections'[Pos(k)], {"before"})
               /\ AllAt(k)' = LengthOf(injections'[Pos(k)], Kinds)
    BY <1>1, <1>8, LengthsOfStep
  <2>3. \A k \in 1 .. Last + 1 : k # 1 => Before(k)' = 0 /\ Behind(k)' = 0 /\ AllAt(k)' = 0
    BY <1>5, <1>11, <2>2 DEF Before, Behind, AllAt, PieceAdded
  <2>4. /\ LengthOf(injections[Pos(1)], {"before"}) = 0 /\ LengthOf(injections[Pos(1)], Kinds) = 0
        /\ LengthOf(injections[Pos(1)], {"entry", "after"}) = 0
    BY <1>2, <1>5 DEF Before, Behind, AllAt
  <2>5. Before(1)' = 0 /\ Behind(1)' = len /\ AllAt(1)' = len
    BY <1>3, <1>11, <2>1, <2>2, <2>4, KindSets DEF PieceAdded
  <2> QED  BY <2>3, <2>5
<1>13. InjectionsInv'
  <2>1. \A k \in 1 .. Last + 1 : ~ Dealt(k)'
    BY <1>4, <1>8 DEF Dealt
  <2>2. \A k \in 1 .. Last + 1 : k # 1 => k - 1 \in 1 .. Last + 1
    BY <1>1
  <2>3. pass' # "entry" /\ entry_injection_code' = len
    BY <1>8 DEF entry_injection_code, len
  <2>4. \A k \in 1 .. Last + 1 : AllAt(k)' = Behind(k)' + Before(k)' /\ Before(k)' = 0
    BY <1>3, <1>12
  <2>5. \A k \in 1 .. Last + 1 : Behind(k)' = IF k = 1 THEN len ELSE 0
    BY <1>12
  <2> QED  BY <1>10, <2>1, <2>2, <2>3, <2>4, <2>5 DEF InjectionsInv
<1>14. /\ map' \in [0 .. code_len -> Int] /\ Interior(map')
       /\ \A k \in 1 .. Last + 1 : map'[Pos(k)] = map[Pos(k)] + len
  <2>1. map \in [0 .. code_len -> Int] /\ len \in Int /\ Interior(map)
    BY <1>1, <1>3 DEF Shapes, MapInv
  <2>2. \A k \in 1 .. Last + 1 : 1 <= k
    BY <1>1
  <2>3. ShiftedFrom(map', map, 1, len)
    BY <1>1, <1>2, <1>8, <2>1, Shifted
  <2>4. Interior(map')
    BY <1>1, <1>2, <1>8, <2>1, InteriorShift
  <2> QED  BY <2>2, <2>3, <2>4 DEF ShiftedFrom
<1>15. MapInv'
  <2>1. map'[0] = Behind(1)'
    BY <1>1, <1>2, <1>3, <1>5, <1>12, <1>14 DEF MapInv
  <2>2. ASSUME NEW k \in 1 .. Last
        PROVE  map'[Pos(k + 1)] = map'[Pos(k)] + WidenedLength(k)' + Before(k)' + Behind(k + 1)'
    <3>1. k \in 1 .. Last + 1 /\ k + 1 \in 1 .. Last + 1 /\ k + 1 # 1
      BY <1>1
    <3>2. WidenedLength(k)' = WidenedLength(k)
      BY <1>8, <1>10 DEF WidenedLength
    <3>3. map[Pos(k + 1)] = map[Pos(k)] + WidenedLength(k) + 0 + 0
      BY <1>1, <1>5, <3>1 DEF MapInv
    <3>4. map[Pos(k)] \in Int /\ map[Pos(k + 1)] \in Int /\ WidenedLength(k) \in Int
      BY <1>1, <3>1
    <3>5. Before(k)' = 0 /\ Behind(k + 1)' = 0
      BY <1>12, <3>1
    <3>6. map'[Pos(k)] = map[Pos(k)] + len /\ map'[Pos(k + 1)] = map[Pos(k + 1)] + len
      BY <1>14, <3>1
    <3> QED  BY <1>3, <3>2, <3>3, <3>4, <3>5, <3>6
  <2>3. Interior(map)'
    BY <1>10, <1>14 DEF Interior
  <2> QED  BY <1>10, <2>1, <2>2, <2>3 DEF MapInv
<1>16. Shapes'
  BY <1>1, <1>4, <1>8, <1>10, <1>11, <1>14 DEF Shapes, PieceAdded
<1> QED  BY <1>9, <1>13, <1>15, <1>16 DEF InjectionInv

\* One instruction of the first pass.
LEMMA OpcodeStep ==
    ASSUME InjectionInv, inject_for_opcode, NEW c, c = cur
    PROVE  InjectionInv'
<1> DEFINE before == before_injection_code(code[c].op)
           after == after_injection_code(code[c].op)
           one == IF before = 0 THEN injections
                  ELSE inject_bytecodes(injections, Pos(c), "before", before)
           two == IF after = 0 THEN one
                  ELSE inject_bytecodes(one, Pos(c + 1), "after", after)
<1>1. /\ Layout /\ Shapes /\ InjectionsInv /\ MapInv
      /\ Last \in Nat \ {0} /\ code_len \in Nat
      /\ \A k \in 1 .. Last + 1 : Pos(k) \in 0 .. code_len
      /\ \A k \in 1 .. Last + 1 : map[Pos(k)] \in Int
      /\ \A k \in 1 .. Last + 1 : Behind(k) \in Nat /\ Before(k) \in Nat
      /\ \A k \in 1 .. Last : WidenedLength(k) \in Int
  BY InvFacts
<1>2. pass = "inject" /\ c \in 1 .. Last /\ cur = c
  BY <1>1 DEF inject_for_opcode, Shapes
<1>3. /\ c \in 1 .. Last + 1 /\ c + 1 \in 1 .. Last + 1 /\ c + 1 # 1 /\ c # c + 1
      /\ c \in Nat
  BY <1>1, <1>2
<1>4. /\ before \in Nat /\ 2 * before <= LARGEST_INJECTION
      /\ after \in Nat /\ 2 * after <= LARGEST_INJECTION
      /\ LARGEST_INJECTION \in Nat
  BY <1>1, InjectionLengths
<1>5. \A k : Dealt(k) <=> k < c
  BY <1>2 DEF Dealt
<1>6. Before(c) = 0 /\ AllAt(c) = Behind(c)
  BY <1>1, <1>3, <1>5 DEF InjectionsInv
<1>7. Before(c + 1) = 0 /\ Behind(c + 1) = 0 /\ AllAt(c + 1) = 0
  <2>1. ~ Dealt(c + 1) /\ ~ Dealt((c + 1) - 1)
    BY <1>3, <1>5
  <2> QED  BY <1>1, <1>3, <2>1 DEF InjectionsInv
<1>8. before > 0 => AllAt(c) + before <= LARGEST_INJECTION
  <2>1. Behind(c) \in {entry_injection_code, 0, after_injection_code(code[c - 1].op)}
    BY <1>1, <1>3 DEF InjectionsInv
  <2>2. /\ after_injection_code(code[c - 1].op) \in Nat
        /\ 2 * after_injection_code(code[c - 1].op) <= LARGEST_INJECTION
        /\ entry_injection_code \in Nat /\ 2 * entry_injection_code <= LARGEST_INJECTION
    BY <1>1, InjectionLengths
  <2> HIDE DEF before
  <2> QED  BY <1>4, <1>6, <2>1, <2>2
<1>9. before > 0 => CanInject(injections, Pos(c), before)
  <2>1. Pos(c) <= code_len
    BY <1>1, <1>3
  <2> HIDE DEF before
  <2> QED  BY <1>4, <1>8, <2>1 DEF CanInject, AllAt
<1>10. PieceAdded(one, injections, c, "before", before)
  <2>1. "before" \in Kinds /\ injections \in [0 .. code_len -> Seq(InjectedPiece)]
    BY <1>1 DEF Kinds, Shapes
  <2>2. one = IF before = 0 THEN injections
              ELSE inject_bytecodes(injections, Pos(c), "before", before)
    OBVIOUS
  <2> HIDE DEF before, one
  <2> QED  BY <1>1, <1>3, <1>4, <2>1, <2>2, InjectFacts
<1>11. CanInject(one, Pos(c + 1), after)
  <2> HIDE DEF one, after
  <2>1. one[Pos(c + 1)] = injections[Pos(c + 1)]
    BY <1>3, <1>10 DEF PieceAdded
  <2>2. LengthOf(one[Pos(c + 1)], Kinds) = 0
    BY <1>7, <2>1 DEF AllAt
  <2>3. Pos(c + 1) <= code_len
    BY <1>1, <1>3
  <2> QED  BY <1>4, <2>2, <2>3 DEF CanInject
<1>12. PieceAdded(two, one, c + 1, "after", after)
  <2>1. "after" \in Kinds /\ one \in [0 .. code_len -> Seq(InjectedPiece)]
    BY <1>10 DEF Kinds, PieceAdded
  <2>2. two = IF after = 0 THEN one ELSE inject_bytecodes(one, Pos(c + 1), "after", after)
    OBVIOUS
  <2> HIDE DEF after, two, one
  <2> QED  BY <1>1, <1>3, <1>4, <2>1, <2>2, InjectFacts
<1>13. /\ injections' = two /\ cur' = c + 1
       /\ map' = adjust_map(adjust_map(map, Pos(c + 1), before), Pos(c + 1), after)
       /\ UNCHANGED <<method, start, pass, widening, outPos, history>>
  <2>1. \/ /\ before > 0 => CanInject(injections, Pos(c), before)
           /\ after > 0 => CanInject(one, Pos(c + 1), after)
           /\ injections' = two /\ cur' = c + 1
           /\ map' = MapAfter(MapBefore(map, c, before), c, after)
           /\ UNCHANGED <<method, start, pass, widening, outPos, history>>
        \/ /\ ~ ((before > 0 => CanInject(injections, Pos(c), before))
                  /\ (after > 0 => CanInject(one, Pos(c + 1), after)))
           /\ Fatal
    BY DEF inject_for_opcode
  <2> HIDE DEF before, after, one, two
  <2> QED  BY <1>9, <1>11, <2>1 DEF MapAfter, MapBefore
<1> HIDE DEF before, after, one, two
<1>14. Layout' /\ WideningInv' /\ SettledInv' /\ OutputInv'
  BY <1>2, <1>13, FirstPassKeeps
<1>15. code' = code /\ Last' = Last /\ code_len' = code_len /\ \A k : Pos(k)' = Pos(k)
  BY <1>1, <1>13, LayoutStep DEF Pos
<1>16. /\ \A k \in 1 .. Last + 1 : k # c /\ k # c + 1 =>
              Before(k)' = Before(k) /\ Behind(k)' = Behind(k) /\ AllAt(k)' = AllAt(k)
       /\ Before(c)' = before /\ Behind(c)' = Behind(c) /\ AllAt(c)' = AllAt(c) + before
       /\ Before(c + 1)' = 0 /\ Behind(c + 1)' = after /\ AllAt(c + 1)' = after
  <2>1. /\ "before" \in Kinds /\ "before" \in {"before"} /\ "before" \notin {"entry", "after"}
        /\ "after" \in Kinds /\ "after" \notin {"before"} /\ "after" \in {"entry", "after"}
    BY DEF Kinds
  <2>2. \A k : /\ Behind(k)' = LengthOf(injections'[Pos(k)], {"entry", "after"})
               /\ Before(k)' = LengthOf(injections'[Pos(k)], {"before"})
               /\ AllAt(k)' = LengthOf(injections'[Pos(k)], Kinds)
    BY <1>1, <1>13, LengthsOfStep
  <2>3. ASSUME NEW k \in 1 .. Last + 1, k # c, k # c + 1
        PROVE  Before(k)' = Before(k) /\ Behind(k)' = Behind(k) /\ AllAt(k)' = AllAt(k)
    <3>1. injections'[Pos(k)] = injections[Pos(k)]
      BY <1>10, <1>12, <1>13, <2>3 DEF PieceAdded
    <3> QED  BY <2>2, <3>1 DEF Before, Behind, AllAt
  <2>4. injections'[Pos(c)] = one[Pos(c)] /\ one[Pos(c + 1)] = injections[Pos(c + 1)]
    BY <1>3, <1>10, <1>12, <1>13 DEF PieceAdded
  <2>5. /\ LengthOf(one[Pos(c)], {"before"}) = Before(c) + before
        /\ LengthOf(one[Pos(c)], {"entry", "after"}) = Behind(c) + 0
        /\ LengthOf(one[Pos(c)], Kinds) = AllAt(c) + before
    BY <1>10, <2>1, KindSets DEF PieceAdded, Before, Behind, AllAt
  <2>6. /\ LengthOf(injections'[Pos(c + 1)], {"before"}) = Before(c + 1) + 0
        /\ LengthOf(injections'[Pos(c + 1)], {"entry", "after"}) = Behind(c + 1) + after
        /\ LengthOf(injections'[Pos(c + 1)], Kinds) = AllAt(c + 1) + after
    BY <1>12, <1>13, <2>1, <2>4, KindSets DEF PieceAdded, Before, Behind, AllAt
  <2>7. Before(c)' = before /\ Behind(c)' = Behind(c) /\ AllAt(c)' = AllAt(c) + before
    BY <1>1, <1>3, <1>4, <1>6, <2>2, <2>4, <2>5
  <2>8. Before(c + 1)' = 0 /\ Behind(c + 1)' = after /\ AllAt(c + 1)' = after
    BY <1>4, <1>7, <2>2, <2>6
  <2> QED  BY <2>3, <2>7, <2>8
<1>17. InjectionsInv'
  <2>1. \A k : Dealt(k)' <=> k < c + 1
    BY <1>2, <1>13 DEF Dealt
  <2>2. \A op : /\ before_injection_code(op)' = before_injection_code(op)
                /\ after_injection_code(op)' = after_injection_code(op)
    BY <1>13 DEF before_injection_code, after_injection_code
  <2>3. entry_injection_code' = entry_injection_code /\ pass' # "entry" /\ pass # "entry"
    BY <1>2, <1>13 DEF entry_injection_code
  <2>4. ASSUME NEW k \in 1 .. Last + 1 PROVE AllAt(k)' = Behind(k)' + Before(k)'
    <3>1. AllAt(k) = Behind(k) + Before(k) /\ Behind(k) \in Nat /\ Before(k) \in Nat
      BY <1>1 DEF InjectionsInv
    <3>2. CASE k # c /\ k # c + 1
      BY <1>16, <3>1, <3>2
    <3>3. CASE k = c
      BY <1>4, <1>6, <1>16, <3>1, <3>3
    <3>4. CASE k = c + 1
      BY <1>4, <1>16, <3>4
    <3> QED  BY <3>2, <3>3, <3>4
  <2>5. ASSUME NEW k \in 1 .. Last + 1
        PROVE  Before(k)' = IF k <= Last /\ k < c + 1 THEN before_injection_code(code[k].op) ELSE 0
    <3>1. Before(k) = IF k <= Last /\ k < c THEN before_injection_code(code[k].op) ELSE 0
      BY <1>1, <1>5 DEF InjectionsInv
    <3>2. CASE k # c /\ k # c + 1
      <4>1. k < c + 1 <=> k < c
        BY <1>1, <1>3, <3>2
      <4> QED  BY <1>16, <3>1, <3>2, <4>1
    <3>3. CASE k = c
      <4>1. k <= Last /\ k < c + 1
        BY <1>2, <3>3
      <4> QED  BY <1>16, <3>3, <4>1 DEF before
    <3>4. CASE k = c + 1
      <4>1. ~ (k < c + 1)
        BY <1>3, <3>4
      <4> QED  BY <1>16, <3>4, <4>1
    <3> QED  BY <3>2, <3>3, <3>4
  <2>6. ASSUME NEW k \in 1 .. Last + 1
        PROVE  Behind(k)' = IF k = 1 THEN entry_injection_code
                            ELSE IF k - 1 < c + 1 THEN after_injection_code(code[k-1].op) ELSE 0
    <3>1. Behind(k) = IF k = 1 THEN entry_injection_code
                      ELSE IF k - 1 < c THEN after_injection_code(code[k-1].op) ELSE 0
      BY <1>1, <1>5, <2>3 DEF InjectionsInv
    <3>2. CASE k # c + 1
      <4>1. k # 1 => (k - 1 < c + 1 <=> k - 1 < c)
        BY <1>1, <1>3, <3>2
      <4>2. Behind(k)' = Behind(k)
        BY <1>16, <3>2
      <4> QED  BY <3>1, <4>1, <4>2
    <3>3. CASE k = c + 1
      <4>1. k # 1 /\ k - 1 = c /\ k - 1 < c + 1
        BY <1>3, <3>3
      <4>2. Behind(k)' = after_injection_code(code[k-1].op)
        BY <1>16, <3>3, <4>1 DEF after
      <4> QED  BY <4>1, <4>2
    <3> QED  BY <3>2, <3>3
  <2> QED  BY <1>15, <2>1, <2>2, <2>3, <2>4, <2>5, <2>6 DEF InjectionsInv
<1>18. /\ map' \in [0 .. code_len -> Int] /\ Interior(map')
       /\ \A k \in 1 .. Last + 1 : k < c + 1 => map'[Pos(k)] = map[Pos(k)]
       /\ \A k \in 1 .. Last + 1 : c + 1 <= k => map'[Pos(k)] = map[Pos(k)] + before + after
  <2> DEFINE moved == adjust_map(map, Pos(c + 1), before)
  <2>1. map \in [0 .. code_len -> Int] /\ before \in Int /\ after \in Int /\ Interior(map)
    BY <1>1, <1>4 DEF Shapes, MapInv
  <2>2. /\ moved \in [0 .. code_len -> Int]
        /\ \A k \in 1 .. Last + 1 : k < c + 1 => moved[Pos(k)] = map[Pos(k)]
        /\ \A k \in 1 .. Last + 1 : c + 1 <= k => moved[Pos(k)] = map[Pos(k)] + before
    <3>1. c + 1 \in 1 .. Last + 1 /\ Layout
      BY <1>1, <1>3
    <3>2. ShiftedFrom(moved, map, c + 1, before)
      BY <2>1, <3>1, Shifted
    <3> HIDE DEF moved
    <3> QED  BY <3>2 DEF ShiftedFrom
  <2>5. Interior(moved)
    BY <1>1, <1>3, <2>1, InteriorShift
  <2> HIDE DEF moved
  <2> DEFINE again == adjust_map(moved, Pos(c + 1), after)
  <2>3. /\ again \in [0 .. code_len -> Int]
        /\ \A k \in 1 .. Last + 1 : k < c + 1 => again[Pos(k)] = moved[Pos(k)]
        /\ \A k \in 1 .. Last + 1 : c + 1 <= k => again[Pos(k)] = moved[Pos(k)] + after
    <3>1. moved \in [0 .. code_len -> Int] /\ after \in Int /\ c + 1 \in 1 .. Last + 1 /\ Layout
      BY <1>1, <1>3, <2>1, <2>2
    <3>2. ShiftedFrom(again, moved, c + 1, after)
      BY <3>1, Shifted
    <3> HIDE DEF again
    <3> QED  BY <3>2 DEF ShiftedFrom
  <2>4. Interior(again)
    BY <1>1, <1>3, <2>1, <2>2, <2>5, InteriorShift
  <2>6. map' = again
    BY <1>13 DEF moved
  <2> HIDE DEF again
  <2> QED  BY <2>2, <2>3, <2>4, <2>6
<1>19. MapInv'
  <2>1. map'[0] = Behind(1)'
    <3>0. Pos(1) = 0
      BY <1>1 DEF Layout
    <3>1. 1 \in 1 .. Last + 1 /\ Pos(1) = 0 /\ 1 < c + 1 /\ 1 # c + 1
      BY <1>1, <1>3, <3>0
    <3>2. map'[0] = map[0]
      BY <1>18, <3>1
    <3>3. Behind(1)' = Behind(1)
      BY <1>16, <3>1
    <3> QED  BY <1>1, <3>2, <3>3 DEF MapInv
  <2>2. ASSUME NEW k \in 1 .. Last
        PROVE  map'[Pos(k + 1)] = map'[Pos(k)] + WidenedLength(k)' + Before(k)' + Behind(k + 1)'
    <3>1. k \in 1 .. Last + 1 /\ k + 1 \in 1 .. Last + 1
      BY <1>1
    <3>2. WidenedLength(k)' = WidenedLength(k)
      BY <1>13, <1>15 DEF WidenedLength
    <3>3. map[Pos(k + 1)] = map[Pos(k)] + WidenedLength(k) + Before(k) + Behind(k + 1)
      BY <1>1 DEF MapInv
    <3>4. /\ map[Pos(k)] \in Int /\ map[Pos(k + 1)] \in Int /\ WidenedLength(k) \in Int
          /\ Before(k) \in Int /\ Behind(k + 1) \in Int
      BY <1>1, <3>1
    <3>5. CASE k < c
      <4>1. k < c + 1 /\ k + 1 < c + 1 /\ k # c /\ k # c + 1 /\ k + 1 # c + 1
        BY <1>3, <3>5
      <4>2. Before(k)' = Before(k) /\ Behind(k + 1)' = Behind(k + 1)
        BY <1>16, <3>1, <4>1
      <4> QED  BY <1>18, <3>1, <3>2, <3>3, <4>1, <4>2
    <3>6. CASE k = c
      <4>1. k < c + 1 /\ c + 1 <= k + 1
        BY <1>3, <3>6
      <4>2. /\ Before(k)' = before /\ Behind(k + 1)' = after /\ Before(k) = 0 /\ Behind(k + 1) = 0
        BY <1>6, <1>7, <1>16, <3>6
      <4>3. map'[Pos(k)] = map[Pos(k)] /\ map'[Pos(k + 1)] = map[Pos(k + 1)] + before + after
        BY <1>18, <3>1, <4>1
      <4> QED  BY <1>4, <3>2, <3>3, <3>4, <4>2, <4>3
    <3>7. CASE c < k
      <4>1. c + 1 <= k /\ c + 1 <= k + 1 /\ k # c /\ k + 1 # c /\ k + 1 # c + 1
        BY <1>3, <3>7
      <4>2. Behind(k + 1)' = Behind(k + 1)
        BY <1>16, <3>1, <4>1
      <4>3. Before(k)' = Before(k)
        BY <1>7, <1>16, <3>1, <4>1
      <4>4. /\ map'[Pos(k)] = map[Pos(k)] + before + after
            /\ map'[Pos(k + 1)] = map[Pos(k + 1)] + before + after
        BY <1>18, <3>1, <4>1
      <4> QED  BY <1>4, <3>2, <3>3, <3>4, <4>2, <4>3, <4>4
    <3> QED  BY <1>3, <3>5, <3>6, <3>7
  <2>3. Interior(map)'
    BY <1>15, <1>18 DEF Interior
  <2> QED  BY <1>15, <2>1, <2>2, <2>3 DEF MapInv
<1>20. Shapes'
  <2>1. injections' \in [0 .. code_len -> Seq(InjectedPiece)]
    BY <1>12, <1>13 DEF PieceAdded
  <2> QED  BY <1>1, <1>2, <1>3, <1>13, <1>15, <1>18, <2>1 DEF Shapes
<1> QED  BY <1>14, <1>17, <1>19, <1>20 DEF InjectionInv

\* From one pass to the next.
LEMMA NextPassStep ==
    ASSUME InjectionInv, NEW from, NEW to,
           <<from, to>> \in {<<"inject", "adjust">>, <<"adjust", "write">>, <<"write", "done">>},
           NextPass(from, to)
    PROVE  InjectionInv'
<1>1. /\ Layout /\ Shapes /\ InjectionsInv /\ WideningInv /\ MapInv /\ SettledInv /\ OutputInv
      /\ Last \in Nat \ {0} /\ code_len \in Nat
      /\ \A k \in 1 .. Last + 1 : Pos(k) \in 0 .. code_len
      /\ \A k \in 1 .. Last + 1 : map[Pos(k)] \in Int
  BY InvFacts
<1>2. /\ pass = from /\ pass' = to /\ cur = Last + 1 /\ cur' = 1
      /\ UNCHANGED <<method, start, map, widening, injections, outPos, history>>
  BY DEF NextPass
<1>3. \/ from = "inject" /\ to = "adjust"
      \/ from = "adjust" /\ to = "write"
      \/ from = "write" /\ to = "done"
  OBVIOUS
<1>4. Layout' /\ code' = code /\ Last' = Last /\ code_len' = code_len /\ \A k : Pos(k)' = Pos(k)
  BY <1>1, <1>2, LayoutStep DEF Pos
<1>5. \A k : Behind(k)' = Behind(k) /\ Before(k)' = Before(k) /\ AllAt(k)' = AllAt(k)
  BY <1>2 DEF Behind, Before, AllAt, Pos
<1>6. \A k \in 1 .. Last : WidenedLength(k)' = WidenedLength(k)
  BY <1>2, <1>4 DEF WidenedLength
<1>7. WideningInv'
  BY <1>1, <1>2, <1>4, <1>6 DEF WideningInv
<1>8. MapInv'
  BY <1>1, <1>2, <1>4, <1>5, <1>6 DEF MapInv, Interior
<1>9. Shapes'
  BY <1>1, <1>2, <1>3, <1>4 DEF Shapes
<1>10. InjectionsInv'
  <2>1. \A k \in 1 .. Last : Dealt(k) /\ Dealt(k)'
    BY <1>1, <1>2, <1>3 DEF Dealt
  <2>2. /\ \A op : /\ before_injection_code(op)' = before_injection_code(op)
                   /\ after_injection_code(op)' = after_injection_code(op)
        /\ entry_injection_code' = entry_injection_code
        /\ pass # "entry" /\ pass' # "entry"
    BY <1>2, <1>3 DEF before_injection_code, after_injection_code, entry_injection_code
  <2> SUFFICES ASSUME NEW k \in 1 .. Last + 1
               PROVE  /\ AllAt(k) = Behind(k) + Before(k)
                      /\ Before(k) = IF k <= Last /\ Dealt(k)' THEN before_injection_code(code[k].op)
                                     ELSE 0
                      /\ Behind(k) = IF k = 1 THEN entry_injection_code
                                     ELSE IF Dealt(k - 1)' THEN after_injection_code(code[k-1].op)
                                     ELSE 0
    BY <1>4, <1>5, <2>2 DEF InjectionsInv
  <2>3. k <= Last => k \in 1 .. Last
    BY <1>1
  <2>4. k # 1 => k - 1 \in 1 .. Last
    BY <1>1
  <2> QED  BY <1>1, <2>1, <2>2, <2>3, <2>4 DEF InjectionsInv
<1>11. SettledInv'
  <2> SUFFICES ASSUME NEW k \in 1 .. Last, Settled(k)' PROVE Needed(k) = widening[Pos(k)]
    BY <1>2, <1>4 DEF SettledInv, Needed, method_code_map, NewDelta
  <2>1. ~ (k < 1)
    OBVIOUS
  <2>2. from # "inject"
    BY <1>2, <1>3, <2>1 DEF Settled
  <2>3. k < Last + 1
    BY <1>1
  <2>4. Settled(k)
    BY <1>2, <1>3, <2>2, <2>3 DEF Settled
  <2> QED  BY <1>1, <2>4 DEF SettledInv
<1>12. outPos' = CASE pass' = "write" -> map'[Pos(1)] - Behind(1)'
                   [] pass' = "done" -> map'[code_len]
                   [] OTHER -> 0
  <2>1. CASE from = "inject"
    BY <1>1, <1>2, <1>3, <2>1 DEF OutputInv
  <2>2. CASE from = "adjust"
    <3>1. outPos = 0 /\ to = "write"
      BY <1>1, <1>2, <1>3, <2>2 DEF OutputInv
    <3>2. map[0] = Behind(1) /\ Pos(1) = 0 /\ map[0] \in Int
      BY <1>1 DEF MapInv, Layout, Shapes
    <3> QED  BY <1>2, <1>5, <3>1, <3>2
  <2>3. CASE from = "write"
    <3>1. outPos = map[code_len] - Behind(Last + 1) /\ to = "done"
      BY <1>1, <1>2, <1>3, <2>3 DEF OutputInv, code_len
    <3>2. Behind(Last + 1) = after_injection_code(code[Last].op)
      <4>1. Last + 1 \in 1 .. Last + 1 /\ Last + 1 # 1 /\ (Last + 1) - 1 = Last /\ Dealt(Last)
        BY <1>1, <1>2, <2>3 DEF Dealt
      <4> QED  BY <1>1, <4>1 DEF InjectionsInv
    <3>3. after_injection_code(code[Last].op) = 0
      BY <1>1, CodeFacts, InjectionLengths
    <3>4. map[code_len] \in Int
      BY <1>1 DEF Shapes
    <3> QED  BY <1>2, <3>1, <3>2, <3>3, <3>4
  <2> QED  BY <1>3, <2>1, <2>2, <2>3
<1>13. OutputInv'
  <2>1. \A k \in 1 .. Last : IsWritten(k)' => IsWritten(k)
    <3> SUFFICES ASSUME NEW k \in 1 .. Last, IsWritten(k)' PROVE IsWritten(k)
      OBVIOUS
    <3>1. ~ (k < 1) /\ k < Last + 1
      BY <1>1
    <3> QED  BY <1>2, <1>3, <3>1 DEF IsWritten
  <2>2. pass' \notin {"write", "done"} => history.jumps = {} /\ history.switches = {}
    BY <1>1, <1>2, <1>3 DEF OutputInv
  <2>3. /\ DOMAIN history.landing = 1 .. Last
        /\ \A k \in 1 .. Last : IsWritten(k)' => history.landing[k] = map[Pos(k)]
        /\ \A j \in history.jumps :
               /\ j.src \in 1 .. Last /\ code[j.src].op \in Jumps
               /\ j.at + j.delta = map[Pos(code[j.src].target)]
        /\ \A operands \in history.switches : operands % 4 = 0
    BY <1>1, <2>1 DEF OutputInv
  <2>4. outPos' = (CASE pass = "write" -> map[Pos(cur)] - Behind(cur)
                     [] pass = "done" -> map[code_len]
                     [] OTHER -> 0)'
    BY <1>2, <1>4, <1>12 DEF Pos, Behind
  <2>5. history' = history /\ map' = map
    BY <1>2
  <2> QED  BY <1>4, <2>2, <2>3, <2>4, <2>5 DEF OutputInv
<1> QED  BY <1>4, <1>7, <1>8, <1>9, <1>10, <1>11, <1>13 DEF InjectionInv

\* The widening an instruction needs is one it can have.
LEMMA NeededFacts ==
    ASSUME InjectionInv, NEW k \in 1 .. Last
    PROVE  /\ Needed(k) \in {-3, -2, -1, 0, 1, 2, 3, 5}
           /\ CASE code[k].op = "if" -> Needed(k) \in {0, 5}
                [] code[k].op = "goto" -> Needed(k) \in {0, 2}
                [] code[k].op = "switch" ->
                     (opcode_length(code[k].op, Pos(k)) + Needed(k)) - SwitchBody \in 1 .. 4
                [] OTHER -> Needed(k) = 0
           /\ code[k].op = "switch" =>
                  (opcode_length(code[k].op, Pos(k)) + Needed(k)) - SwitchBody =
                      NEXT_4BYTE_BOUNDARY(map[Pos(k)]) - map[Pos(k)]
<1>1. /\ WideningInv /\ Shapes /\ Last \in Nat /\ k \in 1 .. Last + 1
      /\ Pos(k) \in 0 .. code_len /\ map[Pos(k)] \in Int
  <2>1. k \in 1 .. Last + 1
    BY InvFacts
  <2> QED  BY <2>1, InvFacts
<1>2. CASE code[k].op = "switch"
  <2> DEFINE new == NEXT_4BYTE_BOUNDARY(map[Pos(k)]) - map[Pos(k)]
             old == NEXT_4BYTE_BOUNDARY(Pos(k)) - Pos(k)
  <2>1. Pos(k) \in Int /\ SwitchBody \in Nat
    BY <1>1, LengthsAssumption
  <2>2. new \in 1 .. 4 /\ old \in 1 .. 4
    BY <1>1, <2>1, BoundaryFacts
  <2>3. Needed(k) = new - old
    BY <1>2 DEF Needed, method_code_map
  <2>4. opcode_length(code[k].op, Pos(k)) = old + SwitchBody
    BY <1>2 DEF opcode_length, ShortBranch
  <2>6. (new \in 1 .. 4 /\ new \in Int) /\ (old \in 1 .. 4 /\ old \in Int)
    BY <2>2
  <2> HIDE DEF new, old
  <2>5. /\ (opcode_length(code[k].op, Pos(k)) + Needed(k)) - SwitchBody = new
        /\ new - old \in {-3, -2, -1, 0, 1, 2, 3, 5}
    BY <2>1, <2>3, <2>4, <2>6
  <2> QED  BY <1>2, <2>2, <2>3, <2>5 DEF new
<1>3. CASE code[k].op = "if"
  <2>1. widening[Pos(k)] \in {0, 5}
    BY <1>1, <1>3 DEF WideningInv
  <2> QED  BY <1>3, <2>1 DEF Needed
<1>4. CASE code[k].op = "goto"
  <2>1. widening[Pos(k)] \in {0, 2}
    BY <1>1, <1>4 DEF WideningInv
  <2> QED  BY <1>4, <2>1 DEF Needed
<1>5. CASE code[k].op \notin {"if", "goto", "switch"}
  <2>1. widening[Pos(k)] = 0
    BY <1>1, <1>5 DEF WideningInv
  <2> QED  BY <1>5, <2>1 DEF Needed
<1> QED  BY <1>2, <1>3, <1>4, <1>5

\* After the first pass neither the injections nor the method change.
LEMMA LaterPassesKeep ==
    ASSUME InjectionInv, pass \in {"adjust", "write"}, pass' = pass,
           UNCHANGED <<method, start, injections>>
    PROVE  /\ Layout' /\ InjectionsInv'
           /\ code' = code /\ Last' = Last /\ code_len' = code_len
           /\ \A k : /\ Pos(k)' = Pos(k)
                     /\ Behind(k)' = Behind(k) /\ Before(k)' = Before(k) /\ AllAt(k)' = AllAt(k)
<1>1. Layout /\ InjectionsInv
  BY InvFacts
<1>2. Layout' /\ code' = code /\ Last' = Last /\ code_len' = code_len /\ \A k : Pos(k)' = Pos(k)
  BY <1>1, LayoutStep DEF Pos
<1>3. \A k : Behind(k)' = Behind(k) /\ Before(k)' = Before(k) /\ AllAt(k)' = AllAt(k)
  BY DEF Behind, Before, AllAt, Pos
<1>4. InjectionsInv'
  <2>1. \A k : Dealt(k) /\ Dealt(k)'
    BY DEF Dealt
  <2>2. /\ \A op : /\ before_injection_code(op)' = before_injection_code(op)
                   /\ after_injection_code(op)' = after_injection_code(op)
        /\ entry_injection_code' = entry_injection_code
        /\ pass # "entry" /\ pass' # "entry"
    BY DEF before_injection_code, after_injection_code, entry_injection_code
  <2> QED  BY <1>1, <1>2, <1>3, <2>1, <2>2 DEF InjectionsInv
<1> QED  BY <1>2, <1>3, <1>4

\* One instruction of the second pass.
LEMMA AdjustStep ==
    ASSUME InjectionInv, adjust_instruction, NEW c, c = cur
    PROVE  InjectionInv'
<1> DEFINE delta == Needed(c) - widening[Pos(c)]
<1>1. /\ Layout /\ Shapes /\ WideningInv /\ MapInv /\ SettledInv /\ OutputInv
      /\ Last \in Nat \ {0} /\ code_len \in Nat
      /\ \A k \in 1 .. Last + 1 : Pos(k) \in 0 .. code_len
      /\ \A k \in 1 .. Last + 1 : map[Pos(k)] \in Int
      /\ \A k \in 1 .. Last + 1 : Behind(k) \in Nat /\ Before(k) \in Nat
      /\ \A k \in 1 .. Last : WidenedLength(k) \in Int
  BY InvFacts
<1>2. /\ pass = "adjust" /\ c \in 1 .. Last
      /\ UNCHANGED <<method, start, pass, injections, outPos, history>>
  BY <1>1 DEF adjust_instruction, Shapes
<1>3. c \in 1 .. Last + 1 /\ c + 1 \in 1 .. Last + 1 /\ c \in Nat
  BY <1>1, <1>2
<1>4. /\ Layout' /\ InjectionsInv'
      /\ code' = code /\ Last' = Last /\ code_len' = code_len
      /\ \A k : /\ Pos(k)' = Pos(k)
                /\ Behind(k)' = Behind(k) /\ Before(k)' = Before(k) /\ AllAt(k)' = AllAt(k)
  BY <1>2, LaterPassesKeep
<1>5. Needed(c) \in {-3, -2, -1, 0, 1, 2, 3, 5} /\ Needed(c) \in Int
  BY <1>2, NeededFacts
<1>6. widening[Pos(c)] \in {-3, -2, -1, 0, 1, 2, 3, 5} /\ widening[Pos(c)] \in Int
  <2>1. widening \in [0 .. code_len -> {-3, -2, -1, 0, 1, 2, 3, 5}] /\ Pos(c) \in 0 .. code_len
    BY <1>1, <1>3 DEF Shapes
  <2>2. widening[Pos(c)] \in {-3, -2, -1, 0, 1, 2, 3, 5}
    BY <2>1
  <2> QED  BY <2>2
<1>7. \/ delta = 0 /\ cur' = c + 1 /\ UNCHANGED <<map, widening>>
      \/ /\ map' = adjust_map(map, Pos(c + 1), delta)
         /\ widening' = [widening EXCEPT ![Pos(c)] = @ + delta]
         /\ cur' = 1
  BY DEF adjust_instruction
<1>8. delta \in Int /\ widening[Pos(c)] + delta = Needed(c) /\ (delta = 0 => Needed(c) = widening[Pos(c)])
  BY <1>5, <1>6
<1> HIDE DEF delta
<1>9. OutputInv'
  <2>1. outPos = 0 /\ history.jumps = {} /\ history.switches = {} /\ DOMAIN history.landing = 1 .. Last
    BY <1>1, <1>2 DEF OutputInv
  <2> QED  BY <1>2, <1>4, <2>1 DEF OutputInv, IsWritten
<1>10. CASE delta = 0 /\ cur' = c + 1 /\ UNCHANGED <<map, widening>>
  <2>1. \A k \in 1 .. Last : WidenedLength(k)' = WidenedLength(k)
    BY <1>4, <1>10 DEF WidenedLength
  <2>2. WideningInv'
    BY <1>1, <1>4, <1>10, <2>1 DEF WideningInv
  <2>3. MapInv'
    BY <1>1, <1>4, <1>10, <2>1 DEF MapInv, Interior
  <2>4. SettledInv'
    <3> SUFFICES ASSUME NEW k \in 1 .. Last, Settled(k)' PROVE Needed(k) = widening[Pos(k)]
      BY <1>4, <1>2, <1>10 DEF SettledInv, Needed, method_code_map, NewDelta
    <3>1. k < c + 1
      BY <1>2, <1>10 DEF Settled
    <3>2. CASE k = c
      BY <1>8, <1>10, <3>2
    <3>3. CASE k < c
      <4>1. Settled(k)
        BY <1>2, <3>3 DEF Settled
      <4> QED  BY <1>1, <4>1 DEF SettledInv
    <3> QED  BY <1>3, <3>1, <3>2, <3>3
  <2>5. Shapes'
    BY <1>1, <1>2, <1>3, <1>4, <1>10 DEF Shapes
  <2> QED  BY <1>4, <1>9, <2>2, <2>3, <2>4, <2>5 DEF InjectionInv
<1>11. CASE /\ map' = adjust_map(map, Pos(c + 1), delta)
            /\ widening' = [widening EXCEPT ![Pos(c)] = @ + delta]
            /\ cur' = 1
  <2>1. /\ widening' \in [0 .. code_len -> {-3, -2, -1, 0, 1, 2, 3, 5}]
        /\ widening'[Pos(c)] = Needed(c)
        /\ \A k \in 1 .. Last + 1 : k # c => widening'[Pos(k)] = widening[Pos(k)]
    <3>1. widening' = [widening EXCEPT ![Pos(c)] = Needed(c)]
      BY <1>8, <1>11
    <3>2. widening \in [0 .. code_len -> {-3, -2, -1, 0, 1, 2, 3, 5}] /\ Pos(c) \in 0 .. code_len
      BY <1>1, <1>3 DEF Shapes
    <3>3. \A k \in 1 .. Last + 1 : Pos(k) \in 0 .. code_len /\ (Pos(k) = Pos(c) => k = c)
      BY <1>1, <1>3, PositionFacts
    <3> QED  BY <1>5, <3>1, <3>2, <3>3
  <2>2. ASSUME NEW k \in 1 .. Last, k # c
        PROVE  WidenedLength(k)' = WidenedLength(k) /\ widening'[Pos(k)] = widening[Pos(k)]
    <3>1. k \in 1 .. Last + 1
      BY <1>1
    <3> QED  BY <1>4, <2>1, <2>2, <3>1 DEF WidenedLength
  <2>3. /\ WidenedLength(c)' = opcode_length(code[c].op, Pos(c)) + Needed(c)
        /\ WidenedLength(c)' = WidenedLength(c) + delta
    <3>1. opcode_length(code[c].op, Pos(c)) \in Int
      <4>1. code[c].op \in Opcode /\ Pos(c) \in Nat
        <5>1. code[c].op \in Opcode
          BY <1>1, <1>2, CodeFacts
        <5>2. Pos(c) \in 0 .. code_len
          BY <1>1, <1>3
        <5> QED  BY <1>1, <5>1, <5>2
      <4> QED  BY <4>1, OpcodeLengthType
    <3>2. WidenedLength(c)' = opcode_length(code[c].op, Pos(c)) + Needed(c)
      BY <1>4, <2>1 DEF WidenedLength
    <3> QED  BY <1>5, <1>6, <1>8, <3>1, <3>2 DEF WidenedLength
  <2>4. WideningInv'
    <3> SUFFICES ASSUME NEW k \in 1 .. Last
                 PROVE  CASE code[k].op = "if" -> widening'[Pos(k)] \in {0, 5}
                          [] code[k].op = "goto" -> widening'[Pos(k)] \in {0, 2}
                          [] code[k].op = "switch" -> WidenedLength(k)' - SwitchBody \in 1 .. 4
                          [] OTHER -> widening'[Pos(k)] = 0
      BY <1>4 DEF WideningInv
    <3>1. CASE k = c
      <4>1. (CASE code[c].op = "if" -> Needed(c) \in {0, 5}
               [] code[c].op = "goto" -> Needed(c) \in {0, 2}
               [] code[c].op = "switch" ->
                    (opcode_length(code[c].op, Pos(c)) + Needed(c)) - SwitchBody \in 1 .. 4
               [] OTHER -> Needed(c) = 0)
        BY <1>2, NeededFacts
      <4> DEFINE total == opcode_length(code[c].op, Pos(c)) + Needed(c)
      <4>2. /\ widening'[Pos(k)] = Needed(c) /\ code[k] = code[c]
            /\ WidenedLength(k)' = total
        BY <1>4, <2>1, <3>1 DEF WidenedLength
      <4>3. CASE code[c].op = "switch"
        <5>1. total - SwitchBody \in 1 .. 4
          BY <4>1, <4>3
        <5> HIDE DEF total
        <5>2. WidenedLength(k)' - SwitchBody \in 1 .. 4
          BY <4>2, <5>1
        <5>3. code[k].op = "switch"
          BY <4>2, <4>3
        <5> QED  BY <5>2, <5>3
      <4>4. CASE code[c].op = "if"
        BY <4>1, <4>2, <4>4
      <4>5. CASE code[c].op = "goto"
        BY <4>1, <4>2, <4>5
      <4>6. CASE code[c].op \notin {"if", "goto", "switch"}
        BY <4>1, <4>2, <4>6
      <4> QED  BY <4>3, <4>4, <4>5, <4>6
    <3>2. CASE k # c
      BY <1>1, <2>2, <3>2 DEF WideningInv
    <3> QED  BY <3>1, <3>2
  <2>5. /\ map' \in [0 .. code_len -> Int]
        /\ \A k \in 1 .. Last + 1 : k < c + 1 => map'[Pos(k)] = map[Pos(k)]
        /\ \A k \in 1 .. Last + 1 : c + 1 <= k => map'[Pos(k)] = map[Pos(k)] + delta
    <3> DEFINE moved == adjust_map(map, Pos(c + 1), delta)
    <3>1. map \in [0 .. code_len -> Int] /\ Layout /\ c + 1 \in 1 .. Last + 1 /\ delta \in Int
      BY <1>1, <1>3, <1>8 DEF Shapes
    <3>2. /\ moved \in [0 .. code_len -> Int]
          /\ \A k \in 1 .. Last + 1 : k < c + 1 => moved[Pos(k)] = map[Pos(k)]
          /\ \A k \in 1 .. Last + 1 : c + 1 <= k => moved[Pos(k)] = map[Pos(k)] + delta
      <4>1. ShiftedFrom(moved, map, c + 1, delta)
        BY <3>1, Shifted
      <4> HIDE DEF moved
      <4> QED  BY <4>1 DEF ShiftedFrom
    <3> HIDE DEF moved
    <3> QED  BY <1>11, <3>2 DEF moved
  <2>6. Interior(map')
    <3>1. map \in [0 .. code_len -> Int] /\ Interior(map) /\ Layout
      BY <1>1 DEF Shapes, MapInv
    <3> QED  BY <1>3, <1>8, <1>11, <3>1, InteriorShift
  <2>7. MapInv'
    <3>1. map'[0] = Behind(1)'
      <4>1. Pos(1) = 0 /\ map[0] = Behind(1)
        BY <1>1 DEF Layout, MapInv
      <4>2. 1 \in 1 .. Last + 1 /\ 1 < c + 1
        BY <1>1, <1>3
      <4> QED  BY <1>4, <2>5, <4>1, <4>2
    <3>2. ASSUME NEW k \in 1 .. Last
          PROVE  map'[Pos(k + 1)] = map'[Pos(k)] + WidenedLength(k)' + Before(k)' + Behind(k + 1)'
      <4>1. k \in 1 .. Last + 1 /\ k + 1 \in 1 .. Last + 1
        BY <1>1
      <4>2. map[Pos(k + 1)] = map[Pos(k)] + WidenedLength(k) + Before(k) + Behind(k + 1)
        BY <1>1 DEF MapInv
      <4>3. /\ map[Pos(k)] \in Int /\ map[Pos(k + 1)] \in Int /\ WidenedLength(k) \in Int
            /\ Before(k) \in Int /\ Behind(k + 1) \in Int
        BY <1>1, <4>1
      <4>4. Before(k)' = Before(k) /\ Behind(k + 1)' = Behind(k + 1)
        BY <1>4
      <4>5. CASE k < c
        <5>1. k < c + 1 /\ k + 1 < c + 1 /\ k # c
          BY <1>3, <4>5
        <5> QED  BY <2>2, <2>5, <4>1, <4>2, <4>4, <5>1
      <4>6. CASE k = c
        <5>1. k < c + 1 /\ c + 1 <= k + 1
          BY <1>3, <4>6
        <5>2. map'[Pos(k)] = map[Pos(k)] /\ map'[Pos(k + 1)] = map[Pos(k + 1)] + delta
          BY <2>5, <4>1, <5>1
        <5>3. WidenedLength(k)' = WidenedLength(k) + delta
          BY <2>3, <4>6
        <5> QED  BY <1>8, <4>2, <4>3, <4>4, <5>2, <5>3
      <4>7. CASE c < k
        <5>1. c + 1 <= k /\ c + 1 <= k + 1 /\ k # c
          BY <1>3, <4>7
        <5>2. map'[Pos(k)] = map[Pos(k)] + delta /\ map'[Pos(k + 1)] = map[Pos(k + 1)] + delta
          BY <2>5, <4>1, <5>1
        <5>3. WidenedLength(k)' = WidenedLength(k)
          BY <2>2, <5>1
        <5> QED  BY <1>8, <4>2, <4>3, <4>4, <5>2, <5>3
      <4> QED  BY <1>3, <4>5, <4>6, <4>7
    <3>3. Interior(map)'
      BY <1>4, <2>6 DEF Interior
    <3> QED  BY <1>4, <3>1, <3>2, <3>3 DEF MapInv
  <2>8. SettledInv'
    <3>1. \A k \in 1 .. Last : ~ Settled(k)'
      BY <1>2, <1>11 DEF Settled
    <3> QED  BY <1>4, <3>1 DEF SettledInv
  <2>9. Shapes'
    <3>1. /\ widening' \in [0 .. code_len -> {-3, -2, -1, 0, 1, 2, 3, 5}]
          /\ map' \in [0 .. code_len -> Int]
          /\ cur' = 1
      BY <1>11, <2>1, <2>5
    <3>3. 1 \in 1 .. Last + 1
      BY <1>1
    <3>2. UNCHANGED <<pass, injections, outPos>> /\ pass = "adjust"
      BY <1>2
    <3> QED  BY <1>1, <1>4, <3>1, <3>2, <3>3 DEF Shapes
  <2> QED  BY <1>4, <1>9, <2>4, <2>7, <2>8, <2>9 DEF InjectionInv
<1> QED  BY <1>7, <1>10, <1>11

\* What the third pass writes for instruction k is right when its opcode goes
\* behind what is injected before it.
WrittenRight(k, w) ==
    /\ w.len = WidenedLength(k)
    /\ \A j \in w.jumps :
           /\ j.src = k /\ code[k].op \in Jumps
           /\ j.at + j.delta = map[Pos(code[k].target)]
    /\ \A operands \in w.operands : operands % 4 = 0

\* write_instruction finds the widening it expects and writes what is right: a
\* jump that adds up to its target, operands of a switch on a 4 byte boundary.
LEMMA WrittenFacts ==
    ASSUME InjectionInv, pass = "write", NEW k \in 1 .. Last, NEW at \in Int,
           at = map[Pos(k)] + Before(k)
    PROVE  ExpectedWidening(k) /\ WrittenRight(k, Written(k, at))
<1> DEFINE new_pos == map[Pos(k)]
           pad == NEXT_4BYTE_BOUNDARY(new_pos) - new_pos - 1
           goal == map[Pos(code[k].target)]
<1>1. /\ Layout /\ InjectionsInv /\ WideningInv /\ SettledInv /\ Last \in Nat \ {0}
      /\ k \in 1 .. Last + 1
  <2>1. Last \in Nat \ {0}
    BY InvFacts
  <2>2. k \in 1 .. Last + 1
    BY <2>1
  <2> QED  BY <2>1, <2>2, InvFacts
<1>2. Pos(k) \in 0 .. code_len /\ new_pos \in Int /\ Before(k) \in Int
  BY <1>1, InvFacts
<1>3. code[k].op \in Opcode
  BY <1>1, CodeFacts
<1>4. Needed(k) = widening[Pos(k)]
  BY <1>1 DEF SettledInv, Settled
<1>5. ASSUME code[k].op \in Jumps
      PROVE  at = new_pos /\ goal \in Int /\ NewDelta(k) = goal - new_pos
  <2>1. code[k].target \in 1 .. Last
    BY <1>1, <1>5, CodeFacts
  <2>2. code[k].target \in 1 .. Last + 1
    BY <1>1, <2>1
  <2>3. goal \in Int
    BY <2>2, InvFacts
  <2>4. code[k].op # "return"
    BY <1>5 DEF Jumps, ShortBranch
  <2>5. before_injection_code(code[k].op) = 0
    BY <1>1, <2>4, InjectionLengths
  <2>6. Before(k) = 0
    BY <1>1, <2>5 DEF InjectionsInv
  <2> QED  BY <1>2, <2>3, <2>6 DEF NewDelta, method_code_map
<1>6. ExpectedWidening(k)
  BY <1>1 DEF WideningInv, ExpectedWidening
<1>7. CASE code[k].op \in ShortBranch /\ widening[Pos(k)] = 0
  <2>1. Fits(NewDelta(k))
    BY <1>4, <1>7 DEF Needed, ShortBranch
  <2>2. code[k].op \in Jumps
    BY <1>7 DEF Jumps
  <2>3. NewDelta(k) \in Int /\ at + NewDelta(k) = goal
    BY <1>2, <1>5, <2>2
  <2>4. AsShort(NewDelta(k)) = NewDelta(k)
    BY <2>1, <2>3, FittingOffset
  <2>5. WidenedLength(k) = 3
    BY <1>7 DEF WidenedLength, opcode_length, ShortBranch
  <2>6. Written(k, at) = [len |-> 3, jumps |-> {Jump(k, at, NewDelta(k))}, operands |-> {}]
    BY <1>7, <2>4 DEF Written, Jumps, ShortBranch
  <2> QED  BY <1>6, <2>2, <2>3, <2>5, <2>6 DEF WrittenRight, Jump
<1>8. CASE code[k].op = "goto" /\ widening[Pos(k)] = 2
  <2>1. code[k].op \in Jumps
    BY <1>8 DEF Jumps, ShortBranch
  <2>2. at + NewDelta(k) = goal
    BY <1>2, <1>5, <2>1
  <2>3. WidenedLength(k) = 5
    BY <1>8 DEF WidenedLength, opcode_length, ShortBranch
  <2>4. Written(k, at) = [len |-> 5, jumps |-> {Jump(k, at, NewDelta(k))}, operands |-> {}]
    BY <1>8 DEF Written, Jumps, ShortBranch
  <2> QED  BY <1>6, <2>1, <2>2, <2>3, <2>4 DEF WrittenRight, Jump
<1>9. CASE code[k].op = "if" /\ widening[Pos(k)] = 5
  <2>1. code[k].op \in Jumps
    BY <1>9 DEF Jumps, ShortBranch
  <2>2. (at + 3) + (NewDelta(k) - 3) = goal
    BY <1>2, <1>5, <2>1
  <2>3. WidenedLength(k) = 8
    BY <1>9 DEF WidenedLength, opcode_length, ShortBranch
  <2>4. Written(k, at) =
            [len |-> 8, jumps |-> {Jump(k, at + 3, NewDelta(k) - 3)}, operands |-> {}]
    BY <1>9 DEF Written, Jumps, ShortBranch
  <2> QED  BY <1>6, <2>1, <2>2, <2>3, <2>4 DEF WrittenRight, Jump
<1>10. CASE code[k].op = "goto_w"
  <2>1. code[k].op \in Jumps
    BY <1>10 DEF Jumps, ShortBranch
  <2>2. at + NewDelta(k) = goal
    BY <1>2, <1>5, <2>1
  <2>3. WidenedLength(k) = 5
    <3>1. widening[Pos(k)] = 0
      BY <1>1, <1>10 DEF WideningInv
    <3> QED  BY <1>10, <3>1 DEF WidenedLength, opcode_length, ShortBranch
  <2>4. Written(k, at) = [len |-> 5, jumps |-> {Jump(k, at, NewDelta(k))}, operands |-> {}]
    BY <1>10 DEF Written, Jumps, ShortBranch
  <2> QED  BY <1>6, <2>1, <2>2, <2>3, <2>4 DEF WrittenRight, Jump
<1>11. CASE code[k].op = "switch"
  <2>1. code[k].op \in Jumps
    BY <1>11 DEF Jumps
  <2>2. at = new_pos /\ at + NewDelta(k) = goal
    BY <1>2, <1>5, <2>1
  <2>3. /\ NEXT_4BYTE_BOUNDARY(new_pos) \in Int /\ NEXT_4BYTE_BOUNDARY(new_pos) % 4 = 0
        /\ SwitchBody \in Int
    BY <1>2, BoundaryFacts, LengthsAssumption
  <2>4. WidenedLength(k) = 1 + pad + SwitchBody
    <3>1. WidenedLength(k) - SwitchBody = NEXT_4BYTE_BOUNDARY(new_pos) - new_pos
      BY <1>4, <1>11, NeededFacts DEF WidenedLength
    <3>2. WidenedLength(k) \in Int
      BY InvFacts
    <3> QED  BY <1>2, <2>3, <3>1, <3>2
  <2>5. Written(k, at) =
            [len |-> 1 + pad + SwitchBody, jumps |-> {Jump(k, at, NewDelta(k))},
             operands |-> {at + 1 + pad}]
    BY <1>11 DEF Written, Jumps, ShortBranch, method_code_map
  <2>6. at + 1 + pad = NEXT_4BYTE_BOUNDARY(new_pos)
    BY <1>2, <2>2, <2>3
  <2> HIDE DEF pad, goal, new_pos
  <2> QED  BY <1>6, <2>1, <2>2, <2>3, <2>4, <2>5, <2>6 DEF WrittenRight, Jump, goal
<1>12. CASE code[k].op \notin Jumps
  <2>1. widening[Pos(k)] = 0
    BY <1>1, <1>12 DEF WideningInv, Jumps, ShortBranch
  <2>2. opcode_length(code[k].op, Pos(k)) \in Int
    <3>1. Pos(k) \in Nat
      BY <1>2
    <3> QED  BY <1>3, <3>1, OpcodeLengthType
  <2>3. Written(k, at) =
            [len |-> opcode_length(code[k].op, Pos(k)), jumps |-> {}, operands |-> {}]
    BY <1>12 DEF Written, Jumps, ShortBranch
  <2> QED  BY <1>6, <2>1, <2>2, <2>3 DEF WrittenRight, WidenedLength
<1>13. CASE code[k].op \in Jumps
  <2>1. code[k].op = "if" => widening[Pos(k)] \in {0, 5}
    BY <1>1 DEF WideningInv
  <2>2. code[k].op = "goto" => widening[Pos(k)] \in {0, 2}
    BY <1>1 DEF WideningInv
  <2> QED  BY <1>7, <1>8, <1>9, <1>10, <1>11, <1>13, <2>1, <2>2 DEF Jumps, ShortBranch
<1> QED  BY <1>12, <1>13

\* One instruction of the third pass.
LEMMA WriteStep ==
    ASSUME InjectionInv, write_instruction, NEW c, c = cur
    PROVE  InjectionInv'
<1> DEFINE pieces == injections[Pos(c)]
           at == outPos + LengthOf(pieces, Kinds)
           w == Written(c, at)
<1>1. /\ Layout /\ Shapes /\ InjectionsInv /\ WideningInv /\ MapInv /\ SettledInv /\ OutputInv
      /\ Last \in Nat \ {0} /\ code_len \in Nat
      /\ \A k \in 1 .. Last + 1 : Pos(k) \in 0 .. code_len
      /\ \A k \in 1 .. Last + 1 : map[Pos(k)] \in Int
      /\ \A k \in 1 .. Last + 1 : Behind(k) \in Nat /\ Before(k) \in Nat
      /\ \A k \in 1 .. Last : WidenedLength(k) \in Int
  BY InvFacts
<1>2. pass = "write" /\ c \in 1 .. Last
  BY <1>1 DEF write_instruction, Shapes
<1>3. c \in 1 .. Last + 1 /\ c + 1 \in 1 .. Last + 1 /\ c \in Nat
  BY <1>1, <1>2
<1>4. /\ map[Pos(c)] \in Int /\ Behind(c) \in Int /\ Before(c) \in Int
      /\ map[Pos(c + 1)] \in Int /\ Behind(c + 1) \in Int /\ WidenedLength(c) \in Int
  BY <1>1, <1>2, <1>3
<1>5. outPos = map[Pos(c)] - Behind(c)
  BY <1>1, <1>2 DEF OutputInv
<1>6. outPos + LengthOf(pieces, {"entry", "after"}) = map[Pos(c)]
  BY <1>4, <1>5 DEF Behind
<1>7. at = map[Pos(c)] + Before(c) /\ at \in Int
  <2>1. AllAt(c) = Behind(c) + Before(c)
    BY <1>1, <1>3 DEF InjectionsInv
  <2>2. at = outPos + AllAt(c)
    BY DEF AllAt
  <2> HIDE DEF at
  <2> QED  BY <1>4, <1>5, <2>1, <2>2
<1>8. ExpectedWidening(c) /\ WrittenRight(c, w)
  <2> HIDE DEF at
  <2> QED  BY <1>2, <1>7, WrittenFacts
<1>9. /\ outPos' = at + w.len
      /\ history' = [landing |-> [history.landing EXCEPT ![c] = map[Pos(c)]],
                     jumps |-> history.jumps \cup w.jumps,
                     switches |-> history.switches \cup w.operands]
      /\ cur' = c + 1
      /\ UNCHANGED <<method, start, pass, map, widening, injections>>
  <2>1. \/ /\ outPos' = at + w.len
           /\ history' = [landing |-> [history.landing EXCEPT ![c] =
                                          outPos + LengthOf(pieces, {"entry", "after"})],
                          jumps |-> history.jumps \cup w.jumps,
                          switches |-> history.switches \cup w.operands]
           /\ cur' = c + 1
           /\ UNCHANGED <<method, start, pass, map, widening, injections>>
        \/ ~ ExpectedWidening(c)
    BY DEF write_instruction
  <2> HIDE DEF w, at, pieces
  <2> QED  BY <1>6, <1>8, <2>1
<1> HIDE DEF w, at, pieces
<1>10. /\ Layout' /\ InjectionsInv'
       /\ code' = code /\ Last' = Last /\ code_len' = code_len
       /\ \A k : /\ Pos(k)' = Pos(k)
                 /\ Behind(k)' = Behind(k) /\ Before(k)' = Before(k) /\ AllAt(k)' = AllAt(k)
  BY <1>2, <1>9, LaterPassesKeep
<1>11. \A k \in 1 .. Last : WidenedLength(k)' = WidenedLength(k)
  BY <1>9, <1>10 DEF WidenedLength
<1>12. WideningInv'
  BY <1>1, <1>9, <1>10, <1>11 DEF WideningInv
<1>13. MapInv'
  BY <1>1, <1>9, <1>10, <1>11 DEF MapInv, Interior
<1>14. SettledInv'
  <2> SUFFICES ASSUME NEW k \in 1 .. Last PROVE Needed(k) = widening[Pos(k)]
    BY <1>9, <1>10 DEF SettledInv, Needed, method_code_map, NewDelta
  <2> QED  BY <1>1, <1>2 DEF SettledInv, Settled
<1>15. outPos' = map[Pos(c + 1)] - Behind(c + 1)
  <2>1. map[Pos(c + 1)] = map[Pos(c)] + WidenedLength(c) + Before(c) + Behind(c + 1)
    BY <1>1, <1>2 DEF MapInv
  <2>2. w.len = WidenedLength(c)
    BY <1>8 DEF WrittenRight
  <2> QED  BY <1>4, <1>7, <1>9, <2>1, <2>2
<1>16. Shapes'
  <2>1. outPos' \in Int
    BY <1>4, <1>15
  <2> QED  BY <1>1, <1>2, <1>3, <1>9, <1>10, <2>1 DEF Shapes
<1>17. OutputInv'
  <2>1. outPos' = (CASE pass = "write" -> map[Pos(cur)] - Behind(cur)
                     [] pass = "done" -> map[code_len]
                     [] OTHER -> 0)'
    BY <1>2, <1>9, <1>15 DEF Pos, Behind
  <2>2. DOMAIN history'.landing = 1 .. Last
    BY <1>1, <1>9 DEF OutputInv
  <2>3. ASSUME NEW k \in 1 .. Last, IsWritten(k)' PROVE history'.landing[k] = map[Pos(k)]
    <3>1. k < c + 1
      BY <1>2, <1>9, <2>3 DEF IsWritten
    <3>2. CASE k = c
      BY <1>1, <1>2, <1>9, <3>2 DEF OutputInv
    <3>3. CASE k < c
      <4>1. IsWritten(k) /\ k # c
        BY <1>2, <1>3, <3>3 DEF IsWritten
      <4> QED  BY <1>1, <1>9, <4>1 DEF OutputInv
    <3> QED  BY <1>3, <3>1, <3>2, <3>3
  <2>4. \A j \in history'.jumps :
            /\ j.src \in 1 .. Last /\ code[j.src].op \in Jumps
            /\ j.at + j.delta = map[Pos(code[j.src].target)]
    <3> TAKE j \in history'.jumps
    <3>1. j \in history.jumps \/ j \in w.jumps
      BY <1>9
    <3>2. CASE j \in history.jumps
      BY <1>1, <3>2 DEF OutputInv
    <3>3. CASE j \in w.jumps
      BY <1>2, <1>8, <3>3 DEF WrittenRight
    <3> QED  BY <3>1, <3>2, <3>3
  <2>5. \A operands \in history'.switches : operands % 4 = 0
    <3> TAKE operands \in history'.switches
    <3>1. operands \in history.switches \/ operands \in w.operands
      BY <1>9
    <3>2. CASE operands \in history.switches
      BY <1>1, <3>2 DEF OutputInv
    <3>3. CASE operands \in w.operands
      BY <1>8, <3>3 DEF WrittenRight
    <3> QED  BY <3>1, <3>2, <3>3
  <2>6. pass' = "write" /\ map' = map
    BY <1>2, <1>9
  <2> QED  BY <1>10, <2>1, <2>2, <2>3, <2>4, <2>5, <2>6 DEF OutputInv
<1> QED  BY <1>10, <1>12, <1>13, <1>14, <1>16, <1>17 DEF InjectionInv

\* Every step keeps the invariant.
LEMMA InjectionStep == InjectionInv /\ [Next]_vars => InjectionInv'
<1> SUFFICES ASSUME InjectionInv, [Next]_vars PROVE InjectionInv'
  OBVIOUS
<1>1. CASE UNCHANGED vars
  <2>1. /\ UNCHANGED <<method, start, pass, cur, map, widening, injections, outPos, history>>
        /\ code' = code /\ Last' = Last /\ code_len' = code_len
        /\ \A k : Pos(k)' = Pos(k)
    BY <1>1 DEF vars, code, Last, code_len, Pos
  <2>2. InjectionInv
    OBVIOUS
  <2>3. Layout' /\ Shapes'
    BY <2>1, <2>2 DEF InjectionInv, Layout, Shapes
  <2>4. InjectionsInv'
    BY <2>1, <2>2 DEF InjectionInv, InjectionsInv, Behind, Before, AllAt, Dealt,
       entry_injection_code, before_injection_code, after_injection_code
  <2>5. WideningInv'
    BY <2>1, <2>2 DEF InjectionInv, WideningInv, WidenedLength
  <2>6. MapInv'
    BY <2>1, <2>2 DEF InjectionInv, MapInv, Interior, WidenedLength, Behind, Before
  <2>7. SettledInv'
    BY <2>1, <2>2 DEF InjectionInv, SettledInv, Settled, Needed, NewDelta, method_code_map, Pos, code
  <2>8. OutputInv'
    BY <2>1, <2>2 DEF InjectionInv, OutputInv, IsWritten, Behind
  <2> QED  BY <2>3, <2>4, <2>5, <2>6, <2>7, <2>8 DEF InjectionInv
<1>2. CASE InjectEntry
  BY <1>2, EntryStep
<1>3. CASE inject_for_opcode
  BY <1>3, OpcodeStep
<1>4. CASE adjust_instruction
  BY <1>4, AdjustStep
<1>5. CASE write_instruction
  BY <1>5, WriteStep
<1>6. CASE NextPass("inject", "adjust")
  BY <1>6, NextPassStep
<1>7. CASE NextPass("adjust", "write")
  BY <1>7, NextPassStep
<1>8. CASE NextPass("write", "done")
  BY <1>8, NextPassStep
<1> QED  BY <1>1, <1>2, <1>3, <1>4, <1>5, <1>6, <1>7, <1>8 DEF Next, Pass, Stopped

-----------------------------------------------------------------------------
\* Results.

\* The inductive invariant: whatever has been injected and widened so far, the
\* map displaces every instruction by exactly that.
THEOREM PassesAgree == Spec => []InjectionInv
<1> QED  BY InitInjection, InjectionStep, PTL DEF Spec

\* The invariant says what the runs check.
LEMMA InvariantMeans ==
    ASSUME InjectionInv
    PROVE  MapMatchesOutput /\ SwitchesAligned /\ NeverFatal /\ JumpsLand
<1>1. /\ Layout /\ Shapes /\ OutputInv /\ Last \in Nat
  BY InvFacts
<1>2. MapMatchesOutput
  <2>1. \A k \in 1 .. cur - 1 : pass = "write" => k \in 1 .. Last /\ IsWritten(k)
    BY <1>1 DEF IsWritten, Shapes
  <2> QED  BY <1>1, <2>1 DEF MapMatchesOutput, OutputInv
<1>3. JumpsLand
  <2> SUFFICES ASSUME pass = "done", NEW j \in history.jumps
               PROVE  j.at + j.delta = history.landing[code[j.src].target]
    BY DEF JumpsLand
  <2>1. /\ j.src \in 1 .. Last /\ code[j.src].op \in Jumps
        /\ j.at + j.delta = map[Pos(code[j.src].target)]
    BY <1>1 DEF OutputInv
  <2>2. code[j.src].target \in 1 .. Last
    BY <1>1, <2>1, CodeFacts
  <2>3. IsWritten(code[j.src].target)
    BY DEF IsWritten
  <2> QED  BY <1>1, <2>1, <2>2, <2>3 DEF OutputInv
<1> QED  BY <1>1, <1>2, <1>3 DEF SwitchesAligned, NeverFatal, OutputInv, Shapes

\* The map the passes computed is where the third pass really puts the code.
THEOREM MapIsTheOutput == Spec => []MapMatchesOutput
<1> QED  BY PassesAgree, InvariantMeans, PTL

\* Every jump of the new code lands where its target went, and no short offset
\* is cut off.
THEOREM JumpsLandRight == Spec => []JumpsLand
<1> QED  BY PassesAgree, InvariantMeans, PTL

\* The operands of a switch are at a multiple of four.
THEOREM SwitchesStayAligned == Spec => []SwitchesAligned
<1> QED  BY PassesAgree, InvariantMeans, PTL

\* No assertion of inject_bytecodes fails and write_instruction finds no
\* widening it does not know.
THEOREM NoFatalError == Spec => []NeverFatal
<1> QED  BY PassesAgree, InvariantMeans, PTL

-----------------------------------------------------------------------------
\* Types and order.

\* No instruction is widened away.
LEMMA WidenedPositive ==
    ASSUME InjectionInv, NEW k \in 1 .. Last
    PROVE  WidenedLength(k) \in Nat \ {0}
<1>1. Layout /\ WideningInv /\ Last \in Nat /\ SwitchBody \in Nat
  BY InvFacts, LengthsAssumption
<1>2. WidenedLength(k) \in Int
  BY InvFacts
<1>3. opcode_length(code[k].op, Pos(k)) \in Nat \ {0}
  <2>1. k \in 1 .. Last + 1
    BY <1>1
  <2>2. Pos(k) \in 0 .. code_len /\ code[k].op \in Opcode
    BY <1>1, <2>1, CodeFacts, PositionFacts
  <2> QED  BY <1>1, <2>2, OpcodeLengthType
<1>4. CASE code[k].op = "switch"
  <2>1. WidenedLength(k) - SwitchBody \in 1 .. 4
    BY <1>1, <1>4 DEF WideningInv
  <2> QED  BY <1>1, <1>2, <2>1
<1>5. CASE code[k].op # "switch"
  <2>1. widening[Pos(k)] \in {0, 2, 5}
    BY <1>1, <1>5 DEF WideningInv
  <2>2. widening[Pos(k)] \in Nat
    BY <2>1
  <2> QED  BY <1>3, <2>2 DEF WidenedLength
<1> QED  BY <1>4, <1>5

\* Later instructions land later, the first one not before the new code.
LEMMA LandingFacts ==
    ASSUME InjectionInv
    PROVE  /\ \A k \in 1 .. Last + 1 : map[Pos(k)] \in Nat
           /\ \A k \in 1 .. Last : map[Pos(k)] + Before(k) < map[Pos(k + 1)] - Behind(k + 1) + 1
           /\ \A j, k \in 1 .. Last + 1 : j < k => map[Pos(j)] < map[Pos(k)]
<1> DEFINE f == [k \in 1 .. Last + 1 |-> map[Pos(k)]]
<1>1. /\ Layout /\ MapInv /\ Last \in Nat /\ Last + 1 \in Nat
      /\ \A k \in 1 .. Last + 1 : map[Pos(k)] \in Int
      /\ \A k \in 1 .. Last + 1 : Behind(k) \in Nat /\ Before(k) \in Nat
  BY InvFacts
<1>2. ASSUME NEW k \in 1 .. Last
      PROVE  /\ map[Pos(k)] < map[Pos(k + 1)]
             /\ map[Pos(k)] + Before(k) < map[Pos(k + 1)] - Behind(k + 1) + 1
  <2>1. k \in 1 .. Last + 1 /\ k + 1 \in 1 .. Last + 1
    BY <1>1
  <2>2. map[Pos(k + 1)] = map[Pos(k)] + WidenedLength(k) + Before(k) + Behind(k + 1)
    BY <1>1 DEF MapInv
  <2>3. WidenedLength(k) \in Nat \ {0}
    BY WidenedPositive
  <2>4. /\ map[Pos(k)] \in Int /\ map[Pos(k + 1)] \in Int
        /\ Before(k) \in Nat /\ Behind(k + 1) \in Nat
    BY <1>1, <2>1
  <2> QED  BY <2>2, <2>3, <2>4
<1>3. \A j, k \in 1 .. Last + 1 : j < k => map[Pos(j)] < map[Pos(k)]
  <2>1. f \in [1 .. Last + 1 -> Int]
    BY <1>1
  <2>2. \A k \in 1 .. (Last + 1) - 1 : f[k] < f[k + 1]
    <3> TAKE k \in 1 .. (Last + 1) - 1
    <3>1. k \in 1 .. Last /\ k \in 1 .. Last + 1 /\ k + 1 \in 1 .. Last + 1
      BY <1>1
    <3> QED  BY <1>2, <3>1
  <2>3. \A j, k \in 1 .. Last + 1 : j < k => f[j] < f[k]
    <3> HIDE DEF f
    <3> QED  BY <1>1, <2>1, <2>2, StepsIncrease
  <2> QED  BY <2>3
<1>4. map[Pos(1)] \in Nat
  <2>1. Pos(1) = 0 /\ map[0] = Behind(1) /\ 1 \in 1 .. Last + 1
    BY <1>1 DEF Layout, MapInv
  <2> QED  BY <1>1, <2>1
<1>5. ASSUME NEW k \in 1 .. Last + 1 PROVE map[Pos(k)] \in Nat
  <2>1. 1 \in 1 .. Last + 1 /\ (k = 1 \/ 1 < k)
    BY <1>1
  <2>2. CASE k = 1
    BY <1>4, <2>2
  <2>3. CASE 1 < k
    <3>1. map[Pos(1)] < map[Pos(k)]
      BY <1>3, <2>1, <2>3
    <3>2. map[Pos(k)] \in Int
      BY <1>1
    <3> QED  BY <1>4, <3>1, <3>2
  <2> QED  BY <2>1, <2>2, <2>3
<1> QED  BY <1>2, <1>3, <1>5

\* Every variable has its type.
LEMMA InvariantTypes == ASSUME InjectionInv PROVE TypeOK
<1>1. /\ Layout /\ Shapes /\ MapInv /\ OutputInv /\ Last \in Nat /\ code_len \in Nat
      /\ \A k \in 1 .. Last + 1 : Behind(k) \in Nat /\ Before(k) \in Nat
      /\ \A k \in 1 .. Last + 1 : Pos(k) \in 0 .. code_len
  BY InvFacts
<1>2. \A k \in 1 .. Last + 1 : map[Pos(k)] \in Nat
  BY LandingFacts
<1>3. code_len = Pos(Last + 1) /\ Last + 1 \in 1 .. Last + 1
  BY <1>1 DEF code_len
<1>4. map \in [0 .. code_len -> Nat]
  <2>1. ASSUME NEW p \in 0 .. code_len PROVE map[p] \in Nat
    <3>1. CASE p = code_len
      BY <1>2, <1>3, <3>1
    <3>2. CASE p # code_len
      <4>1. PICK k \in 1 .. Last : Pos(k) <= p /\ p < Pos(k + 1)
        BY <1>1, <3>2, InsideFacts
      <4>2. map[p] = map[Pos(k)] + (p - Pos(k))
        BY <1>1, <4>1 DEF MapInv, Interior
      <4>3. k \in 1 .. Last + 1
        BY <1>1
      <4>4. map[Pos(k)] \in Nat /\ Pos(k) \in Nat /\ p \in Nat
        BY <1>1, <1>2, <4>3
      <4> QED  BY <4>1, <4>2, <4>4
    <3> QED  BY <3>1, <3>2
  <2> QED  BY <1>1, <2>1 DEF Shapes
<1>5. outPos \in Nat
  <2>1. cur \in 1 .. Last + 1
    BY <1>1 DEF Shapes
  <2>2. map[Pos(cur)] \in Nat /\ Behind(cur) \in Nat
    BY <1>1, <1>2, <2>1
  <2>3. CASE pass = "write" /\ cur = 1
    <3>1. map[Pos(cur)] = Behind(cur)
      BY <1>1, <2>3 DEF MapInv, Layout
    <3>2. outPos = map[Pos(cur)] - Behind(cur)
      BY <1>1, <2>3 DEF OutputInv
    <3> QED  BY <2>2, <3>1, <3>2
  <2>4. CASE pass = "write" /\ cur # 1
    <3>1. cur - 1 \in 1 .. Last /\ cur - 1 \in 1 .. Last + 1 /\ (cur - 1) + 1 = cur
      BY <1>1, <2>1, <2>4
    <3>2. map[Pos(cur - 1)] + Before(cur - 1) < map[Pos(cur)] - Behind(cur) + 1
      BY <3>1, LandingFacts
    <3>3. map[Pos(cur - 1)] \in Nat /\ Before(cur - 1) \in Nat
      BY <1>1, <1>2, <3>1
    <3>4. outPos = map[Pos(cur)] - Behind(cur)
      BY <1>1, <2>4 DEF OutputInv
    <3> QED  BY <2>2, <3>2, <3>3, <3>4
  <2>5. CASE pass = "done"
    BY <1>1, <1>2, <1>3, <2>5 DEF OutputInv
  <2>6. CASE pass \notin {"write", "done"}
    BY <1>1, <2>6 DEF OutputInv
  <2> QED  BY <2>3, <2>4, <2>5, <2>6
<1>6. /\ method.code \in Seq([op : Opcode, target : Nat])
      /\ method.objectInit \in BOOLEAN /\ method.callLen \in Nat
  BY <1>1, CodeFacts, LengthsAssumption DEF code, Layout
<1>7. pass \in {"entry", "inject", "adjust", "write", "done", "fatal"} /\ cur \in 1 .. Last + 1
      /\ widening \in [0 .. code_len -> {-3, -2, -1, 0, 1, 2, 3, 5}]
      /\ start \in [1 .. Last + 1 -> Nat]
  BY <1>1 DEF Shapes, Layout
<1> QED  BY <1>4, <1>5, <1>6, <1>7 DEF TypeOK

\* Positions in the new code are never negative, whatever is widened or padded.
THEOREM Types == Spec => []TypeOK
<1> QED  BY PassesAgree, InvariantTypes, PTL
=============================================================================
