------------------------- MODULE CodeAttributesMC --------------------------
(***************************************************************************)
(* Instances of CodeAttributes for TLC, and with it of MethodInjection:    *)
(* every valid method of up to Short instructions, and those of Long       *)
(* instructions without plain, goto and goto_w.  The short branch limit is *)
(* one that a single injection is enough to exceed.                        *)
(***************************************************************************)
EXTENDS CodeAttributes

CONSTANTS
    Short, Long,   \* lengths of methods, in instructions
    CallLen        \* bytes injected at the entry of some of the short ones

Instructions(n, ops) ==
    [op : ops \ Jumps, target : {0}] \cup [op : ops \cap Jumps, target : 1 .. n]
ShortMethods ==
    UNION {[code : [1 .. n -> Instructions(n, Opcode)], objectInit : {FALSE}, callLen : {0, CallLen}]
               \cup [code : [1 .. n -> Instructions(n, Opcode)], objectInit : {TRUE}, callLen : {0}] :
           n \in 1 .. Short}
LongMethods ==
    [code : [1 .. Long -> Instructions(Long, Opcode \ {"plain", "goto", "goto_w"})],
     objectInit : {FALSE}, callLen : {0}]
MethodsToRewrite == ShortMethods \cup LongMethods
=============================================================================
