---------------------------- MODULE RequestTally ----------------------------
(***************************************************************************)
(* What getRequestStats promises about one heap walk: the tagged objects   *)
(* are tabulated by request id, and the table is delivered as a whole or   *)
(* not at all.                                                             *)
(***************************************************************************)
EXTENDS Integers

CONSTANTS
    Ids,      \* the request ids that occur as tags
    Sizes,    \* the sizes of heap objects
    MaxInt    \* largest C int: memoryUsed is an int

VARIABLES
    tally,    \* tally[id]: objects, arrays and memory counted for id
    outcome   \* "walking", "delivered", "failed"

\* Conversion to int of the width MaxInt stands for.
ToInt(n) == ((n + MaxInt + 1) % (2 * (MaxInt + 1))) - (MaxInt + 1)

Zero == [objectCount |-> 0, arrayCount |-> 0, memoryUsed |-> 0]

Init ==
    /\ tally = [id \in Ids |-> Zero]
    /\ outcome = "walking"

Visit(id, size, isArray) ==
    /\ outcome = "walking"
    /\ tally' = [tally EXCEPT ![id] =
                   [objectCount |-> @.objectCount + (IF isArray THEN 0 ELSE 1),
                    arrayCount  |-> @.arrayCount + (IF isArray THEN 1 ELSE 0),
                    memoryUsed  |-> ToInt(@.memoryUsed + size)]]
    /\ UNCHANGED outcome

Finish ==
    /\ outcome = "walking"
    /\ outcome' \in {"delivered", "failed"}
    /\ UNCHANGED tally

Next == Finish \/ \E id \in Ids, size \in Sizes, isArray \in BOOLEAN : Visit(id, size, isArray)

Spec == Init /\ [][Next]_<<tally, outcome>>
=============================================================================
