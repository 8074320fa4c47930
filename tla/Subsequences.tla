--------------------------- MODULE Subsequences ---------------------------
(***************************************************************************)
(* The loop that walks a list and keeps some of its elements, by their     *)
(* places.  (The elements kept are given as a set of places, not as a      *)
(* test, so that facts about Only can be stated once and used everywhere.) *)
(***************************************************************************)
EXTENDS Naturals, Sequences

\* What is kept once the first i elements have been looked at.
Kept(list, places) ==
    LET kept[i \in 0..Len(list)] ==
            IF i = 0 THEN <<>>
            ELSE IF i \in places THEN Append(kept[i - 1], list[i])
            ELSE kept[i - 1]
    IN kept

\* The elements at these places, in the order of the list.
Only(list, places) == Kept(list, places)[Len(list)]
=============================================================================
