------------------------------- MODULE Lists -------------------------------
(***************************************************************************)
(* Array.prototype.filter, as the managers of the bus use it on what they  *)
(* remember: a recursive function in place of SelectSeq, so that proofs    *)
(* can say what it leaves.                                                 *)
(***************************************************************************)
EXTENDS Integers, Sequences

\* The items of a list that are among those, in their order.
Kept(items, those) ==
  LET kept[i \in 0..Len(items)] ==
        IF i = 0 THEN <<>>
        ELSE IF items[i] \in those THEN Append(kept[i - 1], items[i])
        ELSE kept[i - 1]
  IN kept[Len(items)]
============================================================================
