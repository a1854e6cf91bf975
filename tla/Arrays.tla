------------------------------- MODULE Arrays -------------------------------
(***************************************************************************)
(* Array.prototype.filter, by a recursive function: SelectSeq computes the *)
(* same, but the proof system cannot look into it.                         *)
(***************************************************************************)
EXTENDS Integers, Sequences

(* The elements of s that are among those to keep, in their order.         *)
Filter(s, keep) ==
  LET upTo[i \in 0 .. Len(s)] ==
        IF i = 0 THEN <<>>
        ELSE IF s[i] \in keep THEN Append(upTo[i - 1], s[i]) ELSE upTo[i - 1]
  IN  upTo[Len(s)]

=============================================================================
