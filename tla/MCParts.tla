------------------------------- MODULE MCParts -------------------------------
(***************************************************************************)
(* Small instances of the parts.                                           *)
(***************************************************************************)
EXTENDS Parts, TLC

(* A tool event is keyed by its call, a session event by its session; two  *)
(* spawn calls of one turn, and agents whose ids name them; a document     *)
(* with one term, one with both, one with the other.                       *)
LogKind == ("f1" :> "tool") @@ ("f2" :> "session")
SpawnName == ("s1" :> "alice") @@ ("s2" :> "bob")
NamesInId == ("a1" :> {"alice"}) @@ ("a2" :> {"bob"})
Turn == [x \in {"s1", "s2", "a1", "a2"} |-> 1]
DocTerms == <<{"t"}, {"t", "u"}, {"u"}>>

=============================================================================
