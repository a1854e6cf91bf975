--------------------------- MODULE MCSessionStore ---------------------------
(***************************************************************************)
(* SessionStore for TLC: two sessions over a cap of one resident session.  *)
(***************************************************************************)
EXTENDS SessionStore, TLC

Sessions == Permutations(Session)
=============================================================================
