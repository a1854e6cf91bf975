-------------------------- MODULE MCToolLifecycle --------------------------
(***************************************************************************)
(* ToolLifecycle for TLC: two parallel calls of one tool.                  *)
(***************************************************************************)
EXTENDS ToolLifecycle, TLC

CONSTANTS c1, c2, edit

MCCall == {c1, c2}
MCToolOf == [c \in MCCall |-> edit]
=============================================================================
