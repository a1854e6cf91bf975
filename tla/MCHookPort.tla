----------------------------- MODULE MCHookPort -----------------------------
(***************************************************************************)
(* Model-checking instance of HookPort, any three of four cores: c1 and c2 *)
(* are ordinary ones, c3 is run with INSPECTOR_HOOK_CLAIM_PORT=1 and c4    *)
(* with --mcp.                                                             *)
(***************************************************************************)
EXTENDS HookPort

CONSTANTS c1, c2, c3, c4

MCCore == {c1, c2, c3, c4}
MCForcing == {c3}
MCMcp == {c4}

=============================================================================
