---------------------------- MODULE MCHookSession ----------------------------
(* Instances of HookSession.                                                *)
EXTENDS HookSession, TLC

CONSTANTS h1, h2, h3, u1, u2

Hooks == {h1, h2, h3}
Symmetry == Permutations(Hooks)
=============================================================================
