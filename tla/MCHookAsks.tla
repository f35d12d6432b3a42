----------------------------- MODULE MCHookAsks -----------------------------
(* Instances of HookAsks for TLC.                                          *)
EXTENDS HookAsks, TLC

AskSymmetry == Permutations(Asks)
=============================================================================
