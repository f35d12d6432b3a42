---------------------------- MODULE MCAskRelay -----------------------------
(* Instances of AskRelay for TLC.                                          *)
EXTENDS AskRelay, TLC

OneEach == [desktop |-> 1, daemon |-> 1]
=============================================================================
