----------------------------- MODULE MCPairing -----------------------------
(* Instances of Pairing for TLC.                                           *)
EXTENDS Pairing, TLC

PairSymmetry == Permutations(Slots) \cup Permutations(Clients) \cup Permutations(Sessions)
                \cup Permutations(Beginners)
=============================================================================
