-------------------------- MODULE MCBrokerChildren --------------------------
(* Instances of BrokerChildren for TLC.                                    *)
EXTENDS BrokerChildren, TLC

CONSTANT p1

OnePrincipal == [c \in Procs |-> p1]

ChildSymmetry == Permutations(Requests) \cup Permutations(Procs)
=============================================================================
