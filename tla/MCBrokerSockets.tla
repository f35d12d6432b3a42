-------------------------- MODULE MCBrokerSockets --------------------------
(* Instances of BrokerSockets for TLC.                                     *)
EXTENDS BrokerSockets, TLC

CONSTANT p1

(* Everything belongs to one account.                                      *)
OneOwner == [c \in Creds |-> p1]

SocketSymmetry == Permutations(Sockets)
=============================================================================
