---------------------------- MODULE MCSocketCaps ----------------------------
(* Instances of SocketCaps for TLC.                                        *)
EXTENDS SocketCaps, TLC

CONSTANT p1

(* Everything belongs to one account.                                      *)
OneOwner == [c \in Creds |-> p1]

DeviceSymmetry == Permutations(Devices)
=============================================================================
