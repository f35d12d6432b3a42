--------------------------- MODULE MCKekRotation ---------------------------
(* Instances of KekRotation for TLC.                                       *)
EXTENDS KekRotation

(* Crashes or failing stores in a behaviour, either with runs that overlap *)
(* or without.                                                             *)
CrashOrFault == {T \in SUBSET {"crash", "fault", "overlap"} : ~{"crash", "fault"} \subseteq T}
=============================================================================
