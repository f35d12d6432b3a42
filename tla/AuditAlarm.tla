----------------------------- MODULE AuditAlarm -----------------------------
(***************************************************************************)
(* What the audit chain promises a server: once it has seen the chain      *)
(* broken, access changes are refused until an operator reseals the break. *)
(* Only lost or altered rows, or a restart, may make it forget one.        *)
(***************************************************************************)
EXTENDS Naturals

VARIABLES
    alarm,      \* has the server seen a break nobody has resealed?
    admitting,  \* has it let through an access change not committed yet?
    reseals,    \* reseals by operators
    trouble     \* losses of rows and crashes

vars == <<alarm, admitting, reseals, trouble>>

Init == alarm = FALSE /\ admitting = FALSE /\ reseals = 0 /\ trouble = 0

Raise ==
    /\ ~alarm /\ alarm' = TRUE
    /\ UNCHANGED <<admitting, reseals, trouble>>

Admit ==
    /\ ~alarm /\ ~admitting /\ admitting' = TRUE
    /\ UNCHANGED <<alarm, reseals, trouble>>

Settle ==
    /\ admitting /\ admitting' = FALSE
    /\ UNCHANGED <<alarm, reseals, trouble>>

(* It may end the alarm, or leave another break standing.                  *)
Reseal ==
    /\ reseals' = reseals + 1 /\ alarm' \in {FALSE, alarm}
    /\ UNCHANGED <<admitting, trouble>>

Trouble ==
    /\ trouble' = trouble + 1 /\ alarm' \in BOOLEAN
    /\ admitting' \in {FALSE, admitting}
    /\ UNCHANGED reseals

Next == Raise \/ Admit \/ Settle \/ Reseal \/ Trouble

Spec == Init /\ [][Next]_vars
=============================================================================
