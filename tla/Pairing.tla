------------------------------ MODULE Pairing ------------------------------
(***************************************************************************)
(* Pairing a device: the in-memory registry of pairing sessions, the host's *)
(* access_pair_* handlers, the public hello, confirm and status endpoints,  *)
(* the sweeper, and the device rows that outlive them all.                  *)
(*                                                                          *)
(* Every registry method sweeps under its own lock before it looks; here    *)
(* the sweep is a step of its own and the methods are enabled once it is    *)
(* done (Swept), which are the same states.  Clocks are ages: a session     *)
(* passes its ten minutes, the delivery grace and the retention in order.   *)
(* Which failure is the one that pauses the host is left open.              *)
(***************************************************************************)
EXTENDS Naturals, FiniteSets

CONSTANTS
    Sessions,     \* pairing ids, used once
    Beginners,    \* principals who may start a pairing
    Slots,        \* first symbols of a code
    Clients,      \* devices that talk to the public endpoints
    None,         \* no such slot, beginner or client
    MaxOpen,      \* MAX_OPEN_PER_HOST
    Mishaps,      \* what may go wrong
    MaxMishaps    \* bound on how often something does

ASSUME OpenAssumption == MaxOpen \in Nat /\ MaxMishaps \in Nat
ASSUME SessionsAssumption == IsFiniteSet(Sessions)
ASSUME NoneIsNothing == None \notin Slots \cup Beginners \cup Clients

VARIABLES
    state, age, beginner, slot,   \* a session
    peer, right,                  \* the client it exchanged with; was its code right?
    ack,                          \* acknowledged
    starting,                     \* sessions whose begin awaits its audit row
    decide,                       \* a decide handler: its progress
    undelivered, flushing,        \* grants to revoke: queued, taken by a flush
    paused,                       \* the host-wide pause
    rows,                         \* the session's device row
    held,                         \* did its client get the token?
    mishaps

registry == <<state, age, beginner, slot, peer, right, ack>>
handlers == <<starting, decide, undelivered, flushing>>
grants   == <<rows, held>>
vars     == <<registry, handlers, paused, grants, mishaps>>

Codes   == {"open", "exchanged", "awaiting"}
Live    == Codes \cup {"deciding", "allowed"}
Final   == {"delivered", "denied", "burned", "expired", "cancelled"}
States  == Live \cup Final \cup {"unused", "gone"}

TypeOK ==
    /\ state \in [Sessions -> States] /\ age \in [Sessions -> 0..3]
    /\ beginner \in [Sessions -> Beginners \cup {None}]
    /\ slot \in [Sessions -> Slots \cup {None}]
    /\ peer \in [Sessions -> Clients \cup {None}]
    /\ right \in [Sessions -> BOOLEAN] /\ ack \in [Sessions -> BOOLEAN]
    /\ starting \in SUBSET Sessions
    /\ decide \in [Sessions -> {"none", "allow", "deny", "minted", "revoke"}]
    /\ undelivered \in SUBSET Sessions /\ flushing \in SUBSET Sessions
    /\ paused \in BOOLEAN
    /\ rows \in [Sessions -> {"none", "live", "revoked"}]
    /\ held \in [Sessions -> BOOLEAN]
    /\ mishaps \in 0..MaxMishaps
    /\ \A s \in Sessions : state[s] \in Live => slot[s] \in Slots /\ beginner[s] \in Beginners

Init ==
    /\ state = [s \in Sessions |-> "unused"] /\ age = [s \in Sessions |-> 0]
    /\ beginner = [s \in Sessions |-> None] /\ slot = [s \in Sessions |-> None]
    /\ peer = [s \in Sessions |-> None]
    /\ right = [s \in Sessions |-> FALSE] /\ ack = [s \in Sessions |-> FALSE]
    /\ starting = {} /\ decide = [s \in Sessions |-> "none"]
    /\ undelivered = {} /\ flushing = {} /\ paused = FALSE
    /\ rows = [s \in Sessions |-> "none"] /\ held = [s \in Sessions |-> FALSE]
    /\ mishaps = 0

Mishap(kind) ==
    /\ kind \in Mishaps /\ mishaps < MaxMishaps
    /\ mishaps' = mishaps + 1

Becomes(s, st) == state' = [state EXCEPT ![s] = st]

-----------------------------------------------------------------------------
(* Time, the sweep, and failures.                                          *)

Present(s) == state[s] \notin {"unused", "gone"}

Ages(s) ==
    /\ Present(s) /\ age[s] < 3
    /\ age' = [age EXCEPT ![s] = age[s] + 1]
    /\ UNCHANGED <<state, beginner, slot, peer, right, ack, handlers, paused, grants, mishaps>>

(* Mutant: what is being decided or delivered never expires.               *)
DueIfOpen(s) == state[s] \in Codes /\ age[s] >= 1

(* A session that is being decided or delivered has the grace.             *)
Due(s) ==
    /\ state[s] \in Live
    /\ age[s] >= IF state[s] \in {"deciding", "allowed"} THEN 2 ELSE 1

(* Its retention is over, and it is final or about to be.                  *)
Old(s)  == Present(s) /\ age[s] = 3 /\ (state[s] \in Final \/ Due(s))
Swept   == \A s \in Sessions : ~Due(s) /\ ~Old(s)

(* A session leaves the registry; its client keeps what it knows.          *)
Forgotten(S) ==
    /\ age' = [s \in Sessions |-> IF s \in S THEN 0 ELSE age[s]]
    /\ beginner' = [s \in Sessions |-> IF s \in S THEN None ELSE beginner[s]]
    /\ slot' = [s \in Sessions |-> IF s \in S THEN None ELSE slot[s]]

(* The host-wide pause burns every code nobody has decided on.             *)
Pause(after) ==
    /\ paused' = TRUE
    /\ state' = [s \in Sessions |-> IF after[s] \in Codes THEN "burned" ELSE after[s]]
    /\ ack' = [s \in Sessions |-> IF after[s] \in Codes THEN FALSE ELSE ack[s]]

(* count_failure: one more, and perhaps one too many.                      *)
Failure(after) ==
    \/ state' = after /\ UNCHANGED <<ack, paused>>
    \/ Pause(after)

(* Mutant: the grants that time out are forgotten.                         *)
SweepForgets ==
    LET after == [s \in Sessions |-> IF Old(s) THEN "gone"
                                     ELSE IF Due(s) THEN "expired" ELSE state[s]]
    IN  /\ ~Swept
        /\ IF \E s \in Sessions : Due(s) /\ state[s] = "exchanged"
           THEN Failure(after) ELSE state' = after /\ UNCHANGED <<ack, paused>>
        /\ Forgotten({s \in Sessions : Old(s)})
        /\ UNCHANGED <<peer, right, handlers, grants, mishaps>>

(* An exchange that never confirmed counts as a failure.                   *)
Sweep ==
    LET after == [s \in Sessions |-> IF Old(s) THEN "gone"
                                     ELSE IF Due(s) THEN "expired" ELSE state[s]]
    IN  /\ ~Swept
        /\ undelivered' = undelivered \cup {s \in Sessions : Due(s) /\ state[s] = "allowed"}
        /\ IF \E s \in Sessions : Due(s) /\ state[s] = "exchanged"
           THEN Failure(after) ELSE state' = after /\ UNCHANGED <<ack, paused>>
        /\ Forgotten({s \in Sessions : Old(s)})
        /\ UNCHANGED <<peer, right, starting, decide, flushing, grants, mishaps>>

PauseEnds ==
    /\ paused /\ paused' = FALSE
    /\ UNCHANGED <<registry, handlers, grants, mishaps>>

-----------------------------------------------------------------------------
(* access_pair_begin and access_pair_cancel.                               *)

Held == {s \in Sessions : state[s] \in Live}

(* Mutant: a request that waits for the host is acknowledged, not ended.   *)
BeginSpares(b, s, sl) ==
    LET mine == {t \in Sessions : Present(t) /\ beginner[t] = b
                                  /\ state[t] \notin {"deciding", "allowed"}}
    IN  /\ Swept /\ ~paused
        /\ state[s] = "unused" /\ Cardinality(Held \ mine) < MaxOpen
        /\ \A t \in Held \ mine : slot[t] # sl
        /\ state' = [t \in Sessions |-> IF t = s THEN "open"
                                        ELSE IF t \in mine /\ state[t] \in {"open", "exchanged"}
                                             THEN "cancelled" ELSE state[t]]
        /\ ack' = [t \in Sessions |-> IF t \in mine THEN TRUE ELSE ack[t]]
        /\ beginner' = [beginner EXCEPT ![s] = b] /\ slot' = [slot EXCEPT ![s] = sl]
        /\ starting' = starting \cup {s}
        /\ UNCHANGED <<age, peer, right, decide, undelivered, flushing, paused, grants, mishaps>>

(* A new code on a free slot; the beginner's older codes are dead, but not *)
(* a request that is being decided or delivered.                           *)
Begin(b, s, sl) ==
    LET mine == {t \in Sessions : Present(t) /\ beginner[t] = b
                                  /\ state[t] \notin {"deciding", "allowed"}}
    IN  /\ Swept /\ ~paused
        /\ state[s] = "unused" /\ Cardinality(Held \ mine) < MaxOpen
        /\ \A t \in Held \ mine : slot[t] # sl
        /\ state' = [t \in Sessions |-> IF t = s THEN "open"
                                        ELSE IF t \in mine \cap Held THEN "cancelled" ELSE state[t]]
        /\ ack' = [t \in Sessions |-> IF t \in mine THEN TRUE ELSE ack[t]]
        /\ beginner' = [beginner EXCEPT ![s] = b] /\ slot' = [slot EXCEPT ![s] = sl]
        /\ starting' = starting \cup {s}
        /\ UNCHANGED <<age, peer, right, decide, undelivered, flushing, paused, grants, mishaps>>

(* The pair.started row is in, or the handler is gone.                     *)
Started(s) ==
    /\ s \in starting
    /\ starting' = starting \ {s}
    /\ UNCHANGED <<registry, decide, undelivered, flushing, paused, grants, mishaps>>

AbortBegin(s) ==
    /\ s \in starting /\ Mishap("tx")
    /\ starting' = starting \ {s}
    /\ Becomes(s, "gone") /\ Forgotten({s})
    /\ UNCHANGED <<peer, right, ack, decide, undelivered, flushing, paused, grants>>

(* The session is acknowledged even where the answer is a conflict.        *)
Cancel(b, s) ==
    /\ Swept /\ Present(s) /\ beginner[s] = b
    /\ ack' = [ack EXCEPT ![s] = TRUE]
    /\ state' = IF state[s] \in Codes THEN [state EXCEPT ![s] = "cancelled"] ELSE state
    /\ UNCHANGED <<age, beginner, slot, peer, right, handlers, paused, grants, mishaps>>

-----------------------------------------------------------------------------
(* The public endpoints.                                                   *)

(* Mutant: a second hello replaces the first.                              *)
HelloAgain(c, s, good) ==
    /\ Swept /\ ~paused /\ state[s] \in Codes
    /\ good => s \notin starting
    /\ IF state[s] = "open" THEN Becomes(s, "exchanged") ELSE UNCHANGED state
    /\ peer' = [peer EXCEPT ![s] = c] /\ right' = [right EXCEPT ![s] = good]
    /\ UNCHANGED <<age, beginner, slot, ack, handlers, paused, grants, mishaps>>

(* hello on an open code: the exchange, with a right code or a wrong one.  *)
(* Nobody has the right one before access_pair_begin has answered.         *)
Hello(c, s, good) ==
    /\ Swept /\ ~paused /\ state[s] = "open"
    /\ good => s \notin starting
    /\ Becomes(s, "exchanged")
    /\ peer' = [peer EXCEPT ![s] = c] /\ right' = [right EXCEPT ![s] = good]
    /\ UNCHANGED <<age, beginner, slot, ack, handlers, paused, grants, mishaps>>

(* A malformed or second hello burns the code; one past the host's answer  *)
(* is only counted.                                                        *)
BadHello(s) ==
    /\ Swept /\ ~paused /\ state[s] \in Live
    /\ Failure(IF state[s] \in Codes THEN [state EXCEPT ![s] = "burned"] ELSE state)
    /\ UNCHANGED <<age, beginner, slot, peer, right, handlers, grants, mishaps>>

(* A hello to a free slot, a replayed confirm, a status poll unproven.     *)
Guess ==
    /\ Swept /\ ~paused
    /\ Pause(state)
    /\ UNCHANGED <<age, beginner, slot, peer, right, handlers, grants, mishaps>>

Proven(c, s) == peer[s] = c /\ right[s]

Confirm(c, s) ==
    /\ Swept /\ ~paused /\ state[s] = "exchanged"
    /\ IF Proven(c, s) THEN Becomes(s, "awaiting") /\ UNCHANGED <<ack, paused>>
                       ELSE Failure([state EXCEPT ![s] = "burned"])
    /\ UNCHANGED <<age, beginner, slot, peer, right, handlers, grants, mishaps>>

(* The first proven poll after allow takes the token, paused or not.       *)
Status(c, s) ==
    /\ Swept /\ state[s] = "allowed" /\ Proven(c, s)
    /\ Becomes(s, "delivered")
    /\ \/ held' = [held EXCEPT ![s] = TRUE] /\ UNCHANGED mishaps
       \/ Mishap("lost") /\ UNCHANGED held
    /\ UNCHANGED <<age, beginner, slot, peer, right, ack, handlers, paused, rows>>

-----------------------------------------------------------------------------
(* access_pair_decide.                                                     *)

BeginDecide(b, s, answer) ==
    /\ Swept /\ state[s] = "awaiting" /\ beginner[s] = b
    /\ Becomes(s, "deciding")
    /\ decide' = [decide EXCEPT ![s] = answer]
    /\ UNCHANGED <<age, beginner, slot, peer, right, ack, starting, undelivered, flushing, paused, grants, mishaps>>

Deny(s) ==
    /\ decide[s] = "deny"
    /\ decide' = [decide EXCEPT ![s] = "none"]
    /\ IF state[s] = "deciding"
       THEN Becomes(s, "denied") /\ ack' = [ack EXCEPT ![s] = TRUE]
       ELSE UNCHANGED <<state, ack>>
    /\ UNCHANGED <<age, beginner, slot, peer, right, starting, undelivered, flushing, paused, grants, mishaps>>

(* allow: the device row and pair.allowed commit.                          *)
Mint(s) ==
    /\ decide[s] = "allow"
    /\ decide' = [decide EXCEPT ![s] = "minted"]
    /\ rows' = [rows EXCEPT ![s] = "live"]
    /\ UNCHANGED <<registry, starting, undelivered, flushing, paused, held, mishaps>>

(* Mutant: whatever became of the session, it waits again.                 *)
DecideFailsAnyway(s) ==
    /\ decide[s] \in {"allow", "deny"} /\ Mishap("tx")
    /\ decide' = [decide EXCEPT ![s] = "none"]
    /\ Becomes(s, "awaiting")
    /\ UNCHANGED <<age, beginner, slot, peer, right, ack, starting, undelivered, flushing, paused, grants>>

(* The transaction failed: revert_decide.                                  *)
DecideFails(s) ==
    /\ decide[s] \in {"allow", "deny"} /\ Mishap("tx")
    /\ decide' = [decide EXCEPT ![s] = "none"]
    /\ state' = IF state[s] = "deciding" THEN [state EXCEPT ![s] = "awaiting"] ELSE state
    /\ UNCHANGED <<age, beginner, slot, peer, right, ack, starting, undelivered, flushing, paused, grants>>

(* Mutant: the session is taken to be still there.                         *)
FinishAllowAnyway(s) ==
    /\ decide[s] = "minted"
    /\ Becomes(s, "allowed") /\ ack' = [ack EXCEPT ![s] = TRUE]
    /\ decide' = [decide EXCEPT ![s] = "none"]
    /\ UNCHANGED <<age, beginner, slot, peer, right, starting, undelivered, flushing, paused, grants, mishaps>>

(* Mutant: a session that ended meanwhile is not looked at again.          *)
FinishAllowDrops(s) ==
    /\ decide[s] = "minted"
    /\ IF state[s] = "deciding"
       THEN Becomes(s, "allowed") /\ ack' = [ack EXCEPT ![s] = TRUE]
       ELSE UNCHANGED <<state, ack>>
    /\ decide' = [decide EXCEPT ![s] = "none"]
    /\ UNCHANGED <<age, beginner, slot, peer, right, starting, undelivered, flushing, paused, grants, mishaps>>

FinishAllow(s) ==
    /\ decide[s] = "minted"
    /\ IF state[s] = "deciding"
       THEN /\ Becomes(s, "allowed") /\ ack' = [ack EXCEPT ![s] = TRUE]
            /\ decide' = [decide EXCEPT ![s] = "none"]
       ELSE /\ decide' = [decide EXCEPT ![s] = "revoke"]
            /\ UNCHANGED <<state, ack>>
    /\ UNCHANGED <<age, beginner, slot, peer, right, starting, undelivered, flushing, paused, grants, mishaps>>

Revoked(s) == rows' = [rows EXCEPT ![s] = IF rows[s] = "live" THEN "revoked" ELSE rows[s]]

(* The session ended before its grant: revoke_undelivered, tried once.     *)
RevokeMinted(s) ==
    /\ decide[s] = "revoke"
    /\ decide' = [decide EXCEPT ![s] = "none"]
    /\ \/ Revoked(s) /\ UNCHANGED mishaps
       \/ Mishap("revoke") /\ UNCHANGED rows
    /\ UNCHANGED <<registry, starting, undelivered, flushing, paused, held>>

(* The caller hangs up, and its handler is dropped where it waits.         *)
DecideDropped(s) ==
    /\ decide[s] # "none" /\ Mishap("drop")
    /\ decide' = [decide EXCEPT ![s] = "none"]
    /\ UNCHANGED <<registry, starting, undelivered, flushing, paused, grants>>

-----------------------------------------------------------------------------
(* flush_audits, and everything else that touches a row.                   *)

Flush ==
    /\ undelivered # {}
    /\ flushing' = flushing \cup undelivered /\ undelivered' = {}
    /\ UNCHANGED <<registry, starting, decide, paused, grants, mishaps>>

RevokeUndelivered(s) ==
    /\ s \in flushing
    /\ flushing' = flushing \ {s}
    /\ \/ Revoked(s) /\ UNCHANGED mishaps
       \/ Mishap("revoke") /\ UNCHANGED rows
    /\ UNCHANGED <<registry, starting, decide, undelivered, paused, held>>

(* access_device_revoke, from the devices table.                           *)
RevokeDevice(s) ==
    /\ rows[s] = "live" /\ Revoked(s)
    /\ UNCHANGED <<registry, handlers, paused, held, mishaps>>

(* The daemon restarts: only the rows stay.                                *)
Restart ==
    /\ Mishap("restart")
    /\ state' = [s \in Sessions |-> IF Present(s) THEN "gone" ELSE state[s]]
    /\ starting' = {} /\ decide' = [s \in Sessions |-> "none"]
    /\ undelivered' = {} /\ flushing' = {} /\ paused' = FALSE
    /\ Forgotten(Sessions)
    /\ UNCHANGED <<peer, right, ack, grants>>

-----------------------------------------------------------------------------
Next ==
    \/ Sweep \/ PauseEnds \/ Guess \/ Flush \/ Restart
    \/ \E s \in Sessions :
        \/ Ages(s) \/ Started(s) \/ AbortBegin(s) \/ BadHello(s)
        \/ Deny(s) \/ Mint(s) \/ DecideFails(s) \/ FinishAllow(s) \/ RevokeMinted(s)
        \/ DecideDropped(s) \/ RevokeUndelivered(s) \/ RevokeDevice(s)
        \/ \E b \in Beginners :
            \/ Cancel(b, s)
            \/ \E sl \in Slots : Begin(b, s, sl)
            \/ \E answer \in {"allow", "deny"} : BeginDecide(b, s, answer)
        \/ \E c \in Clients :
            \/ Confirm(c, s) \/ Status(c, s)
            \/ \E good \in BOOLEAN : Hello(c, s, good)

Spec == Init /\ [][Next]_vars

(* Time passes, the sweeper ticks and flushes, and a handler goes on.      *)
FairSpec ==
    /\ Spec
    /\ WF_vars(Sweep) /\ WF_vars(Flush)
    /\ \A s \in Sessions :
        /\ WF_vars(Ages(s)) /\ WF_vars(RevokeUndelivered(s))
        /\ WF_vars(Deny(s) \/ Mint(s) \/ DecideFails(s) \/ FinishAllow(s) \/ RevokeMinted(s))

-----------------------------------------------------------------------------
(* A credential, or a session that is to get one, exists only for a device *)
(* that had the code: the one exchange it confirmed was right.             *)
GrantNeedsCode ==
    \A s \in Sessions :
        (rows[s] # "none" \/ held[s] \/ state[s] \in {"awaiting", "deciding", "allowed", "delivered"})
            => right[s] /\ peer[s] # None

(* A slot leads to one session, and the host has no more than it may.      *)
OneSessionPerSlot ==
    /\ Cardinality(Held) <= MaxOpen
    /\ \A s, t \in Held : slot[s] = slot[t] => s = t

(* "1 per beginner": a new code leaves no older one that could be used.    *)
OneCodePerBeginner ==
    \A s, t \in Sessions :
        state[s] \in Codes /\ state[t] \in Codes /\ beginner[s] = beginner[t] => s = t

(* access_pair_pending lists every request that waits for the host.        *)
AwaitingIsPending == \A s \in Sessions : state[s] = "awaiting" => ~ack[s]

(* The open codes: however begins, cancels, burns and decisions meet, each *)
(* has a slot, a beginner and a place in the host's list of its own.       *)
CodesAgree == OneSessionPerSlot /\ OneCodePerBeginner /\ AwaitingIsPending

(* "A grant still undelivered after it is revoked": a grant nobody holds   *)
(* is on its way to its device, or somebody is about to revoke it.         *)
GrantIsHeldOrChased ==
    \A s \in Sessions : rows[s] = "live" /\ ~held[s] =>
        \/ state[s] = "allowed"
        \/ decide[s] \in {"minted", "revoke"}
        \/ s \in undelivered \cup flushing

(* A session that ended is never taken up again, whatever answer arrives.  *)
FinalStaysFinal ==
    [][\A s \in Sessions : state[s] \in Final \cup {"gone"} =>
            state'[s] \in {state[s], "gone"}]_vars

(* Every session ends, so that its keep-alive lets the daemon idle out.    *)
SessionsEnd == \A s \in Sessions : state[s] \in Live ~> state[s] \notin Live

(* A grant is held, or revoked in the end.                                 *)
GrantIsSettled ==
    \A s \in Sessions : rows[s] = "live" ~> held[s] \/ rows[s] = "revoked"
=============================================================================
