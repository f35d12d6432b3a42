--------------------------- MODULE PairingProofs ---------------------------
(***************************************************************************)
(* Pairing's safety for any number of sessions, principals and devices.    *)
(***************************************************************************)
EXTENDS Pairing, FiniteSetTheorems, TLAPS

USE DEF registry, handlers, grants, Codes, Live, Final, States, Becomes, Present, Mishap

(* A failure leaves the sessions as the caller has them, or burns codes.   *)
LEMMA FailureTypes ==
    ASSUME ack \in [Sessions -> BOOLEAN], paused \in BOOLEAN,
           NEW after \in [Sessions -> States], Failure(after) \/ Pause(after)
    PROVE  /\ state' \in [Sessions -> States]
           /\ ack' \in [Sessions -> BOOLEAN] /\ paused' \in BOOLEAN
           /\ \A s \in Sessions : \/ state'[s] = after[s]
                                  \/ after[s] \in Codes /\ state'[s] = "burned"
BY DEF Failure, Pause

LEMMA PairTypes == ASSUME TypeOK, [Next]_vars PROVE TypeOK'
<1> USE NoneIsNothing, OpenAssumption DEF TypeOK
<1>1. CASE Sweep
  <2> DEFINE after == [s \in Sessions |-> IF Old(s) THEN "gone"
                                         ELSE IF Due(s) THEN "expired" ELSE state[s]]
  <2>1. after \in [Sessions -> States]
    OBVIOUS
  <2>2. /\ state' \in [Sessions -> States] /\ ack' \in [Sessions -> BOOLEAN] /\ paused' \in BOOLEAN
        /\ \A s \in Sessions : state'[s] \in Live => state[s] \in Live /\ ~Old(s)
    BY <1>1, <2>1, FailureTypes DEF Sweep
  <2>3. /\ age' \in [Sessions -> 0..3]
        /\ beginner' \in [Sessions -> Beginners \cup {None}] /\ slot' \in [Sessions -> Slots \cup {None}]
        /\ \A s \in Sessions : ~Old(s) => slot'[s] = slot[s] /\ beginner'[s] = beginner[s]
    BY <1>1 DEF Sweep, Forgotten
  <2> QED
    BY <1>1, <2>2, <2>3 DEF Sweep
<1>2. CASE PauseEnds
  BY <1>2 DEF PauseEnds
<1>3. CASE Guess
  BY <1>3, FailureTypes DEF Guess
<1>4. CASE Flush
  BY <1>4 DEF Flush
<1>5. CASE Restart
  <2>1. \A s \in Sessions : state'[s] \notin Live
    BY <1>5 DEF Restart
  <2>2. /\ state' \in [Sessions -> States] /\ age' \in [Sessions -> 0..3]
        /\ beginner' \in [Sessions -> Beginners \cup {None}] /\ slot' \in [Sessions -> Slots \cup {None}]
    BY <1>5 DEF Restart, Forgotten
  <2>3. /\ starting' \in SUBSET Sessions
        /\ decide' \in [Sessions -> {"none", "allow", "deny", "minted", "revoke"}]
        /\ undelivered' \in SUBSET Sessions /\ flushing' \in SUBSET Sessions
        /\ mishaps' \in 0..MaxMishaps
    BY <1>5 DEF Restart
  <2>5. paused' \in BOOLEAN
    BY <1>5, Zenon DEF Restart
  <2>4. UNCHANGED <<peer, right, ack, rows, held>>
    BY <1>5 DEF Restart
  <2> HIDE DEF Live, States
  <2> QED
    BY <2>1, <2>2, <2>3, <2>4, <2>5
<1>6. ASSUME NEW s \in Sessions, Ages(s) PROVE TypeOK'
  BY <1>6 DEF Ages
<1>7. ASSUME NEW s \in Sessions, Started(s) PROVE TypeOK'
  BY <1>7 DEF Started
<1>8. ASSUME NEW s \in Sessions, AbortBegin(s) PROVE TypeOK'
  BY <1>8 DEF AbortBegin, Forgotten
<1>9. ASSUME NEW s \in Sessions, BadHello(s) PROVE TypeOK'
  <2> DEFINE after == IF state[s] \in Codes THEN [state EXCEPT ![s] = "burned"] ELSE state
  <2>1. after \in [Sessions -> States] /\ \A t \in Sessions : after[t] \in Live => state[t] \in Live
    OBVIOUS
  <2>2. Failure(after)
    BY <1>9 DEF BadHello
  <2> HIDE DEF after
  <2>3. /\ state' \in [Sessions -> States] /\ ack' \in [Sessions -> BOOLEAN] /\ paused' \in BOOLEAN
        /\ \A t \in Sessions : state'[t] \in Live => state[t] \in Live
    BY <2>1, <2>2, FailureTypes
  <2> QED
    BY <1>9, <2>3 DEF BadHello
<1>10. ASSUME NEW s \in Sessions, Deny(s) PROVE TypeOK'
  BY <1>10 DEF Deny
<1>11. ASSUME NEW s \in Sessions, Mint(s) PROVE TypeOK'
  BY <1>11 DEF Mint
<1>12. ASSUME NEW s \in Sessions, DecideFails(s) PROVE TypeOK'
  BY <1>12 DEF DecideFails
<1>13. ASSUME NEW s \in Sessions, FinishAllow(s) PROVE TypeOK'
  BY <1>13 DEF FinishAllow
<1>14. ASSUME NEW s \in Sessions, RevokeMinted(s) PROVE TypeOK'
  BY <1>14 DEF RevokeMinted, Revoked
<1>15. ASSUME NEW s \in Sessions, DecideDropped(s) PROVE TypeOK'
  BY <1>15 DEF DecideDropped
<1>16. ASSUME NEW s \in Sessions, RevokeUndelivered(s) PROVE TypeOK'
  BY <1>16 DEF RevokeUndelivered, Revoked
<1>17. ASSUME NEW s \in Sessions, RevokeDevice(s) PROVE TypeOK'
  BY <1>17 DEF RevokeDevice, Revoked
<1>18. ASSUME NEW s \in Sessions, NEW b \in Beginners, Cancel(b, s) PROVE TypeOK'
  BY <1>18 DEF Cancel
<1>19. ASSUME NEW s \in Sessions, NEW b \in Beginners, NEW sl \in Slots, Begin(b, s, sl) PROVE TypeOK'
  BY <1>19 DEF Begin
<1>20. ASSUME NEW s \in Sessions, NEW b \in Beginners, NEW answer \in {"allow", "deny"},
            BeginDecide(b, s, answer)
     PROVE  TypeOK'
  BY <1>20 DEF BeginDecide
<1>21. ASSUME NEW s \in Sessions, NEW c \in Clients, Confirm(c, s) PROVE TypeOK'
  <2> DEFINE after == [state EXCEPT ![s] = "burned"]
  <2>1. CASE Proven(c, s)
    BY <1>21, <2>1 DEF Confirm
  <2>2. CASE ~Proven(c, s)
    <3>1. after \in [Sessions -> States] /\ \A t \in Sessions : after[t] \in Live => state[t] \in Live
      OBVIOUS
    <3>2. Failure(after)
      BY <1>21, <2>2 DEF Confirm
    <3> HIDE DEF after
    <3>3. /\ state' \in [Sessions -> States] /\ ack' \in [Sessions -> BOOLEAN] /\ paused' \in BOOLEAN
          /\ \A t \in Sessions : state'[t] \in Live => state[t] \in Live
      BY <3>1, <3>2, FailureTypes
    <3> QED
      BY <1>21, <3>3 DEF Confirm
  <2> QED
    BY <2>1, <2>2
<1>22. ASSUME NEW s \in Sessions, NEW c \in Clients, Status(c, s) PROVE TypeOK'
  <2>1. held' \in [Sessions -> BOOLEAN]
    BY <1>22 DEF Status
  <2>2. mishaps' \in 0..MaxMishaps
    BY <1>22 DEF Status
  <2> QED
    BY <1>22, <2>1, <2>2 DEF Status
<1>23. ASSUME NEW s \in Sessions, NEW c \in Clients, NEW good \in BOOLEAN, Hello(c, s, good) PROVE TypeOK'
  BY <1>23 DEF Hello
<1>24. CASE UNCHANGED vars
  BY <1>24 DEF vars
<1> QED
  BY <1>1, <1>2, <1>3, <1>4, <1>5, <1>6, <1>7, <1>8, <1>9, <1>10, <1>11, <1>12, <1>13, <1>14, <1>15, <1>16, <1>17, <1>18, <1>19, <1>20, <1>21, <1>22, <1>23, <1>24 DEF Next

(* Every variable stays of its type, and a session that can be used has a  *)
(* slot and a beginner, whatever expires, fails, is dropped or restarts.   *)
THEOREM PairTypeCorrect == Spec => []TypeOK
<1>1. ASSUME Init PROVE TypeOK
  <2>1. \A s \in Sessions : state[s] \notin Live
    BY <1>1 DEF Init
  <2>2. /\ right \in [Sessions -> BOOLEAN] /\ ack \in [Sessions -> BOOLEAN]
        /\ held \in [Sessions -> BOOLEAN]
    BY <1>1, Zenon DEF Init
  <2>3. /\ state \in [Sessions -> States] /\ age \in [Sessions -> 0..3]
        /\ beginner \in [Sessions -> Beginners \cup {None}] /\ slot \in [Sessions -> Slots \cup {None}]
        /\ peer \in [Sessions -> Clients \cup {None}]
        /\ rows \in [Sessions -> {"none", "live", "revoked"}]
    BY <1>1 DEF Init
  <2>4. /\ starting \in SUBSET Sessions
        /\ decide \in [Sessions -> {"none", "allow", "deny", "minted", "revoke"}]
        /\ undelivered \in SUBSET Sessions /\ flushing \in SUBSET Sessions
        /\ mishaps \in 0..MaxMishaps
    BY <1>1, OpenAssumption DEF Init
  <2>5. paused \in BOOLEAN
    BY <1>1, Zenon DEF Init
  <2> HIDE DEF Live, States
  <2> QED
    BY <2>1, <2>2, <2>3, <2>4, <2>5 DEF TypeOK
<1> QED
  BY <1>1, PairTypes, PTL DEF Spec
-----------------------------------------------------------------------------
(* A session the host has not ended is the only kind a step revives.       *)
LEMMA FinalStep ==
    ASSUME TypeOK, [Next]_vars, NEW s \in Sessions, state[s] \in Final \cup {"gone"}
    PROVE  state'[s] \in {state[s], "gone"}
<1> USE DEF TypeOK
<1>1. CASE Sweep
  <2> DEFINE after == [t \in Sessions |-> IF Old(t) THEN "gone"
                                         ELSE IF Due(t) THEN "expired" ELSE state[t]]
  <2>1. after \in [Sessions -> States] /\ after[s] \in {state[s], "gone"}
    BY DEF Due
  <2>2. state' = after \/ Failure(after)
    BY <1>1 DEF Sweep
  <2> HIDE DEF after
  <2> QED
    BY <2>1, <2>2, FailureTypes
<1>2. CASE Guess
  BY <1>2, FailureTypes DEF Guess
<1>3. ASSUME NEW t \in Sessions, BadHello(t) PROVE state'[s] = state[s]
  <2> DEFINE after == IF state[t] \in Codes THEN [state EXCEPT ![t] = "burned"] ELSE state
  <2>1. after \in [Sessions -> States] /\ after[s] = state[s]
    OBVIOUS
  <2>2. Failure(after)
    BY <1>3 DEF BadHello
  <2> HIDE DEF after
  <2> QED
    BY <2>1, <2>2, FailureTypes
<1>4. ASSUME NEW t \in Sessions, NEW c \in Clients, Confirm(c, t) PROVE state'[s] = state[s]
  <2> DEFINE after == [state EXCEPT ![t] = "burned"]
  <2>1. after \in [Sessions -> States] /\ after[s] = state[s]
    BY <1>4 DEF Confirm
  <2>2. Failure(after) \/ state' = [state EXCEPT ![t] = "awaiting"]
    BY <1>4 DEF Confirm
  <2>3. state[t] = "exchanged"
    BY <1>4 DEF Confirm
  <2> HIDE DEF after
  <2> QED
    BY <2>1, <2>2, <2>3, FailureTypes
<1>5. ASSUME NEW t \in Sessions, AbortBegin(t) PROVE state'[s] \in {state[s], "gone"}
  BY <1>5 DEF AbortBegin
<1>6. CASE Restart
  BY <1>6 DEF Restart
<1>7. ASSUME NEW t \in Sessions, Deny(t) \/ FinishAllow(t) PROVE state'[s] = state[s]
  BY <1>7 DEF Deny, FinishAllow
<1>8. ASSUME NEW t \in Sessions, DecideFails(t) PROVE state'[s] = state[s]
  BY <1>8 DEF DecideFails
<1>9. ASSUME NEW t \in Sessions, NEW b \in Beginners,
             Cancel(b, t) \/ (\E sl \in Slots : Begin(b, t, sl))
                          \/ (\E answer \in {"allow", "deny"} : BeginDecide(b, t, answer))
     PROVE  state'[s] = state[s]
  <2>1. CASE Cancel(b, t)
    BY <2>1 DEF Cancel
  <2>2. ASSUME NEW sl \in Slots, Begin(b, t, sl) PROVE state'[s] = state[s]
    BY <2>2 DEF Begin, Held
  <2>3. ASSUME NEW answer \in {"allow", "deny"}, BeginDecide(b, t, answer) PROVE state'[s] = state[s]
    BY <2>3 DEF BeginDecide
  <2> QED
    BY <1>9, <2>1, <2>2, <2>3
<1>10. ASSUME NEW t \in Sessions, NEW c \in Clients,
              Status(c, t) \/ \E good \in BOOLEAN : Hello(c, t, good)
      PROVE  state'[s] = state[s]
  BY <1>10 DEF Status, Hello
<1>11. ASSUME \/ PauseEnds \/ Flush \/ UNCHANGED vars
             \/ \E t \in Sessions : \/ Ages(t) \/ Started(t) \/ Mint(t) \/ RevokeMinted(t)
                                    \/ DecideDropped(t) \/ RevokeUndelivered(t) \/ RevokeDevice(t)
      PROVE  state'[s] = state[s]
  BY <1>11 DEF PauseEnds, Flush, vars, Ages, Started, Mint, RevokeMinted, DecideDropped,
               RevokeUndelivered, RevokeDevice
<1> QED
  BY <1>1, <1>2, <1>3, <1>4, <1>5, <1>6, <1>7, <1>8, <1>9, <1>10, <1>11 DEF Next

(* Whatever arrives late, a decision, an answer, a failure of the database *)
(* or a timeout, a session that ended is never taken up again.             *)
THEOREM EndedIsEnded == Spec => FinalStaysFinal
<1>1. ASSUME TypeOK, [Next]_vars
      PROVE  [\A s \in Sessions : state[s] \in Final \cup {"gone"} =>
                state'[s] \in {state[s], "gone"}]_vars
  BY <1>1, FinalStep
<1> QED
  BY <1>1, PairTypeCorrect, PTL DEF Spec, FinalStaysFinal

-----------------------------------------------------------------------------
(* Whoever waits for the host, is decided on or has a row had the code;    *)
(* an unused or open session has none of that yet.                         *)
Credited(s) ==
    \/ rows[s] # "none" \/ held[s] \/ decide[s] # "none"
    \/ state[s] \in {"awaiting", "deciding", "allowed", "delivered"}

Earned ==
    /\ \A s \in Sessions : Credited(s) => right[s] /\ peer[s] # None
    /\ \A s \in Sessions : state[s] \in {"unused", "open"} => ~Credited(s)

(* Earned survives what adds no credit and takes up no session.            *)
LEMMA EarnedKept ==
    ASSUME Earned, UNCHANGED <<peer, right>>,
           \A s \in Sessions : Credited(s)' => Credited(s),
           \A s \in Sessions : state'[s] \in {"unused", "open"} => state[s] \in {"unused", "open"}
    PROVE  Earned'
BY DEF Earned

LEMMA EarnedStep == ASSUME TypeOK, Earned, [Next]_vars PROVE Earned'
<1> USE DEF TypeOK
<1>1. ASSUME NEW after \in [Sessions -> States], Failure(after) \/ Pause(after),
             UNCHANGED <<peer, right, rows, held, decide>>,
             \A s \in Sessions : after[s] \in {state[s], "gone", "expired", "burned"}
      PROVE  Earned'
  <2>1. \A s \in Sessions : state'[s] \in {state[s], "gone", "expired", "burned"}
    BY <1>1, FailureTypes
  <2> QED
    BY <1>1, <2>1, EarnedKept DEF Credited
<1>2. CASE Sweep
  <2> DEFINE after == [s \in Sessions |-> IF Old(s) THEN "gone"
                                         ELSE IF Due(s) THEN "expired" ELSE state[s]]
  <2>1. after \in [Sessions -> States]
        /\ \A s \in Sessions : after[s] \in {state[s], "gone", "expired", "burned"}
    OBVIOUS
  <2>2. state' = after \/ Failure(after)
    BY <1>2 DEF Sweep
  <2>3. UNCHANGED <<peer, right, rows, held, decide>>
    BY <1>2 DEF Sweep
  <2> HIDE DEF after
  <2>4. CASE state' = after
    BY <2>1, <2>3, <2>4, EarnedKept DEF Credited
  <2> QED
    BY <1>1, <2>1, <2>2, <2>3, <2>4
<1>3. CASE Guess
  BY <1>1, <1>3 DEF Guess
<1>4. ASSUME NEW t \in Sessions, BadHello(t) PROVE Earned'
  <2> DEFINE after == IF state[t] \in Codes THEN [state EXCEPT ![t] = "burned"] ELSE state
  <2>1. after \in [Sessions -> States]
        /\ \A s \in Sessions : after[s] \in {state[s], "gone", "expired", "burned"}
    OBVIOUS
  <2>2. Failure(after) /\ UNCHANGED <<peer, right, rows, held, decide>>
    BY <1>4 DEF BadHello
  <2> HIDE DEF after
  <2> QED
    BY <1>1, <2>1, <2>2
<1>5. ASSUME NEW t \in Sessions, NEW c \in Clients, Confirm(c, t) PROVE Earned'
  <2>1. CASE Proven(c, t)
    <3>1. /\ \A s \in Sessions : Credited(s)' => Credited(s) \/ s = t
          /\ \A s \in Sessions : state'[s] \in {"unused", "open"} => state[s] \in {"unused", "open"} /\ s # t
      BY <1>5, <2>1 DEF Confirm, Credited
    <3>2. right[t] /\ peer[t] # None
      BY <2>1, NoneIsNothing DEF Proven
    <3> QED
      BY <1>5, <3>1, <3>2 DEF Confirm, Earned
  <2>2. CASE ~Proven(c, t)
    <3> DEFINE after == [state EXCEPT ![t] = "burned"]
    <3>1. after \in [Sessions -> States]
          /\ \A s \in Sessions : after[s] \in {state[s], "gone", "expired", "burned"}
      OBVIOUS
    <3>2. Failure(after) /\ UNCHANGED <<peer, right, rows, held, decide>>
      BY <1>5, <2>2 DEF Confirm
    <3> HIDE DEF after
    <3> QED
      BY <1>1, <3>1, <3>2
  <2> QED
    BY <2>1, <2>2
<1>6. ASSUME NEW t \in Sessions, NEW c \in Clients, NEW good \in BOOLEAN, Hello(c, t, good) PROVE Earned'
  <2>1. /\ \A s \in Sessions : Credited(s)' => Credited(s) /\ s # t
        /\ \A s \in Sessions : state'[s] \in {"unused", "open"} => state[s] \in {"unused", "open"}
    BY <1>6 DEF Hello, Credited, Earned
  <2>2. \A s \in Sessions : s # t => peer'[s] = peer[s] /\ right'[s] = right[s]
    BY <1>6 DEF Hello
  <2> QED
    BY <2>1, <2>2 DEF Earned
<1>7. ASSUME NEW t \in Sessions,
             \/ Deny(t) \/ Mint(t) \/ DecideFails(t) \/ FinishAllow(t) \/ RevokeMinted(t)
             \/ DecideDropped(t) \/ RevokeUndelivered(t) \/ RevokeDevice(t)
      PROVE  Earned'
  <2>1. UNCHANGED <<peer, right, held>>
    BY <1>7 DEF Deny, Mint, DecideFails, FinishAllow, RevokeMinted, DecideDropped, RevokeUndelivered, RevokeDevice
  <2>2. CASE Deny(t) \/ DecideFails(t) \/ FinishAllow(t)
    <3>1. \A s \in Sessions : Credited(s)' => Credited(s)
      BY <2>2, <2>1 DEF Deny, DecideFails, FinishAllow, Credited
    <3>2. \A s \in Sessions : state'[s] \in {"unused", "open"} => state[s] \in {"unused", "open"}
      BY <2>2 DEF Deny, DecideFails, FinishAllow
    <3> QED
      BY <2>1, <3>1, <3>2, EarnedKept
  <2>3. CASE Mint(t) \/ RevokeMinted(t) \/ DecideDropped(t)
    <3>1. \A s \in Sessions : Credited(s)' => Credited(s)
      BY <2>3, <2>1 DEF Mint, RevokeMinted, DecideDropped, Revoked, Credited
    <3>2. UNCHANGED state
      BY <2>3 DEF Mint, RevokeMinted, DecideDropped
    <3> QED
      BY <2>1, <3>1, <3>2, EarnedKept
  <2>4. CASE RevokeUndelivered(t) \/ RevokeDevice(t)
    <3>1. \A s \in Sessions : Credited(s)' => Credited(s)
      BY <2>4, <2>1 DEF RevokeUndelivered, RevokeDevice, Revoked, Credited
    <3>2. UNCHANGED state
      BY <2>4 DEF RevokeUndelivered, RevokeDevice
    <3> QED
      BY <2>1, <3>1, <3>2, EarnedKept
  <2> QED
    BY <1>7, <2>2, <2>3, <2>4
<1>8. ASSUME NEW t \in Sessions, NEW b \in Beginners, NEW sl \in Slots, Begin(b, t, sl) PROVE Earned'
  <2>1. UNCHANGED <<peer, right, rows, held, decide>>
    BY <1>8 DEF Begin
  <2>2. \A s \in Sessions : Credited(s)' => Credited(s)
    BY <1>8, <2>1 DEF Begin, Credited
  <2>3. \A s \in Sessions : state'[s] \in {"unused", "open"} => state[s] \in {"unused", "open"}
    BY <1>8 DEF Begin
  <2> QED
    BY <2>1, <2>2, <2>3, EarnedKept
<1>9. ASSUME NEW t \in Sessions, NEW b \in Beginners, NEW answer \in {"allow", "deny"}, BeginDecide(b, t, answer) PROVE Earned'
  <2>1. UNCHANGED <<peer, right, rows, held>>
    BY <1>9 DEF BeginDecide
  <2>2. \A s \in Sessions : Credited(s)' => Credited(s)
    BY <1>9, <2>1 DEF BeginDecide, Credited
  <2>3. \A s \in Sessions : state'[s] \in {"unused", "open"} => state[s] \in {"unused", "open"}
    BY <1>9 DEF BeginDecide
  <2> QED
    BY <2>1, <2>2, <2>3, EarnedKept
<1>10. ASSUME NEW t \in Sessions, NEW c \in Clients, Status(c, t) PROVE Earned'
  <2>1. UNCHANGED <<peer, right, rows, decide>>
    BY <1>10 DEF Status
  <2>2. \A s \in Sessions : s # t => held'[s] = held[s] /\ state'[s] = state[s]
    BY <1>10 DEF Status
  <2>3. \A s \in Sessions : Credited(s)' => Credited(s)
    BY <1>10, <2>1, <2>2 DEF Status, Credited
  <2>4. \A s \in Sessions : state'[s] \in {"unused", "open"} => state[s] \in {"unused", "open"}
    BY <1>10 DEF Status
  <2> QED
    BY <2>1, <2>3, <2>4, EarnedKept
<1>11. CASE Restart
  <2>1. UNCHANGED <<peer, right, rows, held>>
    BY <1>11 DEF Restart
  <2>2. \A s \in Sessions : Credited(s)' => Credited(s)
    BY <1>11, <2>1 DEF Restart, Credited
  <2>3. \A s \in Sessions : state'[s] \in {"unused", "open"} => state[s] \in {"unused", "open"}
    BY <1>11 DEF Restart
  <2> QED
    BY <2>1, <2>2, <2>3, EarnedKept
<1>12. ASSUME NEW t \in Sessions, AbortBegin(t) PROVE Earned'
  <2>1. UNCHANGED <<peer, right, rows, held>>
    BY <1>12 DEF AbortBegin
  <2>2. \A s \in Sessions : Credited(s)' => Credited(s)
    BY <1>12, <2>1 DEF AbortBegin, Credited
  <2>3. \A s \in Sessions : state'[s] \in {"unused", "open"} => state[s] \in {"unused", "open"}
    BY <1>12 DEF AbortBegin
  <2> QED
    BY <2>1, <2>2, <2>3, EarnedKept
<1>13. ASSUME NEW t \in Sessions, NEW b \in Beginners, Cancel(b, t) PROVE Earned'
  <2>1. UNCHANGED <<peer, right, rows, held>>
    BY <1>13 DEF Cancel
  <2>2. \A s \in Sessions : Credited(s)' => Credited(s)
    BY <1>13, <2>1 DEF Cancel, Credited
  <2>3. \A s \in Sessions : state'[s] \in {"unused", "open"} => state[s] \in {"unused", "open"}
    BY <1>13 DEF Cancel
  <2> QED
    BY <2>1, <2>2, <2>3, EarnedKept
<1>14. ASSUME PauseEnds \/ Flush \/ UNCHANGED vars \/ \E t \in Sessions : Ages(t) \/ Started(t)
      PROVE  Earned'
  <2>1. UNCHANGED <<peer, right, rows, held, decide, state>>
    BY <1>14 DEF PauseEnds, Flush, vars, Ages, Started
  <2> QED
    BY <2>1 DEF Earned, Credited
<1> QED
  BY <1>2, <1>3, <1>4, <1>5, <1>6, <1>7, <1>8, <1>9, <1>10, <1>11, <1>12, <1>13, <1>14 DEF Next

(* No device row and no token without the right code: nothing that races,  *)
(* fails, expires or restarts gives a credit to a session that never had   *)
(* the code confirmed.                                                     *)
THEOREM CreditIsEarned == Spec => []GrantNeedsCode
<1>1. Init => Earned
  BY DEF Init, Earned, Credited
<1>2. Earned => GrantNeedsCode
  BY DEF Earned, Credited, GrantNeedsCode
<1> QED
  BY <1>1, <1>2, EarnedStep, PairTypeCorrect, PTL DEF Spec

-----------------------------------------------------------------------------
(* A grant nobody holds is chased, and what is being decided waits for     *)
(* nobody else.                                                            *)
Unheld(s) == rows[s] = "live" /\ ~held[s]
Chaser(s) ==
    \/ state[s] = "allowed" \/ decide[s] \in {"minted", "revoke"}
    \/ s \in undelivered \cup flushing

Undecided == Codes \cup {"unused"}

Chase ==
    /\ \A s \in Sessions : Unheld(s) => Chaser(s)
    /\ \A s \in Sessions : decide[s] # "none" => state[s] \notin Undecided

(* A session whose begin has not answered was never shown the right code:  *)
(* a begin that fails takes no grant away.                                 *)
Untold == \A s \in Sessions : s \in starting \/ state[s] = "unused" => ~right[s]

LEMMA UntoldStep == ASSUME TypeOK, Untold, [Next]_vars PROVE Untold'
<1> USE DEF TypeOK
<1>1. ASSUME UNCHANGED right, starting' \subseteq starting,
             \A s \in Sessions : state'[s] = "unused" => state[s] = "unused"
      PROVE  Untold'
  BY <1>1 DEF Untold
<1>2. CASE Restart \/ Guess \/ Sweep
  <2>1. UNCHANGED right /\ starting' \subseteq starting
    BY <1>2 DEF Restart, Guess, Sweep
  <2>2. CASE Sweep
    <3> DEFINE after == [s \in Sessions |-> IF Old(s) THEN "gone"
                                           ELSE IF Due(s) THEN "expired" ELSE state[s]]
    <3>1. state' = after \/ Failure(after)
      BY <2>2 DEF Sweep
    <3>2. /\ after \in [Sessions -> States]
          /\ \A s \in Sessions : after[s] = "unused" => state[s] = "unused"
      OBVIOUS
    <3> HIDE DEF after
    <3>3. \A s \in Sessions : state'[s] = after[s] \/ state'[s] = "burned"
      BY <3>1, <3>2, FailureTypes
    <3> QED
      BY <1>1, <2>1, <3>2, <3>3
  <2>3. CASE Restart
    BY <1>1, <2>1, <2>3 DEF Restart
  <2>4. CASE Guess
    <3>1. \A s \in Sessions : state'[s] = state[s] \/ state'[s] = "burned"
      BY <2>4 DEF Guess, Pause
    <3> QED
      BY <1>1, <2>1, <3>1
  <2> QED
    BY <1>2, <2>2, <2>3, <2>4
<1>3. CASE PauseEnds \/ Flush \/ UNCHANGED vars
  BY <1>1, <1>3 DEF PauseEnds, Flush, vars, registry, handlers
<1>4. ASSUME NEW t \in Sessions,
             \/ Ages(t) \/ Started(t) \/ AbortBegin(t) \/ BadHello(t)
             \/ \E b \in Beginners : Cancel(b, t)
             \/ \E c \in Clients : Confirm(c, t) \/ Status(c, t)
      PROVE  Untold'
  <2>1. UNCHANGED right /\ starting' \subseteq starting
    BY <1>4 DEF Ages, Started, AbortBegin, BadHello, Cancel, Confirm, Status, registry, handlers
  <2>2. \A s \in Sessions : state'[s] = "unused" => state[s] = "unused"
    BY <1>4 DEF Ages, Started, AbortBegin, BadHello, Cancel, Confirm, Status, registry, Becomes, Failure, Pause
  <2> QED
    BY <1>1, <2>1, <2>2
<1>5. ASSUME NEW t \in Sessions,
             \/ Deny(t) \/ Mint(t) \/ DecideFails(t) \/ FinishAllow(t) \/ RevokeMinted(t)
             \/ DecideDropped(t) \/ RevokeUndelivered(t) \/ RevokeDevice(t)
             \/ \E b \in Beginners, answer \in {"allow", "deny"} : BeginDecide(b, t, answer)
      PROVE  Untold'
  <2>1. UNCHANGED <<right, starting>>
    BY <1>5 DEF Deny, Mint, DecideFails, FinishAllow, RevokeMinted, DecideDropped,
                RevokeUndelivered, RevokeDevice, BeginDecide, registry, handlers
  <2>2. \A s \in Sessions : state'[s] = "unused" => state[s] = "unused"
    BY <1>5 DEF Deny, Mint, DecideFails, FinishAllow, RevokeMinted, DecideDropped,
                RevokeUndelivered, RevokeDevice, BeginDecide, registry, Becomes
  <2> QED
    BY <1>1, <2>1, <2>2
<1>6. ASSUME NEW t \in Sessions, NEW b \in Beginners, NEW sl \in Slots, Begin(b, t, sl) PROVE Untold'
  BY <1>6 DEF Begin, Untold
<1>7. ASSUME NEW t \in Sessions, NEW c \in Clients, NEW good \in BOOLEAN, Hello(c, t, good) PROVE Untold'
  BY <1>7 DEF Hello, Becomes, Untold
<1> QED
  BY <1>2, <1>3, <1>4, <1>5, <1>6, <1>7 DEF Next

(* Chase survives what leaves the grants, the handlers and the allowed be. *)
LEMMA ChaseKept ==
    ASSUME Chase, UNCHANGED <<rows, held, decide>>,
           undelivered \cup flushing \subseteq undelivered' \cup flushing',
           \A s \in Sessions : state[s] = "allowed" =>
               state'[s] = "allowed" \/ s \in undelivered' \cup flushing',
           \A s \in Sessions : state'[s] \in Undecided => state[s] \in Undecided
    PROVE  Chase'
BY DEF Chase, Unheld, Chaser

LEMMA ChaseStep ==
    ASSUME Mishaps \subseteq {"tx"}, TypeOK, GrantNeedsCode, Untold, Chase, [Next]_vars
    PROVE  Chase'
<1> USE DEF TypeOK, Undecided
<1>0. \A kind : kind # "tx" => ~Mishap(kind)
  BY DEF Mishap
<1>1. ASSUME NEW after \in [Sessions -> States], Failure(after) \/ Pause(after),
             UNCHANGED <<rows, held, decide, undelivered, flushing>>,
             \A s \in Sessions : after[s] = state[s] \/ (state[s] \in Codes /\ after[s] = "burned")
      PROVE  Chase'
  <2>1. \A s \in Sessions : state'[s] = state[s] \/ (state[s] \in Codes /\ state'[s] = "burned")
    BY <1>1, FailureTypes
  <2> QED
    BY <1>1, <2>1, ChaseKept
<1>2. CASE Sweep
  <2> DEFINE after == [s \in Sessions |-> IF Old(s) THEN "gone"
                                         ELSE IF Due(s) THEN "expired" ELSE state[s]]
  <2>1. /\ after \in [Sessions -> States]
        /\ \A s \in Sessions : after[s] \in {state[s], "gone", "expired"}
        /\ \A s \in Sessions : state[s] = "allowed" => after[s] = "allowed" \/ Due(s)
    BY DEF Due, Old
  <2>2. /\ state' = after \/ Failure(after)
        /\ UNCHANGED <<rows, held, decide, flushing>>
        /\ undelivered' = undelivered \cup {s \in Sessions : Due(s) /\ state[s] = "allowed"}
    BY <1>2 DEF Sweep
  <2> HIDE DEF after
  <2>3. \A s \in Sessions : state'[s] = after[s] \/ (after[s] \in Codes /\ state'[s] = "burned")
    BY <2>1, <2>2, FailureTypes
  <2> QED
    BY <2>1, <2>2, <2>3, ChaseKept
<1>3. CASE Guess
  BY <1>1, <1>3 DEF Guess
<1>4. ASSUME NEW t \in Sessions, BadHello(t) PROVE Chase'
  <2> DEFINE after == IF state[t] \in Codes THEN [state EXCEPT ![t] = "burned"] ELSE state
  <2>1. /\ after \in [Sessions -> States]
        /\ \A s \in Sessions : after[s] = state[s] \/ (state[s] \in Codes /\ after[s] = "burned")
    OBVIOUS
  <2>2. Failure(after) /\ UNCHANGED <<rows, held, decide, undelivered, flushing>>
    BY <1>4 DEF BadHello
  <2> HIDE DEF after
  <2> QED
    BY <1>1, <2>1, <2>2
<1>5. ASSUME NEW t \in Sessions, NEW c \in Clients, Confirm(c, t) PROVE Chase'
  <2>1. CASE Proven(c, t)
    BY <1>5, <2>1, ChaseKept DEF Confirm
  <2>2. CASE ~Proven(c, t)
    <3> DEFINE after == [state EXCEPT ![t] = "burned"]
    <3>1. /\ after \in [Sessions -> States]
          /\ \A s \in Sessions : after[s] = state[s] \/ (state[s] \in Codes /\ after[s] = "burned")
      BY <1>5 DEF Confirm
    <3>2. Failure(after) /\ UNCHANGED <<rows, held, decide, undelivered, flushing>>
      BY <1>5, <2>2 DEF Confirm
    <3> HIDE DEF after
    <3> QED
      BY <1>1, <3>1, <3>2
  <2> QED
    BY <2>1, <2>2
<1>6. ASSUME NEW t \in Sessions, NEW c \in Clients, NEW good \in BOOLEAN, Hello(c, t, good) PROVE Chase'
  BY <1>6, ChaseKept DEF Hello
<1>7. ASSUME NEW t \in Sessions, NEW b \in Beginners, NEW sl \in Slots, Begin(b, t, sl) PROVE Chase'
  <2>1. \A s \in Sessions : /\ state[s] = "allowed" => state'[s] = "allowed"
                            /\ state'[s] \in Undecided => state[s] \in Undecided
    BY <1>7 DEF Begin
  <2>2. UNCHANGED <<rows, held, decide, undelivered, flushing>>
    BY <1>7 DEF Begin
  <2> QED
    BY <2>1, <2>2, ChaseKept
<1>8. ASSUME NEW t \in Sessions, NEW b \in Beginners, Cancel(b, t) PROVE Chase'
  BY <1>8, ChaseKept DEF Cancel
<1>9. ASSUME NEW t \in Sessions, NEW b \in Beginners, NEW answer \in {"allow", "deny"}, BeginDecide(b, t, answer) PROVE Chase'
  <2>1. \A s \in Sessions : s # t => state'[s] = state[s] /\ decide'[s] = decide[s]
    BY <1>9 DEF BeginDecide
  <2>2. /\ state[t] = "awaiting" /\ state'[t] = "deciding"
        /\ UNCHANGED <<rows, held, undelivered, flushing>>
    BY <1>9 DEF BeginDecide
  <2> QED
    BY <2>1, <2>2 DEF Chase, Unheld, Chaser
<1>10. ASSUME NEW t \in Sessions, NEW c \in Clients, Status(c, t) PROVE Chase'
  <2>1. /\ \A s \in Sessions : s # t => state'[s] = state[s] /\ held'[s] = held[s]
        /\ state'[t] = "delivered" /\ held'[t]
    BY <1>0, <1>10 DEF Status
  <2>2. UNCHANGED <<rows, decide, undelivered, flushing>>
    BY <1>10 DEF Status
  <2> QED
    BY <2>1, <2>2 DEF Chase, Unheld, Chaser
<1>11. ASSUME NEW t \in Sessions, Deny(t) PROVE Chase'
  <2>1. \A s \in Sessions : s # t => state'[s] = state[s] /\ decide'[s] = decide[s]
    BY <1>11 DEF Deny
  <2>2. /\ decide[t] = "deny" /\ decide'[t] = "none" /\ state[t] # "allowed" => state'[t] # "allowed"
        /\ state[t] = "allowed" => state'[t] = "allowed"
        /\ UNCHANGED <<rows, held, undelivered, flushing>>
    BY <1>11 DEF Deny
  <2>3. decide[t] \notin {"minted", "revoke"} /\ decide'[t] = "none"
    BY <1>11 DEF Deny
  <2> QED
    BY <2>1, <2>2, <2>3 DEF Chase, Unheld, Chaser
<1>12. ASSUME NEW t \in Sessions, Mint(t) PROVE Chase'
  <2>1. \A s \in Sessions : s # t => rows'[s] = rows[s] /\ decide'[s] = decide[s]
    BY <1>12 DEF Mint
  <2>2. /\ decide[t] = "allow" /\ decide'[t] = "minted"
        /\ UNCHANGED <<state, held, undelivered, flushing>>
    BY <1>12 DEF Mint
  <2> QED
    BY <2>1, <2>2 DEF Chase, Unheld, Chaser
<1>13. ASSUME NEW t \in Sessions, FinishAllow(t) PROVE Chase'
  <2>1. \A s \in Sessions : s # t => state'[s] = state[s] /\ decide'[s] = decide[s]
    BY <1>13 DEF FinishAllow
  <2>2. /\ \/ state'[t] = "allowed" /\ decide'[t] = "none"
           \/ UNCHANGED state /\ decide'[t] = "revoke"
        /\ decide[t] = "minted" /\ UNCHANGED <<rows, held, undelivered, flushing>>
    BY <1>13 DEF FinishAllow
  <2> QED
    BY <2>1, <2>2 DEF Chase, Unheld, Chaser
<1>14. ASSUME NEW t \in Sessions, RevokeMinted(t) PROVE Chase'
  <2>1. \A s \in Sessions : s # t => rows'[s] = rows[s] /\ decide'[s] = decide[s]
    BY <1>0, <1>14 DEF RevokeMinted, Revoked
  <2>2. /\ rows'[t] # "live" /\ decide'[t] = "none"
        /\ UNCHANGED <<state, held, undelivered, flushing>>
    BY <1>0, <1>14 DEF RevokeMinted, Revoked
  <2> QED
    BY <2>1, <2>2 DEF Chase, Unheld, Chaser
<1>15. ASSUME NEW t \in Sessions, RevokeUndelivered(t) PROVE Chase'
  <2>1. \A s \in Sessions : s # t => rows'[s] = rows[s]
    BY <1>0, <1>15 DEF RevokeUndelivered, Revoked
  <2>2. /\ rows'[t] # "live" /\ flushing' = flushing \ {t}
        /\ UNCHANGED <<state, held, decide, undelivered>>
    BY <1>0, <1>15 DEF RevokeUndelivered, Revoked
  <2> QED
    BY <2>1, <2>2 DEF Chase, Unheld, Chaser
<1>16. ASSUME NEW t \in Sessions, RevokeDevice(t) PROVE Chase'
  <2>1. /\ \A s \in Sessions : rows'[s] = "live" => rows[s] = "live"
        /\ UNCHANGED <<state, held, decide, undelivered, flushing>>
    BY <1>16 DEF RevokeDevice, Revoked
  <2> QED
    BY <2>1 DEF Chase, Unheld, Chaser
<1>17. CASE Flush
  BY <1>17, ChaseKept DEF Flush
<1>18. ASSUME PauseEnds \/ UNCHANGED vars \/ \E t \in Sessions : Ages(t) \/ Started(t) PROVE Chase'
  <2>1. UNCHANGED <<rows, held, decide, state, undelivered, flushing>>
    BY <1>18 DEF PauseEnds, vars, Ages, Started
  <2> QED
    BY <2>1, ChaseKept
<1>19. ~Restart /\ \A t \in Sessions : ~DecideDropped(t)
  BY <1>0 DEF Restart, DecideDropped
<1>20. ASSUME NEW t \in Sessions, AbortBegin(t) PROVE Chase'
  <2>1. state[t] # "allowed"
    BY <1>20 DEF AbortBegin, Untold, GrantNeedsCode
  <2>2. /\ \A s \in Sessions : s # t => state'[s] = state[s]
        /\ state'[t] = "gone" /\ UNCHANGED <<rows, held, decide, undelivered, flushing>>
    BY <1>20 DEF AbortBegin, Becomes
  <2> QED
    BY <2>1, <2>2, ChaseKept
<1>21. ASSUME NEW t \in Sessions, DecideFails(t) PROVE Chase'
  <2>1. /\ \A s \in Sessions : s # t => state'[s] = state[s] /\ decide'[s] = decide[s]
        /\ decide[t] \notin {"minted", "revoke"} /\ decide'[t] = "none"
        /\ state[t] = "allowed" => state'[t] = "allowed"
    BY <1>21 DEF DecideFails
  <2>2. UNCHANGED <<rows, held, undelivered, flushing>>
    BY <1>21 DEF DecideFails
  <2> QED
    BY <2>1, <2>2 DEF Chase, Unheld, Chaser
<1> QED
  BY <1>2, <1>3, <1>4, <1>5, <1>6, <1>7, <1>8, <1>9, <1>10, <1>11, <1>12, <1>13, <1>14, <1>15, <1>16, <1>17, <1>18, <1>19, <1>20, <1>21 DEF Next

(* Where no call is dropped, no answer lost, no revocation fails and no    *)
(* daemon restarts, a grant is held by its device, about to be, or about   *)
(* to be revoked: every race of the host's answer with expiry, cancel and  *)
(* burning is closed, and so is every transaction that fails.              *)
THEOREM GrantsAreChased == ASSUME Mishaps \subseteq {"tx"} PROVE Spec => []GrantIsHeldOrChased
<1>1. Init => Chase /\ Untold
  BY DEF Init, Chase, Unheld, Chaser, Untold
<1>2. Chase => GrantIsHeldOrChased
  BY DEF Chase, Unheld, Chaser, GrantIsHeldOrChased
<1>3. TypeOK /\ GrantNeedsCode /\ Untold /\ Chase /\ [Next]_vars => Chase'
  BY ChaseStep
<1>4. TypeOK /\ Untold /\ [Next]_vars => Untold'
  BY UntoldStep
<1> QED
  BY <1>1, <1>2, <1>3, <1>4, PairTypeCorrect, CreditIsEarned, PTL DEF Spec

-----------------------------------------------------------------------------
(* The open codes.  A step other than a begin opens no session; one that   *)
(* is no failed decision brings back no code.                              *)
Shrinks ==
    \A s \in Sessions : state'[s] \in Live =>
        state[s] \in Live /\ slot'[s] = slot[s] /\ beginner'[s] = beginner[s]

CodesShrink ==
    \A s \in Sessions :
        /\ state'[s] \in Codes => state[s] \in Codes
        /\ state'[s] = "unused" => state[s] = "unused"
        /\ state'[s] \in Codes \cup {"unused"} /\ ack'[s] => ack[s]

(* Whatever is burned by a failure only loses its acknowledgement.         *)
LEMMA FailureShrinks ==
    ASSUME TypeOK, NEW after \in [Sessions -> States], Failure(after) \/ Pause(after),
           \A s \in Sessions :
               /\ after[s] \in Live => /\ state[s] \in Live
                                       /\ slot'[s] = slot[s] /\ beginner'[s] = beginner[s]
               /\ after[s] \in Codes => state[s] \in Codes
               /\ after[s] = "unused" => state[s] = "unused"
    PROVE  Shrinks /\ CodesShrink
<1>1. /\ ack \in [Sessions -> BOOLEAN] /\ paused \in BOOLEAN
      /\ state \in [Sessions -> States]
  BY DEF TypeOK
<1>2. \A s \in Sessions : \/ state'[s] = after[s]
                          \/ after[s] \in Codes /\ state'[s] = "burned"
  BY <1>1, FailureTypes
<1>3. \A s \in Sessions : ack'[s] => ack[s]
  BY <1>1 DEF Failure, Pause
<1> QED
  BY <1>2, <1>3 DEF Shrinks, CodesShrink

LEMMA NoBeginShrinks ==
    ASSUME TypeOK, [Next]_vars,
           \A b \in Beginners, s \in Sessions, sl \in Slots : ~Begin(b, s, sl)
    PROVE  Shrinks /\ (CodesShrink \/ \E s \in Sessions : DecideFails(s))
<1> USE DEF TypeOK
<1>1. CASE Sweep
  <2> DEFINE after == [s \in Sessions |-> IF Old(s) THEN "gone"
                                         ELSE IF Due(s) THEN "expired" ELSE state[s]]
  <2>1. after \in [Sessions -> States]
    OBVIOUS
  <2>2. \A s \in Sessions : after[s] \in {"gone", "expired"} \/ (after[s] = state[s] /\ ~Old(s))
    OBVIOUS
  <2>3. \A s \in Sessions : ~Old(s) => slot'[s] = slot[s] /\ beginner'[s] = beginner[s]
    BY <1>1 DEF Sweep, Forgotten
  <2>4. Failure(after) \/ (state' = after /\ UNCHANGED ack)
    BY <1>1 DEF Sweep
  <2> HIDE DEF after
  <2> QED
    BY <2>1, <2>2, <2>3, <2>4, FailureShrinks DEF Shrinks, CodesShrink
<1>2. CASE Guess
  BY <1>2, FailureShrinks DEF Guess
<1>3. ASSUME NEW t \in Sessions, BadHello(t) PROVE Shrinks /\ CodesShrink
  <2> DEFINE after == IF state[t] \in Codes THEN [state EXCEPT ![t] = "burned"] ELSE state
  <2>1. /\ after \in [Sessions -> States]
        /\ \A s \in Sessions : after[s] = state[s] \/ after[s] = "burned"
    OBVIOUS
  <2>2. Failure(after) /\ UNCHANGED <<slot, beginner>>
    BY <1>3 DEF BadHello
  <2> HIDE DEF after
  <2> QED
    BY <2>1, <2>2, FailureShrinks
<1>4. ASSUME NEW t \in Sessions, NEW c \in Clients, Confirm(c, t) PROVE Shrinks /\ CodesShrink
  <2> DEFINE after == [state EXCEPT ![t] = "burned"]
  <2>1. CASE Proven(c, t)
    BY <1>4, <2>1 DEF Confirm, Shrinks, CodesShrink
  <2>2. CASE ~Proven(c, t)
    <3>1. /\ after \in [Sessions -> States]
          /\ \A s \in Sessions : after[s] = state[s] \/ after[s] = "burned"
      OBVIOUS
    <3>2. Failure(after) /\ UNCHANGED <<slot, beginner>>
      BY <1>4, <2>2 DEF Confirm
    <3> HIDE DEF after
    <3> QED
      BY <3>1, <3>2, FailureShrinks
  <2> QED
    BY <2>1, <2>2
<1>5. ASSUME NEW t \in Sessions, AbortBegin(t) PROVE Shrinks /\ CodesShrink
  <2>1. /\ state'[t] = "gone" /\ UNCHANGED ack
        /\ \A s \in Sessions : s # t => /\ state'[s] = state[s]
                                        /\ slot'[s] = slot[s] /\ beginner'[s] = beginner[s]
    BY <1>5 DEF AbortBegin, Forgotten
  <2> QED
    BY <2>1 DEF Shrinks, CodesShrink
<1>6. CASE Restart
  <2>1. /\ UNCHANGED ack
        /\ \A s \in Sessions : /\ state'[s] \in {"unused", "gone"}
                               /\ state'[s] = "unused" => state[s] = "unused"
    BY <1>6 DEF Restart
  <2> QED
    BY <2>1 DEF Shrinks, CodesShrink
<1>7. ASSUME NEW t \in Sessions, Deny(t) \/ FinishAllow(t) PROVE Shrinks /\ CodesShrink
  <2>1. /\ \A s \in Sessions : s # t => state'[s] = state[s] /\ ack'[s] = ack[s]
        /\ \/ state'[t] = state[t] /\ ack'[t] = ack[t]
           \/ state[t] = "deciding" /\ state'[t] \in {"denied", "allowed"}
        /\ UNCHANGED <<slot, beginner>>
    BY <1>7 DEF Deny, FinishAllow
  <2> QED
    BY <2>1 DEF Shrinks, CodesShrink
<1>8. ASSUME NEW t \in Sessions, DecideFails(t) PROVE Shrinks
  <2>1. /\ \A s \in Sessions : \/ state'[s] = state[s]
                               \/ state[s] = "deciding" /\ state'[s] = "awaiting"
        /\ UNCHANGED <<slot, beginner>>
    BY <1>8 DEF DecideFails
  <2> QED
    BY <2>1 DEF Shrinks
<1>9. ASSUME NEW t \in Sessions, NEW b \in Beginners, Cancel(b, t) PROVE Shrinks /\ CodesShrink
  <2>1. /\ \A s \in Sessions : s # t => state'[s] = state[s] /\ ack'[s] = ack[s]
        /\ state'[t] \in {state[t], "cancelled"} /\ state'[t] \notin Codes \cup {"unused"}
        /\ UNCHANGED <<slot, beginner>>
    BY <1>9 DEF Cancel
  <2> QED
    BY <2>1 DEF Shrinks, CodesShrink
<1>10. ASSUME NEW t \in Sessions, NEW b \in Beginners, NEW answer \in {"allow", "deny"},
              BeginDecide(b, t, answer)
       PROVE  Shrinks /\ CodesShrink
  BY <1>10 DEF BeginDecide, Shrinks, CodesShrink
<1>11. ASSUME NEW t \in Sessions, NEW c \in Clients,
              Status(c, t) \/ \E good \in BOOLEAN : Hello(c, t, good)
       PROVE  Shrinks /\ CodesShrink
  <2>1. /\ \A s \in Sessions : s # t => state'[s] = state[s]
        /\ \/ state[t] = "open" /\ state'[t] = "exchanged"
           \/ state'[t] = "delivered"
        /\ UNCHANGED <<slot, beginner, ack>>
    BY <1>11 DEF Status, Hello
  <2> QED
    BY <2>1 DEF Shrinks, CodesShrink
<1>12. ASSUME \/ PauseEnds \/ Flush \/ UNCHANGED vars
              \/ \E t \in Sessions : \/ Ages(t) \/ Started(t) \/ Mint(t) \/ RevokeMinted(t)
                                     \/ DecideDropped(t) \/ RevokeUndelivered(t) \/ RevokeDevice(t)
       PROVE  Shrinks /\ CodesShrink
  <2>1. UNCHANGED <<state, ack, slot, beginner>>
    BY <1>12 DEF PauseEnds, Flush, vars, Ages, Started, Mint, RevokeMinted, DecideDropped,
                 RevokeUndelivered, RevokeDevice
  <2> QED
    BY <2>1 DEF Shrinks, CodesShrink
<1> QED
  BY <1>1, <1>2, <1>3, <1>4, <1>5, <1>6, <1>7, <1>8, <1>9, <1>10, <1>11, <1>12 DEF Next

(* A begin takes a free slot, in the place of its beginner's older codes.  *)
LEMMA BeginEffect ==
    ASSUME TypeOK, NEW b \in Beginners, NEW n \in Sessions, NEW sl \in Slots, Begin(b, n, sl)
    PROVE  \E left \in SUBSET Held :
             /\ n \notin left /\ Held' = left \cup {n}
             /\ Cardinality(left) < MaxOpen
             /\ \A s \in left : slot[s] # sl
             /\ \A s \in left : state[s] \in Codes => beginner[s] # b
             /\ state'[n] = "open" /\ slot'[n] = sl /\ beginner'[n] = b
             /\ state[n] = "unused" /\ ack'[n] = ack[n]
             /\ \A s \in Sessions : s # n =>
                    /\ slot'[s] = slot[s] /\ beginner'[s] = beginner[s]
                    /\ state'[s] = IF s \in Held \ left THEN "cancelled" ELSE state[s]
                    /\ s \in left \/ state[s] = "unused" => ack'[s] = ack[s]
<1> DEFINE mine == {t \in Sessions : Present(t) /\ beginner[t] = b
                                     /\ state[t] \notin {"deciding", "allowed"}}
<1> USE DEF TypeOK
<1>1. /\ state[n] = "unused" /\ Cardinality(Held \ mine) < MaxOpen
      /\ \A t \in Held \ mine : slot[t] # sl
      /\ beginner' = [beginner EXCEPT ![n] = b] /\ slot' = [slot EXCEPT ![n] = sl]
      /\ ack' = [t \in Sessions |-> IF t \in mine THEN TRUE ELSE ack[t]]
      /\ state' = [t \in Sessions |-> IF t = n THEN "open"
                                      ELSE IF t \in mine \cap Held THEN "cancelled" ELSE state[t]]
  BY DEF Begin
<1>2. n \notin mine /\ n \notin Held
  BY <1>1 DEF Held
<1>3. \A t \in Held \ mine : state[t] \in Codes => beginner[t] # b
  BY DEF Held
<1>4. \A t \in Sessions : state[t] = "unused" => t \notin mine
  OBVIOUS
<1> HIDE DEF mine
<1>5. Held' = (Held \ mine) \cup {n}
  BY <1>1, <1>2 DEF Held
<1>6. \A s \in Sessions : s # n =>
        /\ slot'[s] = slot[s] /\ beginner'[s] = beginner[s]
        /\ state'[s] = IF s \in Held \ (Held \ mine) THEN "cancelled" ELSE state[s]
        /\ s \in Held \ mine \/ state[s] = "unused" => ack'[s] = ack[s]
  BY <1>1, <1>4
<1>7. state'[n] = "open" /\ slot'[n] = sl /\ beginner'[n] = b /\ ack'[n] = ack[n]
  BY <1>1, <1>2
<1> WITNESS Held \ mine \in SUBSET Held
<1> QED
  BY <1>1, <1>2, <1>3, <1>5, <1>6, <1>7

(* A slot leads to one session, and the host has no more sessions than it  *)
(* may, whatever fails, is dropped, expires or restarts.                   *)
THEOREM SlotsAgree == Spec => []OneSessionPerSlot
<1>1. Init => OneSessionPerSlot
  <2> SUFFICES ASSUME Init PROVE OneSessionPerSlot
    OBVIOUS
  <2>1. Held = {}
    BY DEF Init, Held
  <2> QED
    BY <2>1, FS_EmptySet, OpenAssumption DEF OneSessionPerSlot
<1>2. TypeOK /\ OneSessionPerSlot /\ [Next]_vars => OneSessionPerSlot'
  <2> SUFFICES ASSUME TypeOK, OneSessionPerSlot, [Next]_vars PROVE OneSessionPerSlot'
    OBVIOUS
  <2>0. IsFiniteSet(Held) /\ Cardinality(Held) \in Nat
    BY SessionsAssumption, FS_Subset, FS_CardinalityType DEF Held
  <2>1. ASSUME Shrinks PROVE OneSessionPerSlot'
    <3>1. Held' \subseteq Held /\ \A s \in Held' : slot'[s] = slot[s]
      BY <2>1 DEF Shrinks, Held
    <3>2. Cardinality(Held') <= Cardinality(Held) /\ Cardinality(Held') \in Nat
      BY <2>0, <3>1, FS_Subset, FS_CardinalityType
    <3>3. Cardinality(Held') <= MaxOpen
      BY <2>0, <3>2, OpenAssumption DEF OneSessionPerSlot
    <3> QED
      BY <3>1, <3>3 DEF OneSessionPerSlot
  <2>2. ASSUME NEW b \in Beginners, NEW n \in Sessions, NEW sl \in Slots, Begin(b, n, sl)
        PROVE  OneSessionPerSlot'
    <3>1. PICK left \in SUBSET Held :
            /\ n \notin left /\ Held' = left \cup {n}
            /\ Cardinality(left) < MaxOpen
            /\ \A s \in left : slot[s] # sl
            /\ slot'[n] = sl
            /\ \A s \in Sessions : s # n => slot'[s] = slot[s]
      BY <2>2, BeginEffect
    <3>2. IsFiniteSet(left) /\ Cardinality(left) \in Nat
      BY <2>0, FS_Subset, FS_CardinalityType
    <3>3. Cardinality(Held') = Cardinality(left) + 1
      BY <3>1, <3>2, FS_AddElement
    <3>4. Cardinality(Held') <= MaxOpen
      BY <3>1, <3>2, <3>3, OpenAssumption
    <3>5. left \subseteq Sessions
      BY DEF Held
    <3> QED
      BY <3>1, <3>4, <3>5 DEF OneSessionPerSlot
  <2> QED
    BY <2>1, <2>2, NoBeginShrinks
<1> QED
  BY <1>1, <1>2, PairTypeCorrect, PTL DEF Spec

(* No code that can still be used, or used for the first time, has been    *)
(* acknowledged.                                                           *)
Unacknowledged == \A s \in Sessions : state[s] \in Codes \cup {"unused"} => ~ack[s]

(* Where no transaction fails, each open code has a slot, a beginner and a *)
(* place in the host's list of its own.  (A failed decision brings back a  *)
(* code beside the one begun meanwhile.)                                   *)
THEOREM CodesAreAgreed == ASSUME "tx" \notin Mishaps PROVE Spec => []CodesAgree
<1>1. Init => OneCodePerBeginner /\ Unacknowledged
  BY DEF Init, OneCodePerBeginner, Unacknowledged
<1>2. TypeOK /\ OneCodePerBeginner /\ Unacknowledged /\ [Next]_vars
      => OneCodePerBeginner' /\ Unacknowledged'
  <2> SUFFICES ASSUME TypeOK, OneCodePerBeginner, Unacknowledged, [Next]_vars
               PROVE  OneCodePerBeginner' /\ Unacknowledged'
    OBVIOUS
  <2>1. \A s \in Sessions : ~DecideFails(s)
    BY DEF DecideFails
  <2>2. ASSUME Shrinks, CodesShrink PROVE OneCodePerBeginner' /\ Unacknowledged'
    <3>1. OneCodePerBeginner'
      BY <2>2 DEF Shrinks, CodesShrink, OneCodePerBeginner
    <3>2. Unacknowledged'
      BY <2>2 DEF CodesShrink, Unacknowledged
    <3> QED
      BY <3>1, <3>2
  <2>3. ASSUME NEW b \in Beginners, NEW n \in Sessions, NEW sl \in Slots, Begin(b, n, sl)
        PROVE  OneCodePerBeginner' /\ Unacknowledged'
    <3>1. PICK left \in SUBSET Held :
             /\ \A s \in left : state[s] \in Codes => beginner[s] # b
             /\ state'[n] = "open" /\ beginner'[n] = b
             /\ state[n] = "unused" /\ ack'[n] = ack[n]
             /\ \A s \in Sessions : s # n =>
                    /\ beginner'[s] = beginner[s]
                    /\ state'[s] = IF s \in Held \ left THEN "cancelled" ELSE state[s]
                    /\ s \in left \/ state[s] = "unused" => ack'[s] = ack[s]
      BY <2>3, BeginEffect
    <3>2. \A s \in Sessions : s # n /\ state'[s] \in Codes => s \in left /\ state'[s] = state[s]
      BY <3>1 DEF Held
    <3>3. \A s \in Sessions : s # n /\ state'[s] = "unused" => state[s] = "unused"
      BY <3>1
    <3>4. OneCodePerBeginner'
      BY <3>1, <3>2 DEF OneCodePerBeginner
    <3>5. Unacknowledged'
      BY <3>1, <3>2, <3>3 DEF Unacknowledged
    <3> QED
      BY <3>4, <3>5
  <2> QED
    BY <2>1, <2>2, <2>3, NoBeginShrinks
<1>3. OneSessionPerSlot /\ OneCodePerBeginner /\ Unacknowledged => CodesAgree
  BY DEF CodesAgree, Unacknowledged, AwaitingIsPending
<1> QED
  BY <1>1, <1>2, <1>3, SlotsAgree, PairTypeCorrect, PTL DEF Spec
=============================================================================
