------------------------ MODULE BrokerSocketsProofs ------------------------
(* Proofs about the broker's sockets, for every number of accounts,        *)
(* credentials, sockets and handlers and every value of the bounds.        *)
EXTENDS BrokerSockets, TLAPS

USE DEF Creds

(* Reading an account: what a credential's owner is.                       *)
LEMMA OwnerType == \A c \in Creds : Owner[c] \in Principals
  BY CredsAssumption

(* Replacing one handler's record keeps the handlers well typed.           *)
CallsOK ==
  /\ call \in [Handlers -> CallSet]
  /\ \A h \in Handlers :
       call[h].kind \in {"logout", "password"} => call[h].on \in Sessions

LEMMA DoneType ==
  ASSUME CallsOK, NEW h \in Handlers, Done(h)
  PROVE  CallsOK'
  BY BoundsAssumption DEF CallsOK, CallSet, NoCall, Done

LEMMA StartType ==
  ASSUME CallsOK, NEW h \in Handlers, NEW at \in {"begun", "committed"},
         NEW kind \in {"logout", "password", "revoke", "tier", "policy"},
         NEW on \in Creds \cup Principals,
         kind \in {"logout", "password"} => on \in Sessions,
         Start(h, at, kind, on)
  PROVE  CallsOK'
  BY BoundsAssumption DEF CallsOK, CallSet, Start

LEMMA MoveType ==
  ASSUME CallsOK, NEW h \in Handlers, NEW at \in {"committed", "scanned", "relogin"},
         NEW e \in 0..MaxEpoch, NEW ids \in SUBSET Sockets, MoveTo(h, at, e, ids)
  PROVE  CallsOK'
  BY DEF CallsOK, CallSet, MoveTo

(* Releasing a slot keeps the state well typed.                            *)
LEMMA ReleaseType ==
  ASSUME TypeOK, NEW s \in Sockets, Release(s)
  PROVE  TypeOK'
<1>1. /\ call' \in [Handlers -> CallSet]
      /\ \A h \in Handlers :
           call'[h].kind \in {"logout", "password"} => call'[h].on \in Sessions
  <2>1. ASSUME NEW c \in CallSet
        PROVE  [c EXCEPT !.ids = @ \ {s}] \in CallSet
    BY DEF CallSet
  <2>2. ASSUME NEW c \in CallSet
        PROVE  /\ [c EXCEPT !.ids = @ \ {s}].kind = c.kind
               /\ [c EXCEPT !.ids = @ \ {s}].on = c.on
    BY DEF CallSet
  <2> QED
    BY <2>1, <2>2 DEF TypeOK, Release
<1>2. /\ pc' \in [Sockets -> Stages]
      /\ key' \in [Sockets -> Keys \cup {None}]
      /\ entry' \in [Sockets -> Entries]
      /\ \A t \in Sockets : (pc'[t] = "idle") <=> (key'[t] = None)
      /\ \A t \in Sockets : (entry'[t] = "none") <=> (pc'[t] \in {"idle", "resolved"})
  BY BoundsAssumption DEF TypeOK, Release, Stages, Entries
<1>3. todo' \subseteq Sockets /\ stale' \subseteq Sockets
  BY DEF TypeOK, Release
<1> QED
  BY <1>1, <1>2, <1>3 DEF TypeOK, Release, db, registry

(* Signalling closes open entries only: no entry appears or disappears.    *)
LEMMA SignalType ==
  ASSUME TypeOK, NEW ids, NEW why \in {"revoked", "loggedOut", "caps"},
         Signal(ids, why), pc' = pc
  PROVE  /\ entry' \in [Sockets -> Entries]
         /\ \A s \in Sockets : (entry'[s] = "none") <=> (pc'[s] \in {"idle", "resolved"})
  BY DEF TypeOK, Signal, Entries

(* Every step of a socket's handler or pump.                               *)
LEMMA SocketType ==
  ASSUME TypeOK, NEW s \in Sockets, Socket(s)
  PROVE  TypeOK'
<1>1. ASSUME NEW c \in Creds, Resolve(s, c) PROVE TypeOK'
  <2>1. [cred |-> c, epoch |-> epoch[Owner[c]],
         grant |-> IF c \in Devices THEN grant[c] ELSE 0] \in Keys
    BY <1>1, OwnerType, BoundsAssumption DEF TypeOK, Keys
  <2> QED
    BY <1>1, <2>1, NoneAssumption
    DEF Resolve, TypeOK, Stages, Entries, db, registry, recheck
<1>2. CASE Register(s)
  BY <1>2 DEF Register, TypeOK, Stages, Entries, db, registry, recheck
<1>3. CASE CheckOk(s)
  BY <1>3 DEF CheckOk, TypeOK, Stages, Entries, db, registry, recheck
<1>4. CASE Narrow(s)
  BY <1>4 DEF Narrow, TypeOK, Stages, Entries, db, registry, recheck
<1>5. CASE Upgrade(s)
  BY <1>5 DEF Upgrade, TypeOK, Stages, Entries, db, registry, recheck
<1>6. CASE CheckRefused(s) \/ UpgradeRefused(s) \/ PumpClose(s) \/ Hangup(s)
  BY <1>6, ReleaseType DEF CheckRefused, UpgradeRefused, PumpClose, Hangup
<1> QED
  BY <1>1, <1>2, <1>3, <1>4, <1>5, <1>6 DEF Socket

(* Revoking a device keeps the devices well typed: its grant epoch moves   *)
(* past the tier changes' bound at most once.                              *)
LEMMA MarkRevokedType ==
  ASSUME TypeOK, NEW ds, MarkRevoked(ds)
  PROVE  /\ revoked' \in [Devices -> BOOLEAN]
         /\ grant' \in [Devices -> 0..MaxGrant+1]
         /\ \A d \in Devices : ~revoked'[d] => grant'[d] <= MaxGrant
<1>1. revoked' \in [Devices -> BOOLEAN]
  BY DEF TypeOK, MarkRevoked
<1>2. ASSUME NEW d \in Devices
      PROVE  /\ grant'[d] \in 0..MaxGrant+1
             /\ ~revoked'[d] => grant'[d] <= MaxGrant
  <2>1. grant[d] \in 0..MaxGrant+1 /\ (~revoked[d] => grant[d] <= MaxGrant)
    BY DEF TypeOK
  <2>2. grant'[d] = IF d \in ds /\ ~revoked[d] THEN grant[d] + 1 ELSE grant[d]
    BY DEF MarkRevoked
  <2>3. ~revoked'[d] => d \notin ds /\ ~revoked[d]
    BY DEF MarkRevoked
  <2> QED
    BY <2>1, <2>2, <2>3, BoundsAssumption
<1> QED
  BY <1>1, <1>2 DEF MarkRevoked

(* Every step of the re-check loop.                                        *)
LEMMA RecheckType ==
  ASSUME TypeOK, Recheck
  PROVE  TypeOK'
<1>1. CASE Tick \/ TickUnreadable
  BY <1>1 DEF Tick, TickUnreadable, StartPass, OpenEntries, TypeOK, db, socket, registry
<1>2. ASSUME NEW s \in Sockets, RecheckOne(s) \/ RecheckFails(s) PROVE TypeOK'
  BY <1>2 DEF RecheckOne, RecheckFails, TypeOK, db, socket, registry
<1>3. CASE RecheckClose
  BY <1>3, SignalType DEF RecheckClose, TypeOK, db, registry
<1> QED
  BY <1>1, <1>2, <1>3 DEF Recheck

(* Every step of a revoking HTTP handler.                                  *)
LEMMA HandlerType ==
  ASSUME TypeOK, NEW h \in Handlers, Handler(h)
  PROVE  TypeOK'
<1>0. /\ CallsOK
      /\ call[h] \in CallSet
      /\ 0 \in 0..MaxEpoch
      /\ call[h].epoch \in 0..MaxEpoch
  BY BoundsAssumption DEF TypeOK, CallsOK, CallSet
<1>1. ASSUME NEW t \in Sessions, NEW kind \in {"logout", "password"}, Begin(h, kind, t)
      PROVE  TypeOK'
  <2>1. CallsOK'
    BY <1>0, <1>1, StartType DEF Begin
  <2> QED
    BY <1>1, <2>1 DEF Begin, CallsOK, TypeOK, db, socket, registry, recheck
<1>2. CASE LogoutDelete(h)
  <2>1. CallsOK'
    BY <1>0, <1>2, MoveType DEF LogoutDelete
  <2> QED
    BY <1>2, <2>1 DEF LogoutDelete, CallsOK, TypeOK, socket, registry, recheck
<1>3. CASE LogoutClose(h)
  <2>1. CallsOK'
    BY <1>0, <1>3, DoneType DEF LogoutClose
  <2>2. loggedOut' \subseteq Sessions
    BY <1>3 DEF LogoutClose, Committed, TypeOK
  <2> QED
    BY <1>3, <2>1, <2>2, SignalType DEF LogoutClose, CallsOK, TypeOK, db, recheck
<1>4. CASE PasswordCommit(h)
  <2>1. Owner[call[h].on] \in Principals
    BY <1>4, OwnerType DEF PasswordCommit, TypeOK
  <2>2. epoch[Owner[call[h].on]] + 1 \in 0..MaxEpoch
    BY <1>4, <2>1, BoundsAssumption DEF PasswordCommit, TypeOK
  <2>3. CallsOK'
    BY <1>0, <1>4, <2>2, MoveType DEF PasswordCommit
  <2> QED
    BY <1>4, <2>1, <2>2, <2>3 DEF PasswordCommit, CallsOK, TypeOK, socket, registry
<1>5. CASE PasswordClose(h)
  <2>1. Owner[call[h].on] \in Principals
    BY <1>5, OwnerType DEF PasswordClose, Committed, TypeOK
  <2>2. CallsOK'
    BY <1>0, <1>5, MoveType DEF PasswordClose
  <2>3. floor' \in [Principals -> 0..MaxEpoch]
    BY <1>0, <1>5, <2>1 DEF PasswordClose, TypeOK
  <2> QED
    BY <1>5, <2>2, <2>3, SignalType DEF PasswordClose, CallsOK, TypeOK, db, recheck
<1>6. ASSUME NEW new \in Sessions, PasswordRelogin(h, new) PROVE TypeOK'
  <2>1. CallsOK'
    BY <1>0, <1>6, DoneType DEF PasswordRelogin
  <2>2. sess' \in [Sessions -> {"unused", "live", "cycled", "loggedOut"}]
    BY <1>6 DEF PasswordRelogin, TypeOK
  <2>3. sessEpoch' \in [Sessions -> 0..MaxEpoch]
    BY <1>0, <1>6 DEF PasswordRelogin, TypeOK
  <2> QED
    BY <1>6, <2>1, <2>2, <2>3 DEF PasswordRelogin, CallsOK, TypeOK, socket, registry, recheck
<1>7. CASE EndEarly(h)
  <2>1. CallsOK'
    BY <1>0, <1>7, DoneType DEF EndEarly
  <2> QED
    BY <1>7, <2>1 DEF EndEarly, CallsOK, TypeOK, db, socket, registry, recheck
<1>8. ASSUME NEW d \in Devices, DeviceRevoke(h, d) PROVE TypeOK'
  <2>1. CallsOK'
    BY <1>0, <1>8, StartType DEF DeviceRevoke, Commit
  <2> QED
    BY <1>8, <2>1, MarkRevokedType
    DEF DeviceRevoke, Commit, CallsOK, TypeOK, socket, registry
<1>9. ASSUME NEW d \in Devices, DeviceSetTier(h, d) PROVE TypeOK'
  <2>1. CallsOK'
    BY <1>0, <1>9, StartType DEF DeviceSetTier, Commit
  <2>2. /\ grant' \in [Devices -> 0..MaxGrant+1]
        /\ \A e \in Devices : ~revoked[e] => grant'[e] <= MaxGrant
    BY <1>9, BoundsAssumption DEF DeviceSetTier, TypeOK
  <2> QED
    BY <1>9, <2>1, <2>2 DEF DeviceSetTier, Commit, CallsOK, TypeOK, socket, registry
<1>10. ASSUME NEW x \in Devices \cup Principals, CapsChange(h, x) PROVE TypeOK'
  <2>1. CallsOK'
    BY <1>0, <1>10, StartType DEF CapsChange, Commit
  <2> QED
    BY <1>10, <2>1 DEF CapsChange, Commit, CallsOK, TypeOK, socket, registry
<1>11. CASE Scan(h)
  <2>1. CallsOK'
    BY <1>0, <1>11, MoveType DEF Scan, OpenEntries
  <2> QED
    BY <1>11, <2>1 DEF Scan, CallsOK, TypeOK, db, socket, registry, recheck
<1>12. CASE Apply(h)
  <2>1. CallsOK'
    BY <1>0, <1>12, DoneType DEF Apply
  <2> QED
    BY <1>12, <2>1, SignalType DEF Apply, CallsOK, TypeOK, db, registry, recheck
<1> QED
  BY <1>1, <1>2, <1>3, <1>4, <1>5, <1>6, <1>7, <1>8, <1>9, <1>10, <1>11, <1>12 DEF Handler

(* Every other commit.                                                     *)
LEMMA DatabaseType ==
  ASSUME TypeOK, Database
  PROVE  TypeOK'
<1>1. ASSUME NEW new \in Sessions, NEW old \in Sessions \cup {None}, Login(new, old)
      PROVE  TypeOK'
  <2>1. Owner[new] \in Principals
    BY OwnerType
  <2>2. /\ sess' \in [Sessions -> {"unused", "live", "cycled", "loggedOut"}]
        /\ sessEpoch' \in [Sessions -> 0..MaxEpoch]
    BY <1>1, <2>1 DEF Login, TypeOK
  <2> QED
    BY <1>1, <2>2 DEF Login, TypeOK, socket, registry, recheck
<1>2. ASSUME NEW p \in Principals,
             \/ CliPasswd(p) \/ CliRevokeSessions(p) \/ CliDisable(p) \/ CliEnable(p)
      PROVE  TypeOK'
  <2>1. epoch' \in [Principals -> 0..MaxEpoch]
    BY <1>2, BoundsAssumption
    DEF TypeOK, CliPasswd, CliRevokeSessions, CliDisable, CliEnable
  <2>2. disabled' \in [Principals -> BOOLEAN]
    BY <1>2 DEF TypeOK, CliPasswd, CliRevokeSessions, CliDisable, CliEnable
  <2>3. /\ revoked' \in [Devices -> BOOLEAN]
        /\ grant' \in [Devices -> 0..MaxGrant+1]
        /\ \A d \in Devices : ~revoked'[d] => grant'[d] <= MaxGrant
    BY <1>2, MarkRevokedType
    DEF TypeOK, CliPasswd, CliRevokeSessions, CliDisable, CliEnable
  <2>4. Elsewhere
    BY <1>2 DEF CliPasswd, CliRevokeSessions, CliDisable, CliEnable
  <2> QED
    BY <2>1, <2>2, <2>3, <2>4 DEF Elsewhere, TypeOK, socket, registry
<1>3. ASSUME NEW d \in Devices, DeviceExpire(d) PROVE TypeOK'
  BY <1>3, MarkRevokedType DEF DeviceExpire, Elsewhere, TypeOK, socket, registry
<1>4. CASE UnrelatedCommit
  BY <1>4 DEF UnrelatedCommit, Elsewhere, TypeOK, socket, registry
<1> QED
  BY <1>1, <1>2, <1>3, <1>4 DEF Database

LEMMA InitType == Init => TypeOK
<1> SUFFICES ASSUME Init PROVE TypeOK
  OBVIOUS
<1>1. /\ 0 \in 0..MaxEpoch
      /\ 0 \in 0..MaxGrant+1 /\ 0 <= MaxGrant
  BY BoundsAssumption
<1>2. NoCall \in CallSet /\ NoCall.kind = "none"
  BY <1>1 DEF NoCall, CallSet
<1> QED
  BY <1>1, <1>2 DEF Init, TypeOK, Stages, Entries

(* Type correctness, of every reachable state.                             *)
THEOREM TypeCorrect == Spec => []TypeOK
<1>1. TypeOK /\ [Next]_vars => TypeOK'
  <2> SUFFICES ASSUME TypeOK, [Next]_vars PROVE TypeOK'
    OBVIOUS
  <2>1. CASE Next
    BY <2>1, SocketType, RecheckType, HandlerType, DatabaseType DEF Next
  <2>2. CASE UNCHANGED vars
    BY <2>2 DEF vars, db, socket, registry, recheck, TypeOK
  <2> QED
    BY <2>1, <2>2
<1> QED
  BY <1>1, InitType, PTL DEF Spec

-----------------------------------------------------------------------------
(* The registry.                                                           *)

(* No open entry is one a broker-side revocation covers.                   *)
THEOREM ExactRegistry == Spec => []NoneSurvivesItsRevocation
<1>1. Init => NoneSurvivesItsRevocation
  BY DEF Init, NoneSurvivesItsRevocation
<1>2. TypeOK /\ NoneSurvivesItsRevocation /\ [Next]_vars => NoneSurvivesItsRevocation'
  <2> SUFFICES ASSUME TypeOK, NoneSurvivesItsRevocation, [Next]_vars,
                      NEW s \in Sockets, entry'[s] = "open"
               PROVE  ~Covered(key[s])'
    BY DEF NoneSurvivesItsRevocation
  <2>0. ASSUME UNCHANGED registry, entry[s] = "open", key'[s] = key[s]
        PROVE  ~Covered(key[s])'
    BY <2>0 DEF registry, NoneSurvivesItsRevocation, Covered
  <2>1. ASSUME NEW t \in Sockets, Socket(t) PROVE ~Covered(key[s])'
    <3>1. UNCHANGED registry
      BY <2>1 DEF Socket, Resolve, Register, CheckOk, CheckRefused, Narrow, Upgrade,
         UpgradeRefused, PumpClose, Hangup, Release, registry
    <3>2. CASE Register(t) /\ t = s
      BY <3>2, <3>1 DEF Register, TypeOK, Covered, registry
    <3>3. CASE ~(Register(t) /\ t = s)
      <4>1. entry[s] = "open" /\ key'[s] = key[s]
        BY <2>1, <3>3 DEF Socket, Resolve, Register, CheckOk, CheckRefused, Narrow,
           Upgrade, UpgradeRefused, PumpClose, Hangup, Release, TypeOK
      <4> QED
        BY <4>1, <3>1, <2>0
    <3> QED
      BY <3>2, <3>3
  <2>2. CASE Recheck
    BY <2>2, <2>0 DEF Recheck, Tick, TickUnreadable, StartPass, RecheckOne, RecheckFails,
       RecheckClose, Signal, socket, registry
  <2>3. ASSUME NEW h \in Handlers, Handler(h) PROVE ~Covered(key[s])'
    <3>1. CASE LogoutClose(h)
      BY <3>1 DEF LogoutClose, Signal, OpenEntries, Covered, TypeOK
    <3>2. CASE PasswordClose(h)
      BY <3>2 DEF PasswordClose, Signal, OpenEntries, Covered, TypeOK
    <3>3. CASE ~LogoutClose(h) /\ ~PasswordClose(h)
      BY <2>3, <3>3, <2>0 DEF Handler, Begin, LogoutDelete, PasswordCommit, PasswordRelogin,
         EndEarly, DeviceRevoke, DeviceSetTier, CapsChange, Scan, Apply, Signal,
         socket, registry
    <3> QED
      BY <3>1, <3>2, <3>3
  <2>4. CASE Database
    BY <2>4, <2>0 DEF Database, Login, CliPasswd, CliRevokeSessions, CliDisable, CliEnable,
       DeviceExpire, UnrelatedCommit, Elsewhere, socket, registry
  <2>5. CASE UNCHANGED vars
    BY <2>5, <2>0 DEF vars, socket, registry
  <2> QED
    BY <2>1, <2>2, <2>3, <2>4, <2>5 DEF Next
<1> QED
  BY <1>1, <1>2, TypeCorrect, PTL DEF Spec

-----------------------------------------------------------------------------
(* The re-check loop.                                                      *)

(* A step that keeps the accounts, the devices, one open socket and the    *)
(* loop as they were keeps that socket chased.                             *)
LEMMA ChasedFrame ==
  ASSUME RevokedIsChased, NEW s \in Sockets,
         pc[s] \in {"checked", "narrowed", "open"}, entry[s] = "open",
         key'[s] = key[s],
         UNCHANGED <<epoch, disabled, grant, revoked>>,
         ~Valid(key[s])',
         dirty => dirty', s \in todo => s \in todo', s \in stale => s \in stale'
  PROVE  dirty' \/ s \in todo' \/ s \in stale'
  BY DEF RevokedIsChased, Valid

(* Without failing reads, every socket whose credential died is dirty work *)
(* for the loop: no commit slips between a handshake's check and a pass.   *)
THEOREM Chased ==
  ASSUME ReadsMayFail = FALSE
  PROVE  Spec => []RevokedIsChased
<1>1. Init => RevokedIsChased
  BY DEF Init, RevokedIsChased
<1>2. TypeOK /\ RevokedIsChased /\ [Next]_vars => RevokedIsChased'
  <2> SUFFICES ASSUME TypeOK, RevokedIsChased, [Next]_vars,
                      NEW s \in Sockets,
                      pc'[s] \in {"checked", "narrowed", "open"},
                      entry'[s] = "open",
                      ~Valid(key[s])'
               PROVE  dirty' \/ s \in todo' \/ s \in stale'
    BY DEF RevokedIsChased
  <2>1. ASSUME NEW t \in Sockets, Socket(t) PROVE dirty' \/ s \in todo' \/ s \in stale'
    <3>1. /\ UNCHANGED <<epoch, disabled, grant, revoked, dirty>>
          /\ t # s => /\ pc'[s] = pc[s] /\ key'[s] = key[s] /\ entry'[s] = entry[s]
                      /\ s \in todo => s \in todo'
                      /\ s \in stale => s \in stale'
      BY <2>1 DEF Socket, Resolve, Register, CheckOk, CheckRefused, Narrow, Upgrade,
         UpgradeRefused, PumpClose, Hangup, Release, TypeOK, db, recheck
    <3>2. CASE t # s
      BY <3>1, <3>2, ChasedFrame
    <3>3. CASE CheckOk(s)
      BY <3>1, <3>3 DEF CheckOk, Valid
    <3>4. CASE Narrow(s) \/ Upgrade(s)
      <4>1. /\ pc[s] \in {"checked", "narrowed", "open"} /\ entry[s] = "open"
            /\ key'[s] = key[s] /\ UNCHANGED <<todo, stale>>
        BY <3>4 DEF Narrow, Upgrade, recheck
      <4> QED
        BY <4>1, <3>1, ChasedFrame
    <3>5. CASE t = s /\ ~CheckOk(s) /\ ~Narrow(s) /\ ~Upgrade(s)
      BY <2>1, <3>5 DEF Socket, Resolve, Register, CheckRefused, UpgradeRefused,
         PumpClose, Hangup, Release, TypeOK
    <3> QED
      BY <3>2, <3>3, <3>4, <3>5
  <2>2. CASE Recheck
    <3>1. CASE Tick \/ TickUnreadable
      BY <3>1 DEF Tick, TickUnreadable, StartPass, OpenEntries, socket
    <3>2. ASSUME NEW t \in Sockets, RecheckOne(t)
          PROVE  dirty' \/ s \in todo' \/ s \in stale'
      <4>1. CASE t = s
        BY <3>2, <4>1 DEF RecheckOne, Valid, db, socket
      <4>2. CASE t # s
        BY <3>2, <4>2, ChasedFrame DEF RecheckOne, db, socket
      <4> QED
        BY <4>1, <4>2
    <3>3. ASSUME NEW t \in Sockets, RecheckFails(t) PROVE FALSE
      BY <3>3 DEF RecheckFails
    <3>4. CASE RecheckClose
      <4>1. s \notin stale /\ s \notin todo /\ entry[s] = "open"
        BY <3>4 DEF RecheckClose, Signal
      <4> QED
        BY <3>4, <4>1, ChasedFrame DEF RecheckClose, db
    <3> QED
      BY <2>2, <3>1, <3>2, <3>3, <3>4 DEF Recheck
  <2>3. ASSUME NEW h \in Handlers, Handler(h) PROVE dirty' \/ s \in todo' \/ s \in stale'
    <3>1. pc'[s] = pc[s] /\ key'[s] = key[s] /\ entry[s] = "open" /\ UNCHANGED <<todo, stale>>
      BY <2>3 DEF Handler, Begin, LogoutDelete, LogoutClose, PasswordCommit, PasswordClose,
         PasswordRelogin, EndEarly, DeviceRevoke, DeviceSetTier, CapsChange, Scan, Apply,
         Commit, Signal, socket, recheck
    <3>2. dirty' \/ UNCHANGED <<epoch, disabled, grant, revoked, dirty>>
      BY <2>3 DEF Handler, Begin, LogoutDelete, LogoutClose, PasswordCommit, PasswordClose,
         PasswordRelogin, EndEarly, DeviceRevoke, DeviceSetTier, CapsChange, Scan, Apply,
         Commit, db, recheck
    <3> QED
      BY <3>1, <3>2, ChasedFrame
  <2>4. CASE Database
    <3>1. CASE dirty'
      BY <3>1
    <3>2. ASSUME NEW new \in Sessions, NEW old \in Sessions \cup {None}, Login(new, old)
          PROVE  dirty' \/ s \in todo' \/ s \in stale'
      BY <3>2, ChasedFrame DEF Login, socket, recheck
    <3> QED
      BY <2>4, <3>1, <3>2 DEF Database, CliPasswd, CliRevokeSessions, CliDisable, CliEnable,
         DeviceExpire, UnrelatedCommit, Elsewhere
  <2>5. CASE UNCHANGED vars
    BY <2>5, ChasedFrame DEF vars, db, socket, recheck
  <2> QED
    BY <2>1, <2>2, <2>3, <2>4, <2>5 DEF Next
<1> QED
  BY <1>1, <1>2, TypeCorrect, PTL DEF Spec

-----------------------------------------------------------------------------
(* What is said to have been revoked was.                                  *)

(* An epoch has moved past the key: epochs only grow, so this stays.       *)
Dead(k) ==
    \/ k.epoch < epoch[Owner[k.cred]]
    \/ k.cred \in Devices /\ k.grant < grant[k.cred]

(* No key is ahead of the epochs it was read from; an account is disabled, *)
(* and a device revoked, only with a move of its epoch.                    *)
KeysBehind ==
    \A s \in Sockets : pc[s] # "idle" =>
        LET k == key[s]
            p == Owner[k.cred] IN
        /\ k.epoch <= epoch[p]
        /\ disabled[p] => k.epoch < epoch[p]
        /\ k.cred \in Devices => /\ k.grant <= grant[k.cred]
                                 /\ revoked[k.cred] => k.grant < grant[k.cred]

(* The closes still under way come after the commits they belong to.       *)
ClosesFollow ==
    /\ \A p \in Principals : floor[p] <= epoch[p]
    /\ \A h \in Handlers :
         /\ Committed(h, "password") => call[h].epoch <= epoch[Owner[call[h].on]]
         /\ Committed(h, "revoke") => call[h].on \in Devices /\ revoked[call[h].on]

(* Whoever was picked to be told "revoked", or has been told, is dead.     *)
PickedAreDead ==
    /\ \A s \in todo : pc[s] # "idle"
    /\ \A s \in stale : pc[s] # "idle" /\ Dead(key[s])
    /\ \A h \in Handlers : call[h].at = "scanned" /\ call[h].kind = "revoke" =>
         \A s \in call[h].ids : pc[s] # "idle" /\ Dead(key[s])
    /\ \A s \in Sockets : entry[s] = "revoked" => Dead(key[s])

Revocations == KeysBehind /\ ClosesFollow /\ PickedAreDead

(* The epochs of accounts.db only grow.                                    *)
EpochsGrow ==
    /\ \A p \in Principals :
         /\ epoch'[p] \in Int /\ epoch[p] <= epoch'[p]
         /\ disabled'[p] => disabled[p] \/ epoch[p] < epoch'[p]
    /\ \A d \in Devices :
         /\ grant'[d] \in Int /\ grant[d] <= grant'[d]
         /\ revoked[d] => revoked'[d]
         /\ revoked'[d] => revoked[d] \/ grant[d] < grant'[d]

LEMMA EpochsKept ==
  ASSUME TypeOK, UNCHANGED <<epoch, disabled, grant, revoked>>
  PROVE  EpochsGrow
  BY BoundsAssumption DEF TypeOK, EpochsGrow

LEMMA MarkRevokedGrows ==
  ASSUME TypeOK, NEW ds, MarkRevoked(ds)
  PROVE  \A d \in Devices :
           /\ grant'[d] \in Int /\ grant[d] <= grant'[d]
           /\ revoked[d] => revoked'[d]
           /\ revoked'[d] => revoked[d] \/ grant[d] < grant'[d]
<1> TAKE d \in Devices
<1>1. grant[d] \in Int
  BY BoundsAssumption DEF TypeOK
<1>2. /\ grant'[d] = IF d \in ds /\ ~revoked[d] THEN grant[d] + 1 ELSE grant[d]
      /\ revoked'[d] <=> revoked[d] \/ d \in ds
  BY DEF MarkRevoked
<1> QED
  BY <1>1, <1>2

(* Moving one account's epoch.                                             *)
LEMMA EpochMoves ==
  ASSUME TypeOK, NEW p \in Principals, epoch' = [epoch EXCEPT ![p] = @ + 1],
         \A q \in Principals : disabled'[q] => disabled[q] \/ q = p
  PROVE  \A q \in Principals :
           /\ epoch'[q] \in Int /\ epoch[q] <= epoch'[q]
           /\ disabled'[q] => disabled[q] \/ epoch[q] < epoch'[q]
<1> TAKE q \in Principals
<1>1. epoch[q] \in Int /\ epoch'[q] = IF q = p THEN epoch[q] + 1 ELSE epoch[q]
  BY BoundsAssumption DEF TypeOK
<1> QED
  BY <1>1

LEMMA EpochsOnlyGrow ==
  ASSUME TypeOK, [Next]_vars
  PROVE  EpochsGrow
<1>1. CASE UNCHANGED <<epoch, disabled, grant, revoked>>
  BY <1>1, EpochsKept
<1>2. ASSUME NEW h \in Handlers, PasswordCommit(h) PROVE EpochsGrow
  <2>1. Owner[call[h].on] \in Principals
    BY <1>2, OwnerType DEF PasswordCommit, TypeOK
  <2>2. UNCHANGED <<grant, revoked>> /\ \A d \in Devices : grant[d] \in Int
    BY <1>2, BoundsAssumption DEF PasswordCommit, TypeOK
  <2>3. /\ epoch' = [epoch EXCEPT ![Owner[call[h].on]] = @ + 1]
        /\ disabled' = disabled
    BY <1>2 DEF PasswordCommit
  <2>4. \A q \in Principals :
          /\ epoch'[q] \in Int /\ epoch[q] <= epoch'[q]
          /\ disabled'[q] => disabled[q] \/ epoch[q] < epoch'[q]
    BY <2>1, <2>3, EpochMoves
  <2> QED
    BY <2>2, <2>4 DEF EpochsGrow
<1>3. ASSUME NEW d \in Devices, \/ DeviceExpire(d) \/ \E h \in Handlers : DeviceRevoke(h, d)
      PROVE  EpochsGrow
  <2>1. UNCHANGED <<epoch, disabled>> /\ \A p \in Principals : epoch[p] \in Int
    BY <1>3, BoundsAssumption DEF DeviceExpire, DeviceRevoke, TypeOK
  <2> QED
    BY <1>3, <2>1, MarkRevokedGrows DEF DeviceExpire, DeviceRevoke, EpochsGrow
<1>4. ASSUME NEW h \in Handlers, NEW d \in Devices, DeviceSetTier(h, d) PROVE EpochsGrow
  <2>1. UNCHANGED <<epoch, disabled, revoked>> /\ \A p \in Principals : epoch[p] \in Int
    BY <1>4, BoundsAssumption DEF DeviceSetTier, TypeOK
  <2>2. \A e \in Devices : grant[e] \in Int /\ grant'[e] = IF e = d THEN grant[e] + 1 ELSE grant[e]
    BY <1>4, BoundsAssumption DEF DeviceSetTier, TypeOK
  <2> QED
    BY <2>1, <2>2 DEF EpochsGrow
<1>5. ASSUME NEW p \in Principals, CliPasswd(p) \/ CliRevokeSessions(p) \/ CliDisable(p)
      PROVE  EpochsGrow
  <2>1. \A q \in Principals : disabled'[q] => disabled[q] \/ q = p
    BY <1>5 DEF CliPasswd, CliRevokeSessions, CliDisable, TypeOK
  <2>2. \A d \in Devices : grant[d] \in Int
    BY BoundsAssumption DEF TypeOK
  <2>3. \A d \in Devices :
          /\ grant'[d] \in Int /\ grant[d] <= grant'[d]
          /\ revoked[d] => revoked'[d]
          /\ revoked'[d] => revoked[d] \/ grant[d] < grant'[d]
    BY <1>5, <2>2, MarkRevokedGrows DEF CliPasswd, CliRevokeSessions, CliDisable
  <2> QED
    BY <1>5, <2>1, <2>3, EpochMoves DEF CliPasswd, CliRevokeSessions, CliDisable, EpochsGrow
<1>6. ASSUME NEW p \in Principals, CliEnable(p) PROVE EpochsGrow
  <2>1. \A q \in Principals : epoch[q] \in Int /\ (disabled'[q] => disabled[q])
    BY <1>6, BoundsAssumption DEF CliEnable, TypeOK
  <2>2. \A d \in Devices : grant[d] \in Int
    BY BoundsAssumption DEF TypeOK
  <2> QED
    BY <1>6, <2>1, <2>2 DEF CliEnable, EpochsGrow
<1> QED
  <2>1. ASSUME NEW s \in Sockets, Socket(s) PROVE UNCHANGED db
    BY <2>1 DEF Socket, Resolve, Register, CheckOk, CheckRefused, Narrow, Upgrade,
       UpgradeRefused, PumpClose, Hangup, Release
  <2>2. CASE Recheck
    BY <2>2, <1>1 DEF Recheck, Tick, TickUnreadable, StartPass, RecheckOne, RecheckFails,
       RecheckClose, db
  <2>3. ASSUME NEW h \in Handlers, Handler(h) PROVE EpochsGrow
    BY <2>3, <1>1, <1>2, <1>3, <1>4 DEF Handler, Begin, LogoutDelete, LogoutClose,
       PasswordClose, PasswordRelogin, EndEarly, CapsChange, Scan, Apply, db
  <2>4. CASE Database
    BY <2>4, <1>1, <1>3, <1>5, <1>6 DEF Database, Login, UnrelatedCommit
  <2> QED
    BY <2>1, <2>2, <2>3, <2>4, <1>1 DEF Next, vars, db

(* A socket that is there was there with the same key, or just resolved.   *)
LEMMA KeyFate ==
  ASSUME TypeOK, [Next]_vars, NEW s \in Sockets, pc'[s] # "idle"
  PROVE  \/ pc[s] # "idle" /\ key'[s] = key[s]
         \/ \E c \in Creds : Resolve(s, c)
<1>1. ASSUME NEW t \in Sockets, Socket(t), t # s PROVE pc'[s] = pc[s] /\ key'[s] = key[s]
  BY <1>1 DEF Socket, Resolve, Register, CheckOk, CheckRefused, Narrow, Upgrade,
     UpgradeRefused, PumpClose, Hangup, Release, TypeOK
<1>2. ASSUME Socket(s), \A c \in Creds : ~Resolve(s, c)
      PROVE  pc[s] # "idle" /\ key'[s] = key[s]
  BY <1>2 DEF Socket, Register, CheckOk, CheckRefused, Narrow, Upgrade,
     UpgradeRefused, PumpClose, Hangup, Release, TypeOK
<1>3. CASE \A t \in Sockets : ~Socket(t)
  <2>1. UNCHANGED <<pc, key>>
    BY <1>3 DEF Next, vars, socket, Recheck, Tick, TickUnreadable, StartPass, RecheckOne,
       RecheckFails, RecheckClose, Handler, Begin, LogoutDelete, LogoutClose, PasswordCommit,
       PasswordClose, PasswordRelogin, EndEarly, DeviceRevoke, DeviceSetTier, CapsChange,
       Scan, Apply, Database, Login, CliPasswd, CliRevokeSessions, CliDisable, CliEnable,
       DeviceExpire, UnrelatedCommit, Elsewhere
  <2> QED
    BY <2>1
<1> QED
  BY <1>1, <1>2, <1>3

(* A step of a socket, or none: its entry is still open only if it was, or *)
(* if it is just registered.                                               *)
LEMMA EntryFate ==
  ASSUME TypeOK, [Next]_vars, NEW s \in Sockets, pc[s] # "idle",
         entry'[s] \in {"none", "open"}, pc'[s] # "idle"
  PROVE  entry[s] \in {"none", "open"}
<1>1. ASSUME NEW t \in Sockets, Socket(t) PROVE entry[s] \in {"none", "open"}
  BY <1>1 DEF Socket, Resolve, Register, CheckOk, CheckRefused, Narrow, Upgrade,
     UpgradeRefused, PumpClose, Hangup, Release, TypeOK
<1>2. ASSUME NEW h \in Handlers, Handler(h) PROVE entry[s] \in {"none", "open"}
  BY <1>2 DEF Handler, Begin, LogoutDelete, LogoutClose, PasswordCommit, PasswordClose,
     PasswordRelogin, EndEarly, DeviceRevoke, DeviceSetTier, CapsChange, Scan, Apply,
     Signal, socket, TypeOK
<1>3. CASE Recheck \/ Database \/ UNCHANGED vars
  BY <1>3 DEF Recheck, Tick, TickUnreadable, StartPass, RecheckOne, RecheckFails, RecheckClose,
     Signal, Database, Login, CliPasswd, CliRevokeSessions, CliDisable, CliEnable, DeviceExpire,
     UnrelatedCommit, Elsewhere, socket, vars, TypeOK
<1> QED
  BY <1>1, <1>2, <1>3 DEF Next

(* A key that is there is well typed.                                      *)
LEMMA KeyType ==
  ASSUME TypeOK, NEW s \in Sockets, pc[s] # "idle"
  PROVE  /\ key[s] \in Keys /\ key[s].cred \in Creds
         /\ Owner[key[s].cred] \in Principals
         /\ key[s].epoch \in Int /\ key[s].grant \in Int
         /\ epoch[Owner[key[s].cred]] \in Int
         /\ key[s].cred \in Devices => grant[key[s].cred] \in Int
<1>1. key[s] \in Keys
  BY DEF TypeOK
<1>2. key[s].cred \in Creds
  BY <1>1 DEF Keys
<1> QED
  BY <1>1, <1>2, OwnerType, BoundsAssumption DEF Keys, TypeOK

(* A dead key is invalid, and stays dead.                                  *)
LEMMA DeadIsInvalid ==
  ASSUME TypeOK, NEW s \in Sockets, pc[s] # "idle", Dead(key[s])
  PROVE  ~Valid(key[s])
  BY KeyType DEF Dead, Valid

LEMMA InvalidIsDead ==
  ASSUME TypeOK, KeysBehind, NEW s \in Sockets, pc[s] # "idle", ~Valid(key[s])
  PROVE  Dead(key[s])
  BY KeyType DEF Dead, Valid, KeysBehind

LEMMA DeadStays ==
  ASSUME TypeOK, EpochsGrow, NEW s \in Sockets, pc[s] # "idle", key'[s] = key[s],
         Dead(key[s])
  PROVE  Dead(key[s])'
  BY KeyType DEF Dead, EpochsGrow

(* What another step leaves of a handler that has committed.               *)
LEMMA CallFate ==
  ASSUME TypeOK, [Next]_vars, NEW h \in Handlers, call'[h].at = "committed"
  PROVE  \/ /\ call[h].at = "committed"
            /\ call'[h].kind = call[h].kind /\ call'[h].on = call[h].on
            /\ call'[h].epoch = call[h].epoch
         \/ LogoutDelete(h) /\ call'[h].kind = "logout"
         \/ PasswordCommit(h) /\ call'[h].kind = "password"
         \/ \E d \in Devices : DeviceRevoke(h, d) /\ call'[h].kind = "revoke"
         \/ \E d \in Devices : DeviceSetTier(h, d) /\ call'[h].kind = "tier"
         \/ \E x \in Devices \cup Principals : CapsChange(h, x) /\ call'[h].kind = "policy"
<1>0. call[h] \in CallSet
  BY DEF TypeOK
<1>1. ASSUME NEW s \in Sockets, Release(s)
      PROVE  /\ call[h].at = "committed"
             /\ call'[h].kind = call[h].kind /\ call'[h].on = call[h].on
             /\ call'[h].epoch = call[h].epoch
  BY <1>0, <1>1 DEF Release, CallSet
<1>2. ASSUME NEW s \in Sockets, Socket(s), ~Release(s) PROVE UNCHANGED call
  BY <1>2 DEF Socket, Resolve, Register, CheckOk, CheckRefused, Narrow, Upgrade,
     UpgradeRefused, PumpClose, Hangup
<1>3. CASE Recheck
  BY <1>3 DEF Recheck, Tick, TickUnreadable, StartPass, RecheckOne, RecheckFails, RecheckClose
<1>4. ASSUME NEW g \in Handlers, Handler(g), g # h PROVE call'[h] = call[h]
  BY <1>4 DEF Handler, Begin, LogoutDelete, LogoutClose, PasswordCommit, PasswordClose,
     PasswordRelogin, EndEarly, DeviceRevoke, DeviceSetTier, CapsChange, Scan, Apply,
     Commit, Start, MoveTo, Done, TypeOK
<1>5. CASE Handler(h)
  <2>1. LogoutDelete(h) => call'[h].kind = "logout"
    BY DEF LogoutDelete, MoveTo, TypeOK
  <2>2. \A d \in Devices : DeviceSetTier(h, d) => call'[h].kind = "tier"
    BY DEF DeviceSetTier, Commit, Start, TypeOK
  <2>3. \A x \in Devices \cup Principals : CapsChange(h, x) => call'[h].kind = "policy"
    BY DEF CapsChange, Commit, Start, TypeOK
  <2>4. PasswordCommit(h) => call'[h].kind = "password"
    BY DEF PasswordCommit, MoveTo, TypeOK
  <2>5. \A d \in Devices : DeviceRevoke(h, d) => call'[h].kind = "revoke"
    BY DEF DeviceRevoke, Commit, Start, TypeOK
  <2> QED
    BY <1>5, <2>1, <2>2, <2>3, <2>4, <2>5 DEF Handler, Begin, LogoutClose, PasswordClose,
       PasswordRelogin, EndEarly, Scan, Apply, Start, MoveTo, Done, NoCall, TypeOK
<1>6. CASE Database
  BY <1>6 DEF Database, Login, CliPasswd, CliRevokeSessions, CliDisable, CliEnable,
     DeviceExpire, UnrelatedCommit, Elsewhere
<1> QED
  BY <1>1, <1>2, <1>3, <1>4, <1>5, <1>6 DEF Next, vars

LEMMA KeysBehindStep ==
  ASSUME TypeOK, TypeOK', KeysBehind, [Next]_vars
  PROVE  KeysBehind'
<1> SUFFICES ASSUME NEW s \in Sockets, pc'[s] # "idle"
             PROVE  LET k == key'[s]
                        p == Owner[k.cred] IN
                    /\ k.epoch <= epoch'[p]
                    /\ disabled'[p] => k.epoch < epoch'[p]
                    /\ k.cred \in Devices => /\ k.grant <= grant'[k.cred]
                                             /\ revoked'[k.cred] => k.grant < grant'[k.cred]
  BY DEF KeysBehind
<1>1. CASE pc[s] # "idle" /\ key'[s] = key[s]
  <2>1. EpochsGrow
    BY EpochsOnlyGrow
  <2> QED
    BY <1>1, <2>1, KeyType DEF KeysBehind, EpochsGrow
<1>2. ASSUME NEW c \in Creds, Resolve(s, c)
      PROVE  LET k == key'[s]
                 p == Owner[k.cred] IN
             /\ k.epoch <= epoch'[p]
             /\ disabled'[p] => k.epoch < epoch'[p]
             /\ k.cred \in Devices => /\ k.grant <= grant'[k.cred]
                                      /\ revoked'[k.cred] => k.grant < grant'[k.cred]
  <2>1. /\ key'[s] = [cred |-> c, epoch |-> epoch[Owner[c]],
                      grant |-> IF c \in Devices THEN grant[c] ELSE 0]
        /\ UNCHANGED <<epoch, disabled, grant, revoked>>
        /\ ~disabled[Owner[c]]
        /\ c \in Devices => ~revoked[c]
    BY <1>2, CredsAssumption DEF Resolve, Authenticates, TypeOK, db
  <2>2. epoch[Owner[c]] \in Int /\ (c \in Devices => grant[c] \in Int)
    BY OwnerType, BoundsAssumption DEF TypeOK
  <2> QED
    BY <2>1, <2>2
<1> QED
  BY <1>1, <1>2, KeyFate

LEMMA ClosesFollowStep ==
  ASSUME TypeOK, TypeOK', ClosesFollow, [Next]_vars
  PROVE  ClosesFollow'
<1>1. EpochsGrow
  BY EpochsOnlyGrow
<1>2. ASSUME NEW h \in Handlers, Committed(h, "password"), Committed(h, "password")',
             call'[h].on = call[h].on, call'[h].epoch = call[h].epoch
      PROVE  call'[h].epoch <= epoch'[Owner[call'[h].on]]
  <2>1. Owner[call[h].on] \in Principals /\ call[h].epoch \in Int
    BY <1>2, OwnerType, BoundsAssumption DEF Committed, TypeOK, CallSet
  <2> QED
    BY <1>1, <1>2, <2>1, BoundsAssumption DEF ClosesFollow, EpochsGrow, TypeOK
<1>3. ASSUME NEW h \in Handlers, Committed(h, "revoke"), call'[h].on = call[h].on
      PROVE  call'[h].on \in Devices /\ revoked'[call'[h].on]
  BY <1>1, <1>3 DEF ClosesFollow, EpochsGrow
<1>4. ASSUME NEW h \in Handlers, Committed(h, "password")'
      PROVE  call'[h].epoch <= epoch'[Owner[call'[h].on]]
  <2>1. CASE PasswordCommit(h)
    <3>1. Owner[call[h].on] \in Principals
      BY <2>1, OwnerType DEF PasswordCommit, TypeOK
    <3>2. /\ call'[h].epoch = epoch[Owner[call[h].on]] + 1
          /\ call'[h].on = call[h].on
          /\ epoch'[Owner[call[h].on]] = epoch[Owner[call[h].on]] + 1
      BY <2>1, <3>1 DEF PasswordCommit, MoveTo, TypeOK
    <3>3. epoch[Owner[call[h].on]] \in Int
      BY <3>1, BoundsAssumption DEF TypeOK
    <3> QED
      BY <3>2, <3>3
  <2>2. CASE ~PasswordCommit(h)
    <3>1. /\ Committed(h, "password")
          /\ call'[h].on = call[h].on /\ call'[h].epoch = call[h].epoch
      BY <1>4, <2>2, CallFate DEF Committed
    <3> QED
      BY <1>2, <1>4, <3>1
  <2> QED
    BY <2>1, <2>2
<1>5. ASSUME NEW h \in Handlers, Committed(h, "revoke")'
      PROVE  call'[h].on \in Devices /\ revoked'[call'[h].on]
  <2>1. ASSUME NEW d \in Devices, DeviceRevoke(h, d) PROVE call'[h].on \in Devices /\ revoked'[call'[h].on]
    <3>1. call'[h].on = d
      BY <2>1 DEF DeviceRevoke, Commit, Start, TypeOK
    <3>2. revoked'[d]
      BY <2>1 DEF DeviceRevoke, MarkRevoked
    <3> QED
      BY <3>1, <3>2
  <2>2. CASE \A d \in Devices : ~DeviceRevoke(h, d)
    <3>1. Committed(h, "revoke") /\ call'[h].on = call[h].on
      BY <1>5, <2>2, CallFate DEF Committed
    <3> QED
      BY <1>3, <3>1
  <2> QED
    BY <2>1, <2>2
<1>6. ASSUME NEW p \in Principals PROVE floor'[p] <= epoch'[p]
  <2>0. floor[p] \in Int /\ epoch[p] \in Int /\ floor[p] <= epoch[p]
        /\ epoch'[p] \in Int /\ epoch[p] <= epoch'[p]
    BY <1>1, BoundsAssumption DEF ClosesFollow, TypeOK, EpochsGrow
  <2>1. ASSUME NEW h \in Handlers, PasswordClose(h) PROVE floor'[p] <= epoch'[p]
    <3>1. floor'[p] = floor[p] \/ (p = Owner[call[h].on] /\ floor'[p] = call[h].epoch)
      BY <2>1 DEF PasswordClose, TypeOK
    <3>2. call[h].epoch <= epoch[Owner[call[h].on]] /\ call[h].epoch \in Int
      BY <2>1, BoundsAssumption DEF PasswordClose, ClosesFollow, TypeOK, CallSet
    <3> QED
      BY <2>0, <3>1, <3>2
  <2>2. CASE \A h \in Handlers : ~PasswordClose(h)
    <3>1. UNCHANGED floor
      BY <2>2 DEF Next, vars, registry, Socket, Resolve, Register, CheckOk, CheckRefused,
         Narrow, Upgrade, UpgradeRefused, PumpClose, Hangup, Release, Recheck, Tick,
         TickUnreadable, StartPass, RecheckOne, RecheckFails, RecheckClose, Handler, Begin,
         LogoutDelete, LogoutClose, PasswordCommit, PasswordRelogin, EndEarly, DeviceRevoke,
         DeviceSetTier, CapsChange, Scan, Apply, Database, Login, CliPasswd,
         CliRevokeSessions, CliDisable, CliEnable, DeviceExpire, UnrelatedCommit, Elsewhere
    <3> QED
      BY <2>0, <3>1
  <2> QED
    BY <2>1, <2>2
<1> QED
  BY <1>4, <1>5, <1>6 DEF ClosesFollow

(* Who is picked by a step, and was not before.                            *)
LEMMA PickedByStale ==
  ASSUME TypeOK, KeysBehind, PickedAreDead, [Next]_vars, NEW s \in stale'
  PROVE  pc[s] # "idle" /\ pc'[s] # "idle" /\ key'[s] = key[s] /\ Dead(key[s])
<1>0. s \in stale => pc[s] # "idle" /\ Dead(key[s]) /\ s \in Sockets
  BY DEF PickedAreDead, TypeOK
<1>1. ASSUME NEW t \in Sockets, Socket(t)
      PROVE  s \in stale /\ pc'[s] # "idle" /\ key'[s] = key[s]
  BY <1>0, <1>1 DEF Socket, Resolve, Register, CheckOk, CheckRefused, Narrow, Upgrade,
     UpgradeRefused, PumpClose, Hangup, Release, TypeOK, recheck
<1>2. CASE Recheck
  <2>1. s \in stale \/ (s \in todo /\ ~Valid(key[s]))
    BY <1>2 DEF Recheck, Tick, TickUnreadable, StartPass, RecheckOne, RecheckFails, RecheckClose
  <2>2. UNCHANGED <<pc, key>>
    BY <1>2 DEF Recheck, Tick, TickUnreadable, StartPass, RecheckOne, RecheckFails,
       RecheckClose, socket
  <2>3. s \in todo => s \in Sockets /\ pc[s] # "idle"
    BY DEF PickedAreDead, TypeOK
  <2> QED
    BY <1>0, <2>1, <2>2, <2>3, InvalidIsDead
<1>3. CASE UNCHANGED <<pc, key, stale>>
  BY <1>0, <1>3
<1>4. ASSUME NEW h \in Handlers, Handler(h) PROVE UNCHANGED <<pc, key, stale>>
  BY <1>4 DEF Handler, Begin, LogoutDelete, LogoutClose, PasswordCommit, PasswordClose,
     PasswordRelogin, EndEarly, DeviceRevoke, DeviceSetTier, CapsChange, Scan, Apply,
     socket, recheck
<1>5. CASE Database
  BY <1>3, <1>5 DEF Database, Login, CliPasswd, CliRevokeSessions, CliDisable, CliEnable,
     DeviceExpire, UnrelatedCommit, Elsewhere, socket, recheck
<1> QED
  BY <1>0, <1>1, <1>2, <1>3, <1>4, <1>5 DEF Next, vars, socket, recheck

LEMMA PickedByScan ==
  ASSUME TypeOK, KeysBehind, ClosesFollow, PickedAreDead, [Next]_vars,
         NEW h \in Handlers, call'[h].at = "scanned", call'[h].kind = "revoke",
         NEW s \in call'[h].ids
  PROVE  pc[s] # "idle" /\ pc'[s] # "idle" /\ key'[s] = key[s] /\ Dead(key[s])
<1> DEFINE Picked == call[h].at = "scanned" /\ call[h].kind = "revoke" /\ s \in call[h].ids
<1>0. /\ call[h] \in CallSet
      /\ Picked => pc[s] # "idle" /\ Dead(key[s]) /\ s \in Sockets
  BY DEF PickedAreDead, TypeOK, CallSet
<1>1. ASSUME NEW t \in Sockets, Release(t)
      PROVE  Picked /\ s # t /\ pc'[s] = pc[s] /\ key'[s] = key[s]
  BY <1>0, <1>1 DEF Release, CallSet
<1>2. ASSUME NEW t \in Sockets, Socket(t), ~Release(t)
      PROVE  Picked /\ (pc[s] # "idle" /\ s \in Sockets => pc'[s] # "idle" /\ key'[s] = key[s])
  BY <1>2 DEF Socket, Resolve, Register, CheckOk, CheckRefused, Narrow, Upgrade,
     UpgradeRefused, PumpClose, Hangup, TypeOK
<1>3. CASE Scan(h)
  <2>1. call'[h].kind = call[h].kind
    BY <1>3 DEF Scan, MoveTo, TypeOK
  <2>2. /\ Committed(h, "revoke") /\ UNCHANGED <<pc, key>>
        /\ s \in Sockets /\ entry[s] = "open"
        /\ call[h].on \in {key[s].cred, Owner[key[s].cred]}
    BY <1>3, <2>1 DEF Scan, MoveTo, OpenEntries, Committed, TypeOK, socket
  <2>3. pc[s] # "idle"
    BY <2>2 DEF TypeOK
  <2>4. call[h].on \in Devices /\ revoked[call[h].on]
    BY <2>2 DEF ClosesFollow
  <2>5. call[h].on = key[s].cred
    BY <2>2, <2>3, <2>4, KeyType, CredsAssumption
  <2>6. key[s].cred \in Devices /\ key[s].grant < grant[key[s].cred]
    BY <2>2, <2>3, <2>4, <2>5 DEF KeysBehind
  <2> QED
    BY <2>2, <2>3, <2>6 DEF Dead
<1>4. ASSUME NEW g \in Handlers, Handler(g), ~Scan(h)
      PROVE  Picked /\ UNCHANGED <<pc, key>>
  <2>1. UNCHANGED <<pc, key>>
    BY <1>4 DEF Handler, Begin, LogoutDelete, LogoutClose, PasswordCommit, PasswordClose,
       PasswordRelogin, EndEarly, DeviceRevoke, DeviceSetTier, CapsChange, Scan, Apply, socket
  <2>2. ASSUME g # h PROVE call'[h] = call[h]
    BY <1>4, <2>2 DEF Handler, Begin, LogoutDelete, LogoutClose, PasswordCommit, PasswordClose,
       PasswordRelogin, EndEarly, DeviceRevoke, DeviceSetTier, CapsChange, Scan, Apply,
       Commit, Start, MoveTo, Done, TypeOK
  <2>3. ASSUME g = h PROVE FALSE
    <3>1. CASE Handler(h) /\ Done(h)
      BY <3>1 DEF Done, NoCall, TypeOK
    <3>2. CASE \E t \in Sessions : Begin(h, "logout", t) \/ Begin(h, "password", t)
      BY <3>2 DEF Begin, Start, TypeOK
    <3>3. CASE LogoutDelete(h) \/ PasswordCommit(h) \/ PasswordClose(h)
      BY <3>3 DEF LogoutDelete, PasswordCommit, PasswordClose, MoveTo, TypeOK
    <3>4. ASSUME NEW kind, NEW on, Commit(h, kind, on) PROVE FALSE
      BY <3>4 DEF Commit, Start, TypeOK
    <3>5. Handler(h) /\ ~Scan(h)
      BY <1>4, <2>3
    <3> QED
      BY <3>1, <3>2, <3>3, <3>4, <3>5 DEF Handler, LogoutClose, PasswordRelogin, EndEarly,
         Apply, DeviceRevoke, DeviceSetTier, CapsChange
  <2> QED
    BY <2>1, <2>2, <2>3
<1>5. ASSUME Database \/ Recheck \/ UNCHANGED vars
      PROVE  Picked /\ UNCHANGED <<pc, key>>
  BY <1>5 DEF Database, Login, CliPasswd, CliRevokeSessions, CliDisable, CliEnable,
     DeviceExpire, UnrelatedCommit, Elsewhere, Recheck, Tick, TickUnreadable, StartPass,
     RecheckOne, RecheckFails, RecheckClose, socket, vars
<1> HIDE DEF Picked
<1> QED
  BY <1>0, <1>1, <1>2, <1>3, <1>4, <1>5 DEF Next

LEMMA ToldRevoked ==
  ASSUME TypeOK, TypeOK', NoneSurvivesItsRevocation, KeysBehind, ClosesFollow, PickedAreDead,
         EpochsGrow, [Next]_vars, NEW s \in Sockets, entry'[s] = "revoked"
  PROVE  Dead(key[s])'
<1>0. pc'[s] # "idle"
  BY DEF TypeOK
<1>1. CASE entry[s] = "revoked"
  <2>1. pc[s] # "idle" /\ Dead(key[s])
    BY <1>1 DEF PickedAreDead, TypeOK
  <2>2. key'[s] = key[s]
    BY <1>0, <2>1, KeyFate DEF Resolve
  <2> QED
    BY <2>1, <2>2, DeadStays
<1>2. CASE Register(s) /\ entry[s] # "revoked"
  <2>1. /\ pc[s] # "idle" /\ UNCHANGED <<key, epoch, grant, floor, loggedOut>>
        /\ key[s].cred \notin loggedOut /\ Covered(key[s])
    BY <1>2 DEF Register, TypeOK, db, registry
  <2>2. key[s].epoch < floor[Owner[key[s].cred]]
    BY <2>1 DEF Covered
  <2>3. floor[Owner[key[s].cred]] \in Int /\ floor[Owner[key[s].cred]] <= epoch[Owner[key[s].cred]]
    BY <2>1, KeyType, BoundsAssumption DEF ClosesFollow, TypeOK
  <2> QED
    BY <2>1, <2>2, <2>3, KeyType DEF Dead
<1>3. CASE RecheckClose /\ entry[s] # "revoked"
  <2>1. s \in stale /\ UNCHANGED <<key, epoch, grant>>
    BY <1>3 DEF RecheckClose, Signal, db
  <2> QED
    BY <2>1 DEF PickedAreDead, Dead
<1>4. ASSUME NEW h \in Handlers, PasswordClose(h), entry[s] # "revoked" PROVE Dead(key[s])'
  <2>1. /\ entry[s] = "open" /\ UNCHANGED <<key, epoch, grant, pc>>
        /\ key[s].cred \in loggedOut \/ key[s].epoch < floor'[Owner[key[s].cred]]
    BY <1>4 DEF PasswordClose, Signal, db
  <2>2. key[s].epoch < floor'[Owner[key[s].cred]]
    BY <2>1 DEF NoneSurvivesItsRevocation, Covered
  <2>3. pc[s] # "idle" /\ Owner[key[s].cred] \in Principals
    BY <1>0, <2>1, KeyType
  <2>4. floor'[Owner[key[s].cred]] <= epoch'[Owner[key[s].cred]] /\ floor'[Owner[key[s].cred]] \in Int
    BY <2>3, ClosesFollowStep, BoundsAssumption DEF ClosesFollow, TypeOK
  <2> QED
    BY <2>1, <2>2, <2>3, <2>4, KeyType DEF Dead
<1>5. ASSUME NEW h \in Handlers, Apply(h), entry[s] # "revoked" PROVE Dead(key[s])'
  <2>1. /\ call[h].at = "scanned" /\ call[h].kind = "revoke" /\ s \in call[h].ids
        /\ UNCHANGED <<key, epoch, grant>>
    BY <1>5 DEF Apply, Signal, db
  <2> QED
    BY <2>1 DEF PickedAreDead, Dead
<1>6. ASSUME NEW t \in Sockets, Socket(t), ~Register(s), entry[s] # "revoked" PROVE FALSE
  BY <1>6 DEF Socket, Resolve, Register, CheckOk, CheckRefused, Narrow, Upgrade,
     UpgradeRefused, PumpClose, Hangup, Release, TypeOK
<1>7. ASSUME NEW h \in Handlers, Handler(h), ~PasswordClose(h), ~Apply(h), entry[s] # "revoked"
      PROVE  FALSE
  BY <1>7 DEF Handler, Begin, LogoutDelete, LogoutClose, PasswordCommit, PasswordRelogin,
     EndEarly, DeviceRevoke, DeviceSetTier, CapsChange, Scan, Signal, socket
<1>8. ASSUME Recheck \/ Database \/ UNCHANGED vars, ~RecheckClose, entry[s] # "revoked"
      PROVE  FALSE
  BY <1>8 DEF Recheck, Tick, TickUnreadable, StartPass, RecheckOne, RecheckFails, Database,
     Login, CliPasswd, CliRevokeSessions, CliDisable, CliEnable, DeviceExpire,
     UnrelatedCommit, Elsewhere, socket, vars
<1> QED
  BY <1>1, <1>2, <1>3, <1>4, <1>5, <1>6, <1>7, <1>8 DEF Next

LEMMA TodoPresent ==
  ASSUME TypeOK, PickedAreDead, [Next]_vars, NEW s \in todo'
  PROVE  pc'[s] # "idle"
<1>0. s \in todo => s \in Sockets /\ pc[s] # "idle"
  BY DEF PickedAreDead, TypeOK
<1>1. ASSUME NEW t \in Sockets, Socket(t) PROVE pc'[s] # "idle"
  BY <1>0, <1>1 DEF Socket, Resolve, Register, CheckOk, CheckRefused, Narrow, Upgrade,
     UpgradeRefused, PumpClose, Hangup, Release, TypeOK, recheck
<1>2. CASE Recheck
  BY <1>0, <1>2 DEF Recheck, Tick, TickUnreadable, StartPass, OpenEntries, RecheckOne,
     RecheckFails, RecheckClose, TypeOK, socket
<1>3. ASSUME NEW h \in Handlers, Handler(h) PROVE UNCHANGED <<todo, pc>>
  BY <1>3 DEF Handler, Begin, LogoutDelete, LogoutClose, PasswordCommit, PasswordClose,
     PasswordRelogin, EndEarly, DeviceRevoke, DeviceSetTier, CapsChange, Scan, Apply,
     socket, recheck
<1>4. CASE Database \/ UNCHANGED vars
  BY <1>0, <1>4 DEF Database, Login, CliPasswd, CliRevokeSessions, CliDisable, CliEnable,
     DeviceExpire, UnrelatedCommit, Elsewhere, socket, recheck, vars
<1> QED
  BY <1>0, <1>1, <1>2, <1>3, <1>4 DEF Next

LEMMA PickedAreDeadStep ==
  ASSUME TypeOK, TypeOK', NoneSurvivesItsRevocation, Revocations, [Next]_vars
  PROVE  PickedAreDead'
<1>0. EpochsGrow /\ KeysBehind /\ ClosesFollow /\ PickedAreDead
  BY EpochsOnlyGrow DEF Revocations
<1>1. ASSUME NEW s \in stale' PROVE pc'[s] # "idle" /\ Dead(key[s])'
  BY <1>0, <1>1, PickedByStale, DeadStays DEF TypeOK
<1>2. ASSUME NEW h \in Handlers, call'[h].at = "scanned", call'[h].kind = "revoke",
             NEW s \in call'[h].ids
      PROVE  pc'[s] # "idle" /\ Dead(key[s])'
  <2>1. s \in Sockets
    BY <1>2 DEF TypeOK, CallSet
  <2> QED
    BY <1>0, <1>2, <2>1, PickedByScan, DeadStays
<1> QED
  BY <1>0, <1>1, <1>2, ToldRevoked, TodoPresent DEF PickedAreDead

(* Nobody is told "revoked" whose credential still holds, whatever is      *)
(* signalled late, with an old epoch, from an old pass or by a tombstone.  *)
THEOREM RevokedIsTrue == Spec => []RevokedMeansInvalid
<1>1. Init => Revocations
  <2> SUFFICES ASSUME Init PROVE Revocations
    OBVIOUS
  <2>1. KeysBehind
    BY DEF Init, KeysBehind
  <2>2. ClosesFollow
    BY DEF Init, ClosesFollow, Committed, NoCall
  <2>3. PickedAreDead
    BY DEF Init, PickedAreDead, NoCall
  <2> QED
    BY <2>1, <2>2, <2>3 DEF Revocations
<1>2. TypeOK /\ TypeOK' /\ NoneSurvivesItsRevocation /\ Revocations /\ [Next]_vars
      => Revocations'
  BY KeysBehindStep, ClosesFollowStep, PickedAreDeadStep DEF Revocations
<1>3. TypeOK /\ Revocations => RevokedMeansInvalid
  <2> SUFFICES ASSUME TypeOK, Revocations, NEW s \in Sockets, entry[s] = "revoked"
               PROVE  ~Valid(key[s])
    BY DEF RevokedMeansInvalid
  <2>1. pc[s] # "idle"
    BY DEF TypeOK
  <2> QED
    BY <2>1, DeadIsInvalid DEF Revocations, PickedAreDead
<1> QED
  BY <1>1, <1>2, <1>3, TypeCorrect, ExactRegistry, PTL DEF Spec

-----------------------------------------------------------------------------
(* Handlers that are not dropped: what a commit promised is done.          *)

(* A handler that has committed leaves that stage by its close only.       *)
LEMMA CallStays ==
  ASSUME TypeOK, HandlersMayDrop = FALSE, [Next]_vars,
         NEW h \in Handlers, call[h].at = "committed"
  PROVE  \/ /\ call'[h].at = "committed"
            /\ call'[h].kind = call[h].kind /\ call'[h].on = call[h].on
         \/ LogoutClose(h) \/ PasswordClose(h) \/ Scan(h)
<1>0. call[h] \in CallSet
  BY DEF TypeOK
<1>1. ASSUME NEW s \in Sockets, Release(s)
      PROVE  /\ call'[h].at = "committed"
             /\ call'[h].kind = call[h].kind /\ call'[h].on = call[h].on
  BY <1>0, <1>1 DEF Release, CallSet
<1>2. ASSUME NEW s \in Sockets, Socket(s), ~Release(s) PROVE UNCHANGED call
  BY <1>2 DEF Socket, Resolve, Register, CheckOk, CheckRefused, Narrow, Upgrade,
     UpgradeRefused, PumpClose, Hangup
<1>3. CASE Recheck
  BY <1>3 DEF Recheck, Tick, TickUnreadable, StartPass, RecheckOne, RecheckFails, RecheckClose
<1>4. ASSUME NEW g \in Handlers, Handler(g), g # h PROVE call'[h] = call[h]
  BY <1>4 DEF Handler, Begin, LogoutDelete, LogoutClose, PasswordCommit, PasswordClose,
     PasswordRelogin, EndEarly, DeviceRevoke, DeviceSetTier, CapsChange, Scan, Apply,
     Commit, Start, MoveTo, Done, TypeOK
<1>5. CASE Handler(h)
  BY <1>5 DEF Handler, Idle, Begin, LogoutDelete, PasswordCommit, PasswordRelogin, EndEarly,
     DeviceRevoke, DeviceSetTier, CapsChange, Commit, Apply
<1>6. CASE Database
  BY <1>6 DEF Database, Login, CliPasswd, CliRevokeSessions, CliDisable, CliEnable,
     DeviceExpire, UnrelatedCommit, Elsewhere
<1> QED
  BY <1>1, <1>2, <1>3, <1>4, <1>5, <1>6 DEF Next, vars

(* A session is logged out by its handler's delete, and by nothing else.   *)
LEMMA LoggedOutBy ==
  ASSUME TypeOK, [Next]_vars, NEW t \in Sessions, sess'[t] = "loggedOut"
  PROVE  sess[t] = "loggedOut" \/ \E h \in Handlers : LogoutDelete(h) /\ call[h].on = t
<1>1. CASE UNCHANGED sess
  BY <1>1
<1>2. ASSUME NEW h \in Handlers, Handler(h), ~UNCHANGED sess
      PROVE  sess[t] = "loggedOut" \/ (LogoutDelete(h) /\ call[h].on = t)
  <2>1. CASE LogoutDelete(h)
    BY <2>1 DEF LogoutDelete, TypeOK
  <2>2. ASSUME NEW new \in Sessions, PasswordRelogin(h, new) PROVE sess[t] = "loggedOut"
    BY <2>2 DEF PasswordRelogin, TypeOK
  <2> QED
    BY <1>2, <2>1, <2>2 DEF Handler, Begin, LogoutClose, PasswordCommit, PasswordClose,
       EndEarly, DeviceRevoke, DeviceSetTier, CapsChange, Scan, Apply, db
<1>3. CASE Database
  BY <1>1, <1>3 DEF Database, Login, CliPasswd, CliRevokeSessions, CliDisable, CliEnable,
     DeviceExpire, UnrelatedCommit, Elsewhere, TypeOK
<1>4. ASSUME NEW s \in Sockets, Socket(s) PROVE UNCHANGED sess
  BY <1>4 DEF Socket, Resolve, Register, CheckOk, CheckRefused, Narrow, Upgrade,
     UpgradeRefused, PumpClose, Hangup, Release, db
<1>5. CASE Recheck
  BY <1>1, <1>5 DEF Recheck, Tick, TickUnreadable, StartPass, RecheckOne, RecheckFails,
     RecheckClose, db
<1> QED
  BY <1>1, <1>2, <1>3, <1>4, <1>5 DEF Next, vars, db

(* The tombstones change by a logout's close only.                         *)
LEMMA TombstonesBy ==
  ASSUME [Next]_vars, \A h \in Handlers : ~LogoutClose(h)
  PROVE  UNCHANGED loggedOut
  BY DEF Next, vars, registry, Socket, Resolve, Register, CheckOk, CheckRefused,
     Narrow, Upgrade, UpgradeRefused, PumpClose, Hangup, Release, Recheck, Tick,
     TickUnreadable, StartPass, RecheckOne, RecheckFails, RecheckClose, Handler, Begin,
     LogoutDelete, PasswordCommit, PasswordClose, PasswordRelogin, EndEarly, DeviceRevoke,
     DeviceSetTier, CapsChange, Scan, Apply, Database, Login, CliPasswd,
     CliRevokeSessions, CliDisable, CliEnable, DeviceExpire, UnrelatedCommit, Elsewhere

LoggingOut(t) == \E h \in Handlers : Committed(h, "logout") /\ call[h].on = t

(* A handshake or a socket of a session that is gone has a tombstone, or a *)
(* handler on its way to leave one.                                        *)
TombstonesReach ==
    \A s \in Sockets :
        /\ pc[s] # "idle" /\ entry[s] \in {"none", "open"}
        /\ key[s].cred \in Sessions /\ sess[key[s].cred] = "loggedOut"
        => key[s].cred \in loggedOut \/ LoggingOut(key[s].cred)

LEMMA TombstonesReachStep ==
  ASSUME HandlersMayDrop = FALSE, TypeOK, TypeOK', NoneSurvivesItsRevocation,
         TombstonesReach, [Next]_vars
  PROVE  TombstonesReach'
<1> SUFFICES ASSUME NEW s \in Sockets, NEW t \in Sessions,
                    pc'[s] # "idle", entry'[s] \in {"none", "open"},
                    key'[s].cred = t, sess'[t] = "loggedOut"
             PROVE  t \in loggedOut' \/ LoggingOut(t)'
  BY DEF TombstonesReach
<1>1. ASSUME NEW c \in Creds, Resolve(s, c) PROVE FALSE
  <2>1. key'[s].cred = c /\ UNCHANGED sess
    BY <1>1 DEF Resolve, TypeOK, db
  <2>2. sess[c] = "live"
    BY <1>1, <2>1 DEF Resolve, Authenticates
  <2> QED
    BY <2>1, <2>2
<1>2. pc[s] # "idle" /\ key'[s] = key[s] /\ key[s].cred = t
  BY <1>1, KeyFate
<1>3. ASSUME NEW h \in Handlers, LogoutDelete(h), call[h].on = t
      PROVE  LoggingOut(t)'
  BY <1>3 DEF LogoutDelete, MoveTo, LoggingOut, Committed, TypeOK
<1>4. CASE sess[t] = "loggedOut"
  <2>1. entry[s] \in {"none", "open"}
    BY <1>2, EntryFate
  <2>2. CASE t \in loggedOut
    <3>1. ASSUME NEW h \in Handlers, LogoutClose(h), t \notin loggedOut' PROVE FALSE
      <4>1. pc[s] # "resolved"
        BY <2>2, <3>1 DEF LogoutClose
      <4>2. entry[s] = "open"
        BY <1>2, <2>1, <4>1 DEF TypeOK
      <4> QED
        BY <1>2, <2>2, <4>2 DEF NoneSurvivesItsRevocation, Covered
    <3> QED
      BY <1>2, <2>2, <3>1, TombstonesBy
  <2>3. ASSUME NEW h \in Handlers, Committed(h, "logout"), call[h].on = t
        PROVE  t \in loggedOut' \/ LoggingOut(t)'
    <3>1. CASE LogoutClose(h)
      BY <2>3, <3>1 DEF LogoutClose
    <3>2. CASE ~LogoutClose(h)
      <4>1. ~PasswordClose(h) /\ ~Scan(h)
        BY <2>3 DEF Committed, PasswordClose, Scan
      <4> QED
        BY <2>3, <3>2, <4>1, CallStays DEF Committed, LoggingOut
    <3> QED
      BY <3>1, <3>2
  <2> QED
    BY <1>2, <1>4, <2>1, <2>2, <2>3 DEF TombstonesReach, LoggingOut
<1> QED
  BY <1>2, <1>3, <1>4, LoggedOutBy

(* The sockets of a session that was logged out are closed by the logout's *)
(* own close, those whose handshake had not yet registered included.       *)
THEOREM LogoutReaches ==
  ASSUME HandlersMayDrop = FALSE
  PROVE  Spec => []LogoutReachesItsSockets
<1>1. Init => TombstonesReach
  BY DEF Init, TombstonesReach
<1>2. TypeOK /\ TypeOK' /\ NoneSurvivesItsRevocation /\ TombstonesReach /\ [Next]_vars
      => TombstonesReach'
  BY TombstonesReachStep
<1>3. TypeOK /\ NoneSurvivesItsRevocation /\ TombstonesReach => LogoutReachesItsSockets
  BY DEF TypeOK, NoneSurvivesItsRevocation, Covered, TombstonesReach, LoggingOut,
     LogoutReachesItsSockets
<1> QED
  BY <1>1, <1>2, <1>3, TypeCorrect, ExactRegistry, PTL DEF Spec
=============================================================================
