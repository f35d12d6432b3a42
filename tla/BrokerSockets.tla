--------------------------- MODULE BrokerSockets ---------------------------
(***************************************************************************)
(* The T1 broker's open WebSockets and the revocation of the credentials   *)
(* they were opened with: accounts.db, the handshake of ws_proxy, the      *)
(* socket registry (WsRegistry), its re-check loop, and the HTTP handlers  *)
(* and CLI commands that revoke a credential or change what it may do.     *)
(*                                                                         *)
(* A socket is a slot here; the code's registration ids are never reused,  *)
(* so releasing a slot also takes it out of every id list still held.      *)
(***************************************************************************)
EXTENDS Integers, FiniteSets

CONSTANTS
    Principals,       \* accounts
    Sessions,         \* session ids, each given out by one login
    Devices,          \* paired devices
    Owner,            \* whose credential a session or device is
    Sockets,          \* slots for concurrently handled WebSockets
    Handlers,         \* slots for concurrently running HTTP handlers
    None,             \* no key / no subject
    MaxEpoch,         \* bound on session_epoch
    MaxGrant,         \* bound on tier changes of one device
    ReadsMayFail,     \* may still_valid's read of accounts.db fail?
    HandlersMayDrop   \* may the HTTP server drop a handler at its commit?

Creds == Sessions \cup Devices

(* WsKey: what a socket was authenticated with.  The principal is Owner of *)
(* the credential; a session's grant is never compared.                    *)
Keys == [cred : Creds, epoch : 0..MaxEpoch, grant : 0..MaxGrant+1]

ASSUME CredsAssumption ==
    /\ Sessions \cap Devices = {}
    /\ Creds \cap Principals = {}
    /\ Owner \in [Creds -> Principals]
ASSUME NoneAssumption == None \notin Keys /\ None \notin Creds \cup Principals
ASSUME BoundsAssumption ==
    /\ MaxEpoch \in Nat /\ MaxGrant \in Nat
    /\ ReadsMayFail \in BOOLEAN /\ HandlersMayDrop \in BOOLEAN

VARIABLES
    \* accounts.db
    epoch, disabled,      \* accounts: session_epoch, disabled_at
    grant, revoked,       \* devices: grant_epoch, revoked_at
    \* sessions.db: session rows and the epoch their auth hash holds
    sess, sessEpoch,
    \* one WebSocket: its handler's progress, key and entry
    pc, key, entry,
    \* the rest of WsRegistry
    loggedOut, floor,
    \* the re-check loop: is data_version # last, and the pass in progress
    dirty, loop, todo, stale,
    \* HTTP handlers that revoke something
    call

db       == <<epoch, disabled, sess, sessEpoch, grant, revoked>>
socket   == <<pc, key, entry>>
registry == <<loggedOut, floor>>
recheck  == <<dirty, loop, todo, stale>>
vars     == <<db, socket, registry, recheck, call>>

Stages   == {"idle", "resolved", "registered", "checked", "narrowed", "open"}
Entries  == {"none", "open", "revoked", "loggedOut", "caps"}
CallSet  == [at    : {"idle", "begun", "committed", "scanned", "relogin"},
             kind  : {"none", "logout", "password", "revoke", "tier", "policy"},
             on    : Creds \cup Principals \cup {None},
             epoch : 0..MaxEpoch,
             ids   : SUBSET Sockets]
NoCall   == [at |-> "idle", kind |-> "none", on |-> None, epoch |-> 0, ids |-> {}]

(* A handler starts on a subject, moves on with it, and is done.           *)
Start(h, at, kind, on) ==
    call' = [call EXCEPT ![h] =
               [at |-> at, kind |-> kind, on |-> on, epoch |-> 0, ids |-> {}]]
MoveTo(h, at, e, ids) ==
    call' = [call EXCEPT ![h] =
               [at |-> at, kind |-> call[h].kind, on |-> call[h].on,
                epoch |-> e, ids |-> ids]]
Done(h) == call' = [call EXCEPT ![h] = NoCall]

TypeOK ==
    /\ epoch \in [Principals -> 0..MaxEpoch]
    /\ disabled \in [Principals -> BOOLEAN]
    /\ sess \in [Sessions -> {"unused", "live", "cycled", "loggedOut"}]
    /\ sessEpoch \in [Sessions -> 0..MaxEpoch]
    /\ grant \in [Devices -> 0..MaxGrant+1]
    /\ revoked \in [Devices -> BOOLEAN]
    /\ \A d \in Devices : ~revoked[d] => grant[d] <= MaxGrant
    /\ pc \in [Sockets -> Stages]
    /\ key \in [Sockets -> Keys \cup {None}]
    /\ \A s \in Sockets : (pc[s] = "idle") <=> (key[s] = None)
    /\ entry \in [Sockets -> Entries]
    /\ \A s \in Sockets : (entry[s] = "none") <=> (pc[s] \in {"idle", "resolved"})
    /\ loggedOut \subseteq Sessions
    /\ floor \in [Principals -> 0..MaxEpoch]
    /\ dirty \in BOOLEAN
    /\ loop \in {"wait", "pass"}
    /\ todo \subseteq Sockets
    /\ stale \subseteq Sockets
    /\ call \in [Handlers -> CallSet]
    /\ \A h \in Handlers :
         call[h].kind \in {"logout", "password"} => call[h].on \in Sessions

-----------------------------------------------------------------------------
(* What a key is worth.                                                    *)

(* DeviceEpochs::still_valid.  Its two reads are one here: a key that is   *)
(* invalid stays invalid, so no mix of the two reads accepts it.           *)
Valid(k) ==
    /\ ~disabled[Owner[k.cred]]
    /\ epoch[Owner[k.cred]] = k.epoch
    /\ k.cred \in Devices => ~revoked[k.cred] /\ grant[k.cred] = k.grant

(* revoked(): does a broker-side revocation already cover the key?         *)
Covered(k) ==
    \/ k.cred \in loggedOut
    \/ k.epoch < floor[Owner[k.cred]]

(* A request with credential c resolves.                                   *)
Authenticates(c) ==
    /\ ~disabled[Owner[c]]
    /\ IF c \in Sessions
       THEN sess[c] = "live" /\ sessEpoch[c] = epoch[Owner[c]]
       ELSE ~revoked[c]

(* Entries not yet told to close.                                          *)
OpenEntries == {s \in Sockets : entry[s] = "open"}

Signal(ids, why) ==
    entry' = [s \in Sockets |->
                IF s \in ids /\ entry[s] = "open" THEN why ELSE entry[s]]

Init ==
    /\ epoch = [p \in Principals |-> 0]
    /\ disabled = [p \in Principals |-> FALSE]
    /\ sess = [s \in Sessions |-> "unused"]
    /\ sessEpoch = [s \in Sessions |-> 0]
    /\ grant = [d \in Devices |-> 0]
    /\ revoked = [d \in Devices |-> FALSE]
    /\ pc = [s \in Sockets |-> "idle"]
    /\ key = [s \in Sockets |-> None]
    /\ entry = [s \in Sockets |-> "none"]
    /\ loggedOut = {}
    /\ floor = [p \in Principals |-> 0]
    /\ dirty = FALSE
    /\ loop = "wait"
    /\ todo = {}
    /\ stale = {}
    /\ call = [h \in Handlers |-> NoCall]

-----------------------------------------------------------------------------
(* The handshake of one WebSocket, and its pump.                           *)

(* require_principal: the credential and its epochs, read before ws_proxy. *)
Resolve(s, c) ==
    /\ pc[s] = "idle"
    /\ Authenticates(c)
    /\ pc' = [pc EXCEPT ![s] = "resolved"]
    /\ key' = [key EXCEPT ![s] =
                 [cred |-> c, epoch |-> epoch[Owner[c]],
                  grant |-> IF c \in Devices THEN grant[c] ELSE 0]]
    /\ UNCHANGED <<db, entry, registry, recheck, call>>

(* Mutant: a registry that keeps no memory of past revocations.            *)
RegisterForgets(s) ==
    /\ pc[s] = "resolved"
    /\ pc' = [pc EXCEPT ![s] = "registered"]
    /\ entry' = [entry EXCEPT ![s] = "open"]
    /\ UNCHANGED <<db, key, registry, recheck, call>>

(* WsRegistry::register, under its lock: born closed if already revoked.   *)
Register(s) ==
    /\ pc[s] = "resolved"
    /\ pc' = [pc EXCEPT ![s] = "registered"]
    /\ entry' = [entry EXCEPT ![s] =
                   IF key[s].cred \in loggedOut THEN "loggedOut"
                   ELSE IF Covered(key[s]) THEN "revoked" ELSE "open"]
    /\ UNCHANGED <<db, key, registry, recheck, call>>

(* Mutant: a dropped registration stays in the registry.                   *)
ReleaseKeepsEntry(s) ==
    /\ pc' = [pc EXCEPT ![s] = "idle"]
    /\ key' = [key EXCEPT ![s] = None]
    /\ UNCHANGED <<db, entry, registry, recheck, call>>

(* The registration is dropped with its handler or pump.                   *)
Release(s) ==
    /\ pc' = [pc EXCEPT ![s] = "idle"]
    /\ key' = [key EXCEPT ![s] = None]
    /\ entry' = [entry EXCEPT ![s] = "none"]
    /\ todo' = todo \ {s}
    /\ stale' = stale \ {s}
    /\ call' = [h \in Handlers |-> [call[h] EXCEPT !.ids = @ \ {s}]]
    /\ UNCHANGED <<db, registry, dirty, loop>>

(* The one still_valid check after registering.                            *)
CheckOk(s) ==
    /\ pc[s] = "registered"
    /\ Valid(key[s])
    /\ pc' = [pc EXCEPT ![s] = "checked"]
    /\ UNCHANGED <<db, key, entry, registry, recheck, call>>

CheckRefused(s) ==
    /\ pc[s] = "registered"
    /\ ~Valid(key[s]) \/ ReadsMayFail
    /\ Release(s)

(* AccessNarrower::narrow: the caps this socket keeps for its life, which  *)
(* are the subject of SocketCaps.                                          *)
Narrow(s) ==
    /\ pc[s] = "checked"
    /\ pc' = [pc EXCEPT ![s] = "narrowed"]
    /\ UNCHANGED <<db, key, entry, registry, recheck, call>>

(* The child answered: upgrade, unless told to close meanwhile.            *)
Upgrade(s) ==
    /\ pc[s] = "narrowed"
    /\ entry[s] = "open"
    /\ pc' = [pc EXCEPT ![s] = "open"]
    /\ UNCHANGED <<db, key, entry, registry, recheck, call>>

UpgradeRefused(s) ==
    /\ pc[s] = "narrowed"
    /\ entry[s] # "open"
    /\ Release(s)

(* The pump sees the close signal.                                         *)
PumpClose(s) ==
    /\ pc[s] = "open"
    /\ entry[s] # "open"
    /\ Release(s)

(* The client or the child hung up, or the handshake was refused (caps,    *)
(* no child, client gone while it waited).                                 *)
Hangup(s) ==
    /\ pc[s] # "idle"
    /\ Release(s)

-----------------------------------------------------------------------------
(* The re-check loop.  dirty stands for data_version # last, exactly.      *)

(* Mutant: a pass looks at upgraded sockets only.                          *)
StartPassUpgraded ==
    /\ loop = "wait"
    /\ todo' = {s \in OpenEntries : pc[s] = "open"}
    /\ stale' = {}
    /\ loop' = IF todo' = {} THEN "wait" ELSE "pass"
    /\ UNCHANGED <<db, socket, registry, call>>

(* Reading the version and listing the open keys are one step: whatever    *)
(* commits between the two also sets dirty again.                          *)
StartPass ==
    /\ loop = "wait"
    /\ todo' = OpenEntries
    /\ stale' = {}
    /\ loop' = IF OpenEntries = {} THEN "wait" ELSE "pass"
    /\ UNCHANGED <<db, socket, registry, call>>

Tick == dirty /\ dirty' = FALSE /\ StartPass

(* An unreadable version re-checks, and forgets last.                      *)
TickUnreadable == dirty' = TRUE /\ StartPass

RecheckOne(s) ==
    /\ loop = "pass"
    /\ s \in todo
    /\ todo' = todo \ {s}
    /\ stale' = IF Valid(key[s]) THEN stale ELSE stale \cup {s}
    /\ UNCHANGED <<db, socket, registry, dirty, loop, call>>

(* A failed check is only logged.                                          *)
RecheckFails(s) ==
    /\ ReadsMayFail
    /\ loop = "pass"
    /\ s \in todo
    /\ todo' = todo \ {s}
    /\ UNCHANGED <<db, socket, registry, dirty, loop, stale, call>>

(* Mutant: last is read after the pass instead of before it.               *)
RecheckCloseReadsLast ==
    /\ loop = "pass"
    /\ todo = {}
    /\ Signal(stale, "revoked")
    /\ stale' = {}
    /\ loop' = "wait"
    /\ dirty' = FALSE
    /\ UNCHANGED <<db, pc, key, registry, todo, call>>

RecheckClose ==
    /\ loop = "pass"
    /\ todo = {}
    /\ Signal(stale, "revoked")
    /\ stale' = {}
    /\ loop' = "wait"
    /\ UNCHANGED <<db, pc, key, registry, dirty, todo, call>>

-----------------------------------------------------------------------------
(* Broker-side changes: a commit, then the close that goes with it.        *)

Idle(h) == call[h].at = "idle"

(* A handler whose commit is done; its close has still to run.             *)
Committed(h, kind) == call[h].at = "committed" /\ call[h].kind = kind

(* A fresh login, over the session old of the same browser if it has one:  *)
(* cycle_id deletes old's row, whose sockets stay registered.              *)
Login(new, old) ==
    /\ sess[new] = "unused"
    /\ ~disabled[Owner[new]]
    /\ old = None \/ (old \in Sessions /\ sess[old] = "live")
    /\ sess' = [t \in Sessions |-> IF t = new THEN "live"
                                   ELSE IF t = old THEN "cycled" ELSE sess[t]]
    /\ sessEpoch' = [sessEpoch EXCEPT ![new] = epoch[Owner[new]]]
    /\ UNCHANGED <<epoch, disabled, grant, revoked, socket, registry,
                   recheck, call>>

(* POST /auth/logout or /auth/password, authenticated by session t.        *)
Begin(h, kind, t) ==
    /\ Idle(h)
    /\ Authenticates(t)
    /\ Start(h, "begun", kind, t)
    /\ UNCHANGED <<db, socket, registry, recheck>>

(* auth.logout(): the row is deleted, in sessions.db: the loop, which      *)
(* watches accounts.db, does not see it.                                   *)
LogoutDelete(h) ==
    /\ call[h].at = "begun" /\ call[h].kind = "logout"
    /\ sess' = [sess EXCEPT ![call[h].on] = "loggedOut"]
    /\ MoveTo(h, "committed", 0, {})
    /\ UNCHANGED <<epoch, disabled, sessEpoch, grant, revoked, socket,
                   registry, recheck>>

(* close_session: forget tombstones older than LOGGED_OUT_TTL, add this    *)
(* one and close what it covers, under one lock.  A handshake is assumed   *)
(* to reach register within LOGGED_OUT_TTL of its resolution (no I/O lies  *)
(* between), so a tombstone it still needs is never old enough.            *)
LogoutClose(h) ==
    /\ Committed(h, "logout")
    /\ \E expired \in SUBSET {t \in loggedOut :
                        \A s \in Sockets : pc[s] = "resolved" => key[s].cred # t} :
         loggedOut' = (loggedOut \ expired) \cup {call[h].on}
    /\ Signal({s \in OpenEntries : key[s].cred \in loggedOut'
                                   \/ key[s].epoch < floor[Owner[key[s].cred]]},
              "loggedOut")
    /\ Done(h)
    /\ UNCHANGED <<db, pc, key, floor, recheck>>

(* set_password_in, after the current password was verified.               *)
PasswordCommit(h) ==
    LET p == Owner[call[h].on] IN
    /\ call[h].at = "begun" /\ call[h].kind = "password"
    /\ epoch[p] < MaxEpoch
    /\ epoch' = [epoch EXCEPT ![p] = @ + 1]
    /\ MoveTo(h, "committed", epoch[p] + 1, {})
    /\ dirty' = TRUE
    /\ UNCHANGED <<disabled, sess, sessEpoch, grant, revoked, socket,
                   registry, loop, todo, stale>>

(* close_stale_epoch: raise the floor and close what it covers, one lock.  *)
PasswordClose(h) ==
    LET p == Owner[call[h].on] IN
    /\ Committed(h, "password")
    /\ floor' = [floor EXCEPT ![p] = IF @ < call[h].epoch THEN call[h].epoch ELSE @]
    /\ Signal({s \in OpenEntries : key[s].cred \in loggedOut
                                   \/ key[s].epoch < floor'[Owner[key[s].cred]]},
              "revoked")
    /\ MoveTo(h, "relogin", call[h].epoch, {})
    /\ UNCHANGED <<db, pc, key, loggedOut, recheck>>

(* cycle_id and auth.login: the caller stays signed in on a new id.        *)
PasswordRelogin(h, new) ==
    LET old == call[h].on IN
    /\ call[h].at = "relogin"
    /\ sess[new] = "unused"
    /\ Owner[new] = Owner[old]
    /\ sess' = [sess EXCEPT ![new] = "live",
                            ![old] = IF @ = "live" THEN "cycled" ELSE @]
    /\ sessEpoch' = [sessEpoch EXCEPT ![new] = call[h].epoch]
    /\ Done(h)
    /\ UNCHANGED <<epoch, disabled, grant, revoked, socket, registry,
                   recheck>>

(* The handler ends early: refused before its commit, failed after its     *)
(* close, or -- when HandlersMayDrop -- dropped by the HTTP server at its  *)
(* commit, because the client went away: its close never runs.             *)
EndEarly(h) ==
    /\ \/ call[h].at \in {"begun", "relogin"}
       \/ HandlersMayDrop /\ call[h].at = "committed"
    /\ Done(h)
    /\ UNCHANGED <<db, socket, registry, recheck>>

Commit(h, kind, on) ==
    /\ Idle(h)
    /\ Start(h, "committed", kind, on)
    /\ dirty' = TRUE

(* mark_revoked_row: a tombstone; the grant epoch moves.                   *)
MarkRevoked(ds) ==
    /\ revoked' = [d \in Devices |-> revoked[d] \/ d \in ds]
    /\ grant' = [d \in Devices |-> IF d \in ds /\ ~revoked[d] THEN grant[d] + 1 ELSE grant[d]]

(* access_device_revoke.                                                   *)
DeviceRevoke(h, d) ==
    /\ ~revoked[d]
    /\ MarkRevoked({d})
    /\ Commit(h, "revoke", d)
    /\ UNCHANGED <<epoch, disabled, sess, sessEpoch, socket, registry,
                   loop, todo, stale>>

(* access_device_set_tier, to another tier.                                *)
DeviceSetTier(h, d) ==
    /\ ~revoked[d]
    /\ grant[d] < MaxGrant
    /\ grant' = [grant EXCEPT ![d] = @ + 1]
    /\ Commit(h, "tier", d)
    /\ UNCHANGED <<epoch, disabled, sess, sessEpoch, revoked, socket,
                   registry, loop, todo, stale>>

(* What SocketCaps details: a change of a member's role, a membership that *)
(* ends and a project's policy close the sockets of an account, and a      *)
(* routing preference those of a device.  No credential changes.  (A       *)
(* membership restored or accepted closes nothing: an UnrelatedCommit.)    *)
CapsChange(h, x) ==
    /\ Commit(h, "policy", x)
    /\ UNCHANGED <<epoch, disabled, sess, sessEpoch, grant, revoked, socket,
                   registry, loop, todo, stale>>

(* close_where takes the lock twice.  keys(): the ids the predicate hits.   *)
Scan(h) ==
    /\ \E kind \in {"revoke", "tier", "policy"} : Committed(h, kind)
    /\ MoveTo(h, "scanned", 0,
              {s \in OpenEntries : call[h].on \in {key[s].cred, Owner[key[s].cred]}})
    /\ UNCHANGED <<db, socket, registry, recheck>>

(* Mutant: every close says the credential was revoked.                    *)
ApplyRevoked(h) ==
    /\ call[h].at = "scanned"
    /\ Signal(call[h].ids, "revoked")
    /\ Done(h)
    /\ UNCHANGED <<db, pc, key, registry, recheck>>

(* close_ids(): signal those of them still open.                           *)
Apply(h) ==
    /\ call[h].at = "scanned"
    /\ Signal(call[h].ids, IF call[h].kind = "revoke" THEN "revoked" ELSE "caps")
    /\ Done(h)
    /\ UNCHANGED <<db, pc, key, registry, recheck>>

-----------------------------------------------------------------------------
(* Commits with no close of their own: the root CLI's, and idle expiry.    *)

Elsewhere ==
    /\ dirty' = TRUE
    /\ UNCHANGED <<sess, sessEpoch, socket, registry, loop, todo, stale, call>>

CliPasswd(p) ==
    /\ epoch[p] < MaxEpoch
    /\ epoch' = [epoch EXCEPT ![p] = @ + 1]
    /\ UNCHANGED <<disabled, grant, revoked>>
    /\ Elsewhere

(* accounts revoke-sessions, with every device grant in the transaction.   *)
CliRevokeSessions(p) ==
    /\ epoch[p] < MaxEpoch
    /\ epoch' = [epoch EXCEPT ![p] = @ + 1]
    /\ MarkRevoked({d \in Devices : Owner[d] = p})
    /\ UNCHANGED disabled
    /\ Elsewhere

CliDisable(p) ==
    /\ epoch[p] < MaxEpoch
    /\ epoch' = [epoch EXCEPT ![p] = @ + 1]
    /\ disabled' = [disabled EXCEPT ![p] = TRUE]
    /\ UNCHANGED <<grant, revoked>>
    /\ Elsewhere

CliEnable(p) ==
    /\ disabled[p]
    /\ disabled' = [disabled EXCEPT ![p] = FALSE]
    /\ UNCHANGED <<epoch, grant, revoked>>
    /\ Elsewhere

(* resolve() found the device idle for too long.                           *)
DeviceExpire(d) ==
    /\ ~revoked[d]
    /\ MarkRevoked({d})
    /\ UNCHANGED <<epoch, disabled>>
    /\ Elsewhere

(* Any other write to accounts.db: an auth event, last_seen_at, an invite, *)
(* a routing preference.                                                   *)
UnrelatedCommit == UNCHANGED <<epoch, disabled, grant, revoked>> /\ Elsewhere

-----------------------------------------------------------------------------
Socket(s) ==
    \/ \E c \in Creds : Resolve(s, c)
    \/ Register(s)
    \/ CheckOk(s)
    \/ CheckRefused(s)
    \/ Narrow(s)
    \/ Upgrade(s)
    \/ UpgradeRefused(s)
    \/ PumpClose(s)
    \/ Hangup(s)

Recheck ==
    \/ Tick
    \/ TickUnreadable
    \/ \E s \in Sockets : RecheckOne(s)
    \/ \E s \in Sockets : RecheckFails(s)
    \/ RecheckClose

Handler(h) ==
    \/ \E t \in Sessions : Begin(h, "logout", t) \/ Begin(h, "password", t)
    \/ LogoutDelete(h)
    \/ LogoutClose(h)
    \/ PasswordCommit(h)
    \/ PasswordClose(h)
    \/ \E new \in Sessions : PasswordRelogin(h, new)
    \/ EndEarly(h)
    \/ \E d \in Devices : DeviceRevoke(h, d) \/ DeviceSetTier(h, d)
    \/ \E x \in Devices \cup Principals : CapsChange(h, x)
    \/ Scan(h)
    \/ Apply(h)

Database ==
    \/ \E new \in Sessions, old \in Sessions \cup {None} : Login(new, old)
    \/ \E p \in Principals : CliPasswd(p) \/ CliRevokeSessions(p)
                             \/ CliDisable(p) \/ CliEnable(p)
    \/ \E d \in Devices : DeviceExpire(d)
    \/ UnrelatedCommit

Next ==
    \/ \E s \in Sockets : Socket(s)
    \/ Recheck
    \/ \E h \in Handlers : Handler(h)
    \/ Database

Spec == Init /\ [][Next]_vars

(* The loop runs on a timer, a handshake's awaits are bounded by timeouts  *)
(* and the pump polls its close signal; no request ever has to arrive.     *)
Fairness ==
    /\ WF_vars(Tick)
    /\ WF_vars(\E s \in Sockets : RecheckOne(s))
    /\ WF_vars(RecheckClose)
    /\ \A s \in Sockets :
         /\ WF_vars(Register(s))
         /\ WF_vars(CheckOk(s) \/ CheckRefused(s))
         /\ WF_vars(Narrow(s))
         /\ WF_vars(Upgrade(s) \/ UpgradeRefused(s))
         /\ WF_vars(PumpClose(s))
    /\ \A h \in Handlers : WF_vars(LogoutClose(h) \/ PasswordClose(h) \/ Scan(h) \/ Apply(h))

FairSpec == Spec /\ Fairness

-----------------------------------------------------------------------------
(* Properties.                                                             *)

(* I-8 for writes made anywhere: a socket past its handshake check whose   *)
(* credential is no longer valid is one the re-check loop still has to     *)
(* look at or is about to close -- no commit, however it interleaves with  *)
(* a handshake and a pass, slips between the check and the loop.           *)
RevokedIsChased ==
    \A s \in Sockets :
        /\ pc[s] \in {"checked", "narrowed", "open"}
        /\ entry[s] = "open"
        /\ ~Valid(key[s])
        => dirty \/ s \in todo \/ s \in stale

(* I-8 for broker-side changes: once close_session or close_stale_epoch    *)
(* has run, no open entry is one it covers, the late registrations of      *)
(* handshakes that resolved earlier included.                              *)
NoneSurvivesItsRevocation ==
    \A s \in Sockets : entry[s] = "open" => ~Covered(key[s])

(* Nobody is told "credential revoked" whose key still holds: neither a    *)
(* late close with an old epoch nor a pass that read before a close.       *)
RevokedMeansInvalid ==
    \A s \in Sockets : entry[s] = "revoked" => ~Valid(key[s])

(* The session of an open socket was not logged out, except while the      *)
(* logout is between its delete and its close.                             *)
LogoutReachesItsSockets ==
    \A s \in Sockets :
        /\ entry[s] = "open"
        /\ key[s].cred \in Sessions
        /\ sess[key[s].cred] = "loggedOut"
        => \E h \in Handlers : Committed(h, "logout") /\ call[h].on = key[s].cred

(* ws-close.ts, devices.rs: a tier change closes the device's sockets with *)
(* 4403; 4401 says the credential is dead, and the client asks for a new   *)
(* one.  So a device's socket closed with 4401 is never one of a device    *)
(* whose grant and account still stand.                                    *)
RevokedMeansDead ==
    \A s \in Sockets :
        entry[s] = "revoked" /\ key[s].cred \in Devices
        => \/ revoked[key[s].cred]
           \/ disabled[Owner[key[s].cred]]
           \/ epoch[Owner[key[s].cred]] # key[s].epoch

(* I-8, the promise itself: a socket whose credential stopped being valid  *)
(* is closed.                                                              *)
RevokedSocketCloses ==
    \A s \in Sockets :
        (pc[s] # "idle" /\ ~Valid(key[s])) ~> (pc[s] = "idle")
=============================================================================
