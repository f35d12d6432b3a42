----------------------------- MODULE SocketCaps -----------------------------
(***************************************************************************)
(* What an open WebSocket may do.  The broker computes a socket's caps     *)
(* once, in its handshake (T1Access::access_ctx), from four things read at *)
(* three moments: the device's tier, with the request; the membership its  *)
(* share selects and that project's policy; and the routing preference of  *)
(* the account.  The frame hook judges every frame by that snapshot.  What *)
(* changes one of the four commits first and closes the sockets after.     *)
(*                                                                         *)
(* Principals are members of one Owner's project, each with one membership *)
(* of it.  Whether a credential holds at all is BrokerSockets' subject; of *)
(* it, this module keeps that a device may go.                             *)
(***************************************************************************)
EXTENDS Integers

CONSTANTS
    Principals,       \* accounts
    Sessions,         \* password sessions
    Devices,          \* paired devices
    Owner,            \* whose credential a session or device is
    Sockets,          \* slots for concurrently handled WebSockets
    Handlers,         \* slots for concurrently running access_* calls
    Sweeper,          \* the task that sweeps expired memberships
    None,             \* no credential / routing to any device
    MaxTier,          \* bound on tier changes of one device
    MaxPolicy         \* bound on changes of one member's role and policy

Creds   == Sessions \cup Devices
Callers == Handlers \cup {Sweeper}

ASSUME CredsAssumption ==
    /\ Sessions \cap Devices = {}
    /\ Creds \cap Principals = {}
    /\ Owner \in [Creds -> Principals]
ASSUME NoneAssumption == None \notin Creds
ASSUME SweeperAssumption == Sweeper \notin Handlers
ASSUME BoundsAssumption == MaxTier \in Nat /\ MaxPolicy \in Nat

VARIABLES
    \* accounts.db
    member,          \* project_members: removed, active, or past expires_at
    policy,          \* version of each member's role, scope and policy row
    tier, approver,  \* devices: version of the tier, and does it approve?
    gone,            \* devices: revoked_at
    routing,         \* routing_prefs: the one device that may answer
    \* one WebSocket: its handler's progress, its credential, the tier its
    \* request was resolved with, its snapshot, and its registry entry
    pc, cred, seen, snap, entry,
    \* the access_* handlers and the sweeper: after their commit
    call,
    \* history: the sockets a close that was lost would have reached
    lost

db     == <<member, policy, tier, approver, gone, routing>>
socket == <<pc, cred, seen, snap, entry>>
vars   == <<db, socket, call, lost>>

Stages  == {"idle", "resolved", "registered", "checked", "selected", "narrowed", "open"}
Tiers   == [tier : 0..MaxTier, approver : BOOLEAN]
Snaps   == [share : BOOLEAN, policy : 0..MaxPolicy, approve : BOOLEAN]
CallSet == [at   : {"idle", "matrix", "closing", "scanned"},
            left : SUBSET (Creds \cup Principals),
            ids  : SUBSET Sockets]
NoTier  == [tier |-> 0, approver |-> FALSE]
NoSnap  == [share |-> FALSE, policy |-> 0, approve |-> FALSE]
NoCall  == [at |-> "idle", left |-> {}, ids |-> {}]

TypeOK ==
    /\ member \in [Principals -> {"out", "in", "due"}]
    /\ policy \in [Principals -> 0..MaxPolicy]
    /\ tier \in [Devices -> 0..MaxTier]
    /\ approver \in [Devices -> BOOLEAN]
    /\ gone \in [Devices -> BOOLEAN]
    /\ routing \in [Principals -> Devices \cup {None}]
    /\ pc \in [Sockets -> Stages]
    /\ cred \in [Sockets -> Creds \cup {None}]
    /\ \A s \in Sockets : (pc[s] = "idle") <=> (cred[s] = None)
    /\ seen \in [Sockets -> Tiers]
    /\ snap \in [Sockets -> Snaps]
    /\ entry \in [Sockets -> {"none", "open", "closed"}]
    /\ \A s \in Sockets : (entry[s] = "none") <=> (pc[s] \in {"idle", "resolved"})
    /\ call \in [Callers -> CallSet]
    /\ lost \subseteq Sockets

Init ==
    /\ member = [p \in Principals |-> "out"]
    /\ policy = [p \in Principals |-> 0]
    /\ tier = [d \in Devices |-> 0]
    /\ approver \in [Devices -> BOOLEAN]
    /\ gone = [d \in Devices |-> FALSE]
    /\ routing = [p \in Principals |-> None]
    /\ pc = [s \in Sockets |-> "idle"]
    /\ cred = [s \in Sockets |-> None]
    /\ seen = [s \in Sockets |-> NoTier]
    /\ snap = [s \in Sockets |-> NoSnap]
    /\ entry = [s \in Sockets |-> "none"]
    /\ call = [h \in Callers |-> NoCall]
    /\ lost = {}

-----------------------------------------------------------------------------
(* The handshake of one WebSocket.                                         *)

(* Pref::admits: may c answer the asks of p?                               *)
Admits(p, c) == routing[p] = None \/ routing[p] = c

(* tier_of: the row the request was resolved with; a session is full.      *)
Resolve(s, c) ==
    /\ pc[s] = "idle"
    /\ c \in Devices => ~gone[c]
    /\ pc' = [pc EXCEPT ![s] = "resolved"]
    /\ cred' = [cred EXCEPT ![s] = c]
    /\ seen' = [seen EXCEPT ![s] =
                  IF c \in Devices THEN [tier |-> tier[c], approver |-> approver[c]]
                  ELSE [tier |-> 0, approver |-> TRUE]]
    /\ UNCHANGED <<db, snap, entry, call, lost>>

Register(s) ==
    /\ pc[s] = "resolved"
    /\ pc' = [pc EXCEPT ![s] = "registered"]
    /\ entry' = [entry EXCEPT ![s] = "open"]
    /\ UNCHANGED <<db, cred, seen, snap, call, lost>>

(* still_valid: a tier change moves grant_epoch, which the key holds.      *)
Current(s) == cred[s] \in Devices => ~gone[cred[s]] /\ tier[cred[s]] = seen[s].tier

CheckOk(s) ==
    /\ pc[s] = "registered"
    /\ Current(s)
    /\ pc' = [pc EXCEPT ![s] = "checked"]
    /\ UNCHANGED <<db, cred, seen, snap, entry, call, lost>>

(* broker_select: the membership of the share it names, if it names one.   *)
Select(s, share) ==
    LET p == Owner[cred[s]] IN
    /\ pc[s] = "checked"
    /\ share => member[p] = "in"
    /\ pc' = [pc EXCEPT ![s] = "selected"]
    /\ snap' = [snap EXCEPT ![s] = [share |-> share, policy |-> policy[p], approve |-> FALSE]]
    /\ UNCHANGED <<db, cred, seen, entry, call, lost>>

(* routing_ok, read last: do tier and routing leave this socket approve?   *)
Route(s) ==
    /\ pc[s] = "selected"
    /\ pc' = [pc EXCEPT ![s] = "narrowed"]
    /\ snap' = [snap EXCEPT ![s].approve =
                  seen[s].approver /\ Admits(Owner[cred[s]], cred[s])]
    /\ UNCHANGED <<db, cred, seen, entry, call, lost>>

Upgrade(s) ==
    /\ pc[s] = "narrowed"
    /\ entry[s] = "open"
    /\ pc' = [pc EXCEPT ![s] = "open"]
    /\ UNCHANGED <<db, cred, seen, snap, entry, call, lost>>

(* Mutant: a dropped registration stays in the registry.                   *)
LeaveKeepsEntry(s) ==
    /\ pc[s] # "idle"
    /\ pc' = [pc EXCEPT ![s] = "idle"]
    /\ cred' = [cred EXCEPT ![s] = None]
    /\ UNCHANGED <<db, seen, snap, entry, call, lost>>

(* Refused, told to close, or either side hung up: the registration goes   *)
(* with its handler or pump.  Its id is never used again, so it leaves the *)
(* id lists still held too.                                                *)
Leave(s) ==
    /\ pc[s] # "idle"
    /\ pc' = [pc EXCEPT ![s] = "idle"]
    /\ cred' = [cred EXCEPT ![s] = None]
    /\ seen' = [seen EXCEPT ![s] = NoTier]
    /\ snap' = [snap EXCEPT ![s] = NoSnap]
    /\ entry' = [entry EXCEPT ![s] = "none"]
    /\ call' = [h \in Callers |-> [call[h] EXCEPT !.ids = @ \ {s}]]
    /\ lost' = lost \ {s}
    /\ UNCHANGED db

(* The re-check loop closes a socket whose key no longer holds.            *)
Rechecked(s) ==
    /\ entry[s] = "open"
    /\ ~Current(s)
    /\ entry' = [entry EXCEPT ![s] = "closed"]
    /\ UNCHANGED <<db, pc, cred, seen, snap, call, lost>>

-----------------------------------------------------------------------------
(* Changes: a commit, then the closes that go with it.                     *)

Becomes(h, at, left, ids) == call' = [call EXCEPT ![h] = [at |-> at, left |-> left, ids |-> ids]]

(* Whose sockets are still to be closed: with none left, h is done.        *)
Close(h, left) == Becomes(h, IF left = {} THEN "idle" ELSE "closing", left, {})

Idle(h) == call[h].at = "idle"

(* A new row of p's policy: one that no earlier snapshot was taken from.   *)
NewPolicy(ps) ==
    /\ \A p \in ps : policy[p] < MaxPolicy
    /\ policy' = [p \in Principals |-> IF p \in ps THEN policy[p] + 1 ELSE policy[p]]

(* access_member_set_role, which may give a new expiry or keep the old.    *)
SetRole(h, p) ==
    /\ Idle(h)
    /\ member[p] # "out"
    /\ NewPolicy({p})
    /\ \E m \in {"in", member[p]} : member' = [member EXCEPT ![p] = m]
    /\ Close(h, {p})
    /\ UNCHANGED <<tier, approver, gone, routing, socket, lost>>

(* access_member_remove.                                                   *)
Remove(h, p) ==
    /\ Idle(h)
    /\ member[p] # "out"
    /\ member' = [member EXCEPT ![p] = "out"]
    /\ Close(h, {p})
    /\ UNCHANGED <<policy, tier, approver, gone, routing, socket, lost>>

(* access_member_restore: the membership as it was.  It closes nothing.    *)
Restore(p) ==
    /\ member[p] = "out"
    /\ member' = [member EXCEPT ![p] = "in"]
    /\ UNCHANGED <<policy, tier, approver, gone, routing, socket, call, lost>>

(* accept, of an invite: another membership.  It closes nothing either.    *)
Join(p) == NewPolicy({p}) /\ member[p] = "out" /\ member' = [member EXCEPT ![p] = "in"]
           /\ UNCHANGED <<tier, approver, gone, routing, socket, call, lost>>

(* expires_at passes: nobody is told.                                      *)
Lapse(p) ==
    /\ member[p] = "in"
    /\ member' = [member EXCEPT ![p] = "due"]
    /\ UNCHANGED <<policy, tier, approver, gone, routing, socket, call, lost>>

(* sweep_expired, in a task of the broker's own.                           *)
SweepExpired ==
    LET due == {p \in Principals : member[p] = "due"} IN
    /\ Idle(Sweeper)
    /\ due # {}
    /\ member' = [p \in Principals |-> IF p \in due THEN "out" ELSE member[p]]
    /\ Close(Sweeper, due)
    /\ UNCHANGED <<policy, tier, approver, gone, routing, socket, lost>>

(* access_policy_set: a cell of the matrix, or the owner's approval.       *)
MatrixChange(h) ==
    /\ Idle(h)
    /\ NewPolicy(Principals)
    /\ Becomes(h, "matrix", {}, {})
    /\ UNCHANGED <<member, tier, approver, gone, routing, socket, lost>>

(* close_members lists the members once the change is committed.           *)
Active == {p \in Principals : member[p] # "out"}

ReadMembers(h) ==
    /\ call[h].at = "matrix"
    /\ Close(h, Active)
    /\ UNCHANGED <<db, socket, lost>>

(* access_routing_set: the devices that could approve before are closed.   *)
RoutingSet(h, p, to) ==
    /\ Idle(h)
    /\ to # routing[p]
    /\ to = None \/ (to \in Devices /\ Owner[to] = p /\ ~gone[to] /\ approver[to])
    /\ routing' = [routing EXCEPT ![p] = to]
    /\ Close(h, {d \in Devices : /\ Owner[d] = p /\ ~gone[d] /\ approver[d]
                                 /\ Admits(p, d)})
    /\ UNCHANGED <<member, policy, tier, approver, gone, socket, lost>>

(* access_device_set_tier: grant_epoch moves with it.                      *)
DeviceSetTier(h, d, approves) ==
    /\ Idle(h)
    /\ ~gone[d]
    /\ tier[d] < MaxTier
    /\ tier' = [tier EXCEPT ![d] = @ + 1]
    /\ approver' = [approver EXCEPT ![d] = approves]
    /\ Close(h, {d})
    /\ UNCHANGED <<member, policy, gone, routing, socket, lost>>

(* A device is revoked: BrokerSockets closes what it has open.             *)
DeviceGone(d) ==
    /\ ~gone[d]
    /\ gone' = [gone EXCEPT ![d] = TRUE]
    /\ UNCHANGED <<member, policy, tier, approver, routing, socket, call, lost>>

(* Mutant: only sockets that finished their handshake are closed.          *)
ScanUpgraded(h) ==
    /\ call[h].at = "closing"
    /\ \E x \in call[h].left :
         Becomes(h, "scanned", call[h].left \ {x},
                 {s \in Sockets : pc[s] = "open" /\ entry[s] = "open"
                                  /\ x \in {cred[s], Owner[cred[s]]}})
    /\ UNCHANGED <<db, socket, lost>>

(* close_where takes the lock twice.  keys(): the ids the predicate hits.  *)
Scan(h) ==
    /\ call[h].at = "closing"
    /\ \E x \in call[h].left :
         Becomes(h, "scanned", call[h].left \ {x},
                 {s \in Sockets : entry[s] = "open" /\ x \in {cred[s], Owner[cred[s]]}})
    /\ UNCHANGED <<db, socket, lost>>

(* close_ids(): signal those of them still open; on to the next subject.   *)
Apply(h) ==
    /\ call[h].at = "scanned"
    /\ entry' = [s \in Sockets |->
                   IF s \in call[h].ids /\ entry[s] = "open" THEN "closed" ELSE entry[s]]
    /\ Close(h, call[h].left)
    /\ UNCHANGED <<db, pc, cred, seen, snap, lost>>

(* A handler's closes are lost: the HTTP server drops it at an await after *)
(* its commit because the client went away, or the read of the members     *)
(* fails, which is logged and closes nobody.  (Between two closes there is *)
(* no await; the model allows a loss there too.)                           *)
Lose(h) ==
    /\ call[h].at \in {"matrix", "closing"}
    /\ lost' = lost \cup
         {s \in Sockets : entry[s] = "open"
              /\ {cred[s], Owner[cred[s]]} \cap
                   (IF call[h].at = "matrix" THEN Active ELSE call[h].left) # {}}
    /\ Close(h, {})
    /\ UNCHANGED <<db, socket>>

-----------------------------------------------------------------------------
Socket(s) ==
    \/ \E c \in Creds : Resolve(s, c)
    \/ Register(s)
    \/ CheckOk(s)
    \/ \E share \in BOOLEAN : Select(s, share)
    \/ Route(s)
    \/ Upgrade(s)
    \/ Leave(s)
    \/ Rechecked(s)

Handler(h) ==
    \/ \E p \in Principals :
         \/ SetRole(h, p)
         \/ Remove(h, p)
         \/ \E to \in Devices \cup {None} : RoutingSet(h, p, to)
    \/ MatrixChange(h)
    \/ ReadMembers(h)
    \/ \E d \in Devices, approves \in BOOLEAN : DeviceSetTier(h, d, approves)
    \/ Lose(h)

Uncalled ==
    \/ \E p \in Principals : Restore(p) \/ Join(p) \/ Lapse(p)
    \/ \E d \in Devices : DeviceGone(d)
    \/ SweepExpired

Next ==
    \/ \E s \in Sockets : Socket(s)
    \/ \E h \in Handlers : Handler(h)
    \/ \E h \in Callers : Scan(h) \/ Apply(h)
    \/ Uncalled

Spec == Init /\ [][Next]_vars

-----------------------------------------------------------------------------
(* Properties.                                                             *)

(* A close of what x holds is on its way and reaches socket s, or it would *)
(* have and was lost.                                                      *)
Pending(s, x) ==
    \/ s \in lost
    \/ \E h \in Callers :
         \/ x \in call[h].left
         \/ call[h].at = "scanned" /\ s \in call[h].ids

Narrowed(s) == pc[s] \in {"narrowed", "open"} /\ entry[s] = "open"

(* A socket that works in a shared project does so under its member's role *)
(* and policy of now, unless that membership has just run out and is not   *)
(* swept yet: a change closes it, restored and renewed memberships and a   *)
(* change of the matrix while the member was away included.                *)
ShareIsFresh(s) ==
    LET p == Owner[cred[s]] IN
    snap[s].share /\ (member[p] = "out" \/ snap[s].policy # policy[p])
    => \/ Pending(s, p)
       \/ member[p] # "out" /\ \E h \in Handlers : call[h].at = "matrix"

(* A device's socket has the caps of its device's tier of now.             *)
TierIsFresh(s) ==
    cred[s] \in Devices /\ ~gone[cred[s]] /\ seen[s].tier # tier[cred[s]]
    => Pending(s, cred[s])

(* A device's socket that may approve is one the account routes asks to.   *)
RoutingIsFresh(s) ==
    /\ cred[s] \in Devices /\ ~gone[cred[s]]
    /\ snap[s].approve /\ ~Admits(Owner[cred[s]], cred[s])
    => Pending(s, cred[s])

(* DeviceFrames: "A change to tier, routing or membership closes the       *)
(* socket (4403), so the snapshot is never stale", as far as the code      *)
(* keeps it: a socket judged by a snapshot that no longer holds has its    *)
(* close on the way, whenever in its handshake the change committed; it    *)
(* stays so only when that very close was lost.                            *)
SnapshotIsFresh ==
    \A s \in Sockets : Narrowed(s) => ShareIsFresh(s) /\ TierIsFresh(s) /\ RoutingIsFresh(s)

(* The same sentence, of routing and of every socket.                      *)
RoutingNeverStale ==
    \A s \in Sockets :
        Narrowed(s) /\ snap[s].approve /\ ~Admits(Owner[cred[s]], cred[s])
        => \/ Pending(s, cred[s])
           \/ cred[s] \in Devices /\ gone[cred[s]]
=============================================================================
