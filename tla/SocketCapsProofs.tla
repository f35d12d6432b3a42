-------------------------- MODULE SocketCapsProofs --------------------------
(* Proofs about the caps of the broker's sockets, for every number of      *)
(* accounts, credentials, sockets and handlers.                            *)
EXTENDS SocketCaps, TLAPS

USE DEF Creds, Callers

LEMMA OwnerType == \A c \in Creds : Owner[c] \in Principals
  BY CredsAssumption

(* Replacing one caller's record keeps the callers well typed.             *)
LEMMA BecomesType ==
  ASSUME call \in [Callers -> CallSet], NEW h \in Callers,
         NEW at \in {"idle", "matrix", "closing", "scanned"},
         NEW left, left \subseteq Creds \cup Principals, NEW ids, ids \subseteq Sockets,
         Becomes(h, at, left, ids)
  PROVE  /\ call' \in [Callers -> CallSet]
         /\ call'[h] = [at |-> at, left |-> left, ids |-> ids]
         /\ \A g \in Callers : g # h => call'[g] = call[g]
  BY DEF Becomes, CallSet

LEMMA CloseType ==
  ASSUME call \in [Callers -> CallSet], NEW h \in Callers,
         NEW left, left \subseteq Creds \cup Principals, Close(h, left)
  PROVE  /\ call' \in [Callers -> CallSet]
         /\ call'[h].left = left
         /\ call'[h].at = IF left = {} THEN "idle" ELSE "closing"
         /\ \A g \in Callers : g # h => call'[g] = call[g]
<1> DEFINE at == IF left = {} THEN "idle" ELSE "closing"
<1>1. at \in {"idle", "matrix", "closing", "scanned"} /\ {} \subseteq Sockets
  OBVIOUS
<1>2. Becomes(h, at, left, {})
  BY DEF Close
<1> HIDE DEF at
<1>3. /\ call' \in [Callers -> CallSet]
      /\ call'[h] = [at |-> at, left |-> left, ids |-> {}]
      /\ \A g \in Callers : g # h => call'[g] = call[g]
  BY <1>1, <1>2, BecomesType
<1> QED
  BY <1>3 DEF at

(* Every step of a socket's handler or pump.                               *)
LEMMA SocketType ==
  ASSUME TypeOK, NEW s \in Sockets, Socket(s)
  PROVE  TypeOK'
<1>1. ASSUME NEW c \in Creds, Resolve(s, c) PROVE TypeOK'
  <2>1. (IF c \in Devices THEN [tier |-> tier[c], approver |-> approver[c]]
         ELSE [tier |-> 0, approver |-> TRUE]) \in Tiers
    BY BoundsAssumption DEF TypeOK, Tiers
  <2> QED
    BY <1>1, <2>1, NoneAssumption DEF Resolve, TypeOK, Stages, db
<1>2. CASE Register(s)
  BY <1>2 DEF Register, TypeOK, Stages, db
<1>3. CASE CheckOk(s)
  BY <1>3 DEF CheckOk, TypeOK, Stages, db
<1>4. ASSUME NEW share \in BOOLEAN, Select(s, share) PROVE TypeOK'
  <2>1. Owner[cred[s]] \in Principals
    BY <1>4, OwnerType DEF Select, TypeOK
  <2>2. [share |-> share, policy |-> policy[Owner[cred[s]]], approve |-> FALSE] \in Snaps
    BY <2>1 DEF TypeOK, Snaps
  <2> QED
    BY <1>4, <2>2 DEF Select, TypeOK, Stages, db
<1>5. CASE Route(s)
  <2>1. ASSUME NEW c \in Snaps, NEW b \in BOOLEAN
        PROVE  [c EXCEPT !.approve = b] \in Snaps
    BY DEF Snaps
  <2>2. (seen[s].approver /\ Admits(Owner[cred[s]], cred[s])) \in BOOLEAN
    BY DEF Admits
  <2>3. snap' \in [Sockets -> Snaps]
    <3> DEFINE b == seen[s].approver /\ Admits(Owner[cred[s]], cred[s])
    <3>1. snap' = [snap EXCEPT ![s] = [snap[s] EXCEPT !.approve = b]]
      BY <1>5 DEF Route
    <3>2. b \in BOOLEAN
      BY <2>2
    <3> HIDE DEF b
    <3>3. [snap[s] EXCEPT !.approve = b] \in Snaps
      BY <2>1, <3>2 DEF TypeOK
    <3> QED
      BY <3>1, <3>3 DEF TypeOK
  <2> QED
    BY <1>5, <2>3 DEF Route, TypeOK, Stages, db
<1>6. CASE Upgrade(s)
  BY <1>6 DEF Upgrade, TypeOK, Stages, db
<1>7. CASE Leave(s)
  <2>1. call' \in [Callers -> CallSet]
    BY <1>7 DEF Leave, TypeOK, CallSet
  <2>2. NoTier \in Tiers /\ NoSnap \in Snaps
    BY BoundsAssumption DEF NoTier, Tiers, NoSnap, Snaps
  <2> QED
    BY <1>7, <2>1, <2>2 DEF Leave, TypeOK, Stages, db
<1>8. CASE Rechecked(s)
  BY <1>8 DEF Rechecked, TypeOK, db
<1> QED
  BY <1>1, <1>2, <1>3, <1>4, <1>5, <1>6, <1>7, <1>8 DEF Socket

(* Every commit of a handler.                                              *)
LEMMA HandlerType ==
  ASSUME TypeOK, NEW h \in Handlers, Handler(h)
  PROVE  TypeOK'
<1>0. h \in Callers /\ call \in [Callers -> CallSet] /\ call[h] \in CallSet
  BY DEF TypeOK
<1>1. ASSUME NEW p \in Principals, SetRole(h, p) PROVE TypeOK'
  <2>0. {p} \subseteq Creds \cup Principals /\ Close(h, {p})
    BY <1>1 DEF SetRole
  <2>1. call' \in [Callers -> CallSet]
    BY <1>0, <2>0, CloseType
  <2>2. policy' \in [Principals -> 0..MaxPolicy]
    BY <1>1, BoundsAssumption DEF SetRole, NewPolicy, TypeOK
  <2>3. member' \in [Principals -> {"out", "in", "due"}]
    BY <1>1 DEF SetRole, TypeOK
  <2> QED
    BY <1>1, <2>1, <2>2, <2>3 DEF SetRole, TypeOK, socket
<1>2. ASSUME NEW p \in Principals, Remove(h, p) PROVE TypeOK'
  <2>1. call' \in [Callers -> CallSet]
    BY <1>0, <1>2, CloseType DEF Remove
  <2> QED
    BY <1>2, <2>1 DEF Remove, TypeOK, socket
<1>3. ASSUME NEW p \in Principals, NEW to \in Devices \cup {None}, RoutingSet(h, p, to)
      PROVE  TypeOK'
  <2>1. call' \in [Callers -> CallSet]
    BY <1>0, <1>3, CloseType DEF RoutingSet
  <2> QED
    BY <1>3, <2>1 DEF RoutingSet, TypeOK, socket
<1>4. CASE MatrixChange(h)
  <2>1. call' \in [Callers -> CallSet]
    BY <1>0, <1>4 DEF MatrixChange, Becomes, CallSet
  <2>2. policy' \in [Principals -> 0..MaxPolicy]
    BY <1>4, BoundsAssumption DEF MatrixChange, NewPolicy, TypeOK
  <2> QED
    BY <1>4, <2>1, <2>2 DEF MatrixChange, TypeOK, socket
<1>5. CASE ReadMembers(h)
  <2>1. call' \in [Callers -> CallSet]
    <3>1. Active \subseteq Creds \cup Principals /\ Close(h, Active)
      BY <1>5 DEF ReadMembers, Active
    <3> QED
      BY <1>0, <3>1, CloseType
  <2> QED
    BY <1>5, <2>1 DEF ReadMembers, TypeOK, db, socket
<1>6. ASSUME NEW d \in Devices, NEW approves \in BOOLEAN, DeviceSetTier(h, d, approves)
      PROVE  TypeOK'
  <2>0. {d} \subseteq Creds \cup Principals /\ Close(h, {d})
    BY <1>6 DEF DeviceSetTier
  <2>1. call' \in [Callers -> CallSet]
    BY <1>0, <2>0, CloseType
  <2>2. tier' \in [Devices -> 0..MaxTier]
    BY <1>6, BoundsAssumption DEF DeviceSetTier, TypeOK
  <2> QED
    BY <1>6, <2>1, <2>2 DEF DeviceSetTier, TypeOK, socket
<1>7. CASE Lose(h)
  <2>1. call' \in [Callers -> CallSet]
    <3>1. {} \subseteq Creds \cup Principals /\ Close(h, {})
      BY <1>7 DEF Lose
    <3> QED
      BY <1>0, <3>1, CloseType
  <2>2. lost' \subseteq Sockets
    BY <1>7 DEF Lose, TypeOK
  <2> QED
    BY <1>7, <2>1, <2>2 DEF Lose, TypeOK, db, socket
<1> QED
  BY <1>1, <1>2, <1>3, <1>4, <1>5, <1>6, <1>7 DEF Handler

(* Both halves of a close.                                                 *)
LEMMA ClosingType ==
  ASSUME TypeOK, NEW h \in Callers, Scan(h) \/ Apply(h)
  PROVE  TypeOK'
<1>0. call \in [Callers -> CallSet] /\ call[h] \in CallSet
  BY DEF TypeOK
<1>1. CASE Scan(h)
  <2>1. PICK x \in call[h].left :
          Becomes(h, "scanned", call[h].left \ {x},
                  {s \in Sockets : entry[s] = "open" /\ x \in {cred[s], Owner[cred[s]]}})
    BY <1>1 DEF Scan
  <2>2. call[h].left \ {x} \subseteq Creds \cup Principals
    BY <1>0 DEF CallSet
  <2>3. call' \in [Callers -> CallSet]
    BY <1>0, <2>1, <2>2 DEF Becomes, CallSet
  <2> QED
    BY <1>1, <2>3 DEF Scan, TypeOK, db, socket
<1>2. CASE Apply(h)
  <2>1. call[h].left \subseteq Creds \cup Principals
    BY <1>0 DEF CallSet
  <2>2. call' \in [Callers -> CallSet]
    BY <1>0, <1>2, <2>1, CloseType DEF Apply
  <2> QED
    BY <1>2, <2>2 DEF Apply, TypeOK, db
<1> QED
  BY <1>1, <1>2

(* Every commit that closes nothing, and the sweep.                        *)
LEMMA UncalledType ==
  ASSUME TypeOK, Uncalled
  PROVE  TypeOK'
<1>1. ASSUME NEW p \in Principals, Restore(p) \/ Lapse(p) PROVE TypeOK'
  BY <1>1 DEF Restore, Lapse, TypeOK, socket
<1>2. ASSUME NEW p \in Principals, Join(p) PROVE TypeOK'
  <2>1. policy' \in [Principals -> 0..MaxPolicy]
    BY <1>2, BoundsAssumption DEF Join, NewPolicy, TypeOK
  <2> QED
    BY <1>2, <2>1 DEF Join, TypeOK, socket
<1>3. ASSUME NEW d \in Devices, DeviceGone(d) PROVE TypeOK'
  BY <1>3 DEF DeviceGone, TypeOK, socket
<1>4. CASE SweepExpired
  <2>1. call' \in [Callers -> CallSet]
    BY <1>4, CloseType DEF SweepExpired, TypeOK
  <2> QED
    BY <1>4, <2>1 DEF SweepExpired, TypeOK, socket
<1> QED
  BY <1>1, <1>2, <1>3, <1>4 DEF Uncalled

(* Type correctness, of every reachable state.                             *)
THEOREM TypeCorrect == Spec => []TypeOK
<1>1. Init => TypeOK
  BY BoundsAssumption
  DEF Init, TypeOK, Stages, Tiers, Snaps, CallSet, NoTier, NoSnap, NoCall
<1>2. TypeOK /\ [Next]_vars => TypeOK'
  <2> SUFFICES ASSUME TypeOK, [Next]_vars PROVE TypeOK'
    OBVIOUS
  <2>1. CASE Next
    BY <2>1, SocketType, HandlerType, ClosingType, UncalledType DEF Next
  <2>2. CASE UNCHANGED vars
    BY <2>2 DEF vars, db, socket, TypeOK
  <2> QED
    BY <2>1, <2>2
<1> QED
  BY <1>1, <1>2, PTL DEF Spec

-----------------------------------------------------------------------------
(* The callers' lists.                                                     *)

(* Only a caller that is closing has subjects left to close.               *)
CallsOK == \A h \in Callers : call[h].at \in {"idle", "matrix"} => call[h].left = {}

LEMMA CallsOKStep ==
  ASSUME TypeOK, CallsOK, [Next]_vars
  PROVE  CallsOK'
<1>0. call \in [Callers -> CallSet]
  BY DEF TypeOK
<1>1. ASSUME NEW h \in Callers, NEW left \in SUBSET (Creds \cup Principals), Close(h, left)
      PROVE  CallsOK'
  BY <1>0, <1>1, CloseType DEF CallsOK
<1>2. ASSUME NEW s \in Sockets, Socket(s) PROVE CallsOK'
  <2>1. CASE Leave(s)
    <3>1. ASSUME NEW c \in CallSet
          PROVE  /\ [c EXCEPT !.ids = @ \ {s}].at = c.at
                 /\ [c EXCEPT !.ids = @ \ {s}].left = c.left
      BY DEF CallSet
    <3>2. \A h \in Callers : call'[h].at = call[h].at /\ call'[h].left = call[h].left
      BY <1>0, <2>1, <3>1 DEF Leave
    <3> QED
      BY <3>2 DEF CallsOK
  <2>2. CASE ~Leave(s)
    BY <1>2, <2>2 DEF Socket, Resolve, Register, CheckOk, Select, Route, Upgrade, Rechecked,
       CallsOK
  <2> QED
    BY <2>1, <2>2
<1>3. ASSUME NEW h \in Handlers, Handler(h) PROVE CallsOK'
  <2>1. CASE MatrixChange(h)
    BY <1>0, <2>1 DEF MatrixChange, Becomes, CallsOK, CallSet
  <2>2. CASE ~MatrixChange(h)
    <3>1. \E left \in SUBSET (Creds \cup Principals) : Close(h, left)
      BY <1>3, <2>2 DEF Handler, SetRole, Remove, RoutingSet, ReadMembers, Active,
         DeviceSetTier, Lose
    <3> QED
      BY <3>1, <1>1
  <2> QED
    BY <2>1, <2>2
<1>4. ASSUME NEW h \in Callers, Scan(h) PROVE CallsOK'
  BY <1>0, <1>4 DEF Scan, Becomes, CallsOK, CallSet
<1>5. ASSUME NEW h \in Callers, Apply(h) PROVE CallsOK'
  <2>1. call[h].left \subseteq Creds \cup Principals
    BY <1>0 DEF CallSet
  <2> QED
    BY <1>1, <1>5, <2>1 DEF Apply
<1>6. CASE SweepExpired
  BY <1>1, <1>6 DEF SweepExpired
<1>7. CASE Uncalled /\ ~SweepExpired
  BY <1>7 DEF Uncalled, Restore, Join, Lapse, DeviceGone, CallsOK
<1>8. CASE UNCHANGED vars
  BY <1>8 DEF vars, CallsOK
<1> QED
  BY <1>2, <1>3, <1>4, <1>5, <1>6, <1>7, <1>8 DEF Next

(* A close that is on its way to an open entry stays so until it arrives.  *)
LEMMA PendingStays ==
  ASSUME TypeOK, CallsOK, [Next]_vars, NEW s \in Sockets,
         entry[s] = "open", entry'[s] = "open",
         NEW x, x \in {cred[s], Owner[cred[s]]}, Pending(s, x)
  PROVE  Pending(s, x)'
<1>0. call \in [Callers -> CallSet]
  BY DEF TypeOK
<1>1. ~Leave(s)
  BY DEF Leave, TypeOK
<1>2. CASE s \in lost
  <2>1. s \in lost'
    BY <1>1, <1>2 DEF Next, vars, Socket, Resolve, Register, CheckOk, Select, Route, Upgrade,
       Leave, Rechecked, Handler, SetRole, Remove, RoutingSet, MatrixChange, ReadMembers,
       DeviceSetTier, Lose, Scan, Apply, Uncalled, Restore, Join, Lapse, DeviceGone, SweepExpired
  <2> QED
    BY <2>1 DEF Pending
<1>3. ASSUME NEW h \in Callers,
             x \in call[h].left \/ (call[h].at = "scanned" /\ s \in call[h].ids)
      PROVE  Pending(s, x)'
  <2> DEFINE Reaches == x \in call[h].left \/ (call[h].at = "scanned" /\ s \in call[h].ids)
  <2>0. Reaches' => Pending(s, x)'
    BY DEF Pending
  <2>1. call[h].at \notin {"idle", "matrix"}
    BY <1>3 DEF CallsOK
  <2>2. ASSUME UNCHANGED call[h] PROVE Pending(s, x)'
    BY <1>3, <2>0, <2>2
  <2>3. ASSUME NEW t \in Sockets, Socket(t) PROVE Pending(s, x)'
    <3>1. CASE Leave(t)
      <4>1. t # s
        BY <1>1, <3>1
      <4> QED
        BY <1>0, <1>3, <2>0, <3>1, <4>1 DEF Leave, CallSet
    <3>2. CASE ~Leave(t)
      BY <2>2, <2>3, <3>2 DEF Socket, Resolve, Register, CheckOk, Select, Route, Upgrade,
         Rechecked
    <3> QED
      BY <3>1, <3>2
  <2>4. ASSUME NEW g \in Callers, g # h,
               Handler(g) \/ Scan(g) \/ Apply(g) \/ (SweepExpired /\ g = Sweeper)
        PROVE  Pending(s, x)'
    <3>1. ASSUME NEW left, Close(g, left) PROVE call'[h] = call[h]
      BY <1>0, <2>4, <3>1 DEF Close, Becomes
    <3>2. CASE MatrixChange(g) \/ Scan(g)
      BY <1>0, <2>2, <2>4, <3>2 DEF MatrixChange, Scan, Becomes
    <3>3. CASE Handler(g) /\ ~MatrixChange(g)
      BY <2>2, <3>1, <3>3 DEF Handler, SetRole, Remove, RoutingSet, ReadMembers,
         DeviceSetTier, Lose
    <3>4. CASE Apply(g) \/ (SweepExpired /\ g = Sweeper)
      BY <2>2, <3>1, <3>4 DEF Apply, SweepExpired
    <3> QED
      BY <2>4, <3>2, <3>3, <3>4
  <2>5. CASE h \in Handlers /\ Handler(h)
    <3>1. Lose(h)
      BY <2>1, <2>5 DEF Handler, Idle, SetRole, Remove, RoutingSet, MatrixChange, ReadMembers,
         DeviceSetTier
    <3>2. call[h].at = "closing" /\ x \in call[h].left
      BY <1>3, <2>1, <3>1 DEF Lose
    <3>3. s \in lost'
      BY <3>1, <3>2 DEF Lose
    <3> QED
      BY <3>3 DEF Pending
  <2>6. CASE Scan(h)
    <3>1. x \in call[h].left
      BY <1>3, <2>6 DEF Scan
    <3>2. PICK y \in call[h].left :
            Becomes(h, "scanned", call[h].left \ {y},
                    {t \in Sockets : entry[t] = "open" /\ y \in {cred[t], Owner[cred[t]]}})
      BY <2>6 DEF Scan
    <3>3. /\ call'[h].at = "scanned"
          /\ call'[h].left = call[h].left \ {y}
          /\ call'[h].ids = {t \in Sockets : entry[t] = "open" /\ y \in {cred[t], Owner[cred[t]]}}
      BY <1>0, <3>2 DEF Becomes
    <3> QED
      BY <2>0, <3>1, <3>3
  <2>7. CASE Apply(h)
    <3>1. x \in call[h].left
      BY <1>3, <2>7 DEF Apply, TypeOK
    <3>2. call[h].left \in SUBSET (Creds \cup Principals)
      BY <1>0 DEF CallSet
    <3>3. call'[h].left = call[h].left
      BY <1>0, <2>7, <3>2, CloseType DEF Apply
    <3> QED
      BY <2>0, <3>1, <3>3
  <2>8. CASE Uncalled /\ ~SweepExpired
    BY <2>2, <2>8 DEF Uncalled, Restore, Join, Lapse, DeviceGone
  <2>9. CASE SweepExpired /\ h = Sweeper
    BY <2>1, <2>9 DEF SweepExpired, Idle
  <2>10. CASE UNCHANGED vars
    BY <2>2, <2>10 DEF vars
  <2>11. ASSUME NEW g \in Handlers, Handler(g) PROVE Pending(s, x)'
    BY <2>4, <2>5, <2>11
  <2>12. ASSUME NEW g \in Callers, Scan(g) \/ Apply(g) PROVE Pending(s, x)'
    BY <2>4, <2>6, <2>7, <2>12
  <2>13. CASE SweepExpired
    <3>1. Sweeper \in Callers
      OBVIOUS
    <3> QED
      BY <2>4, <2>9, <2>13, <3>1
  <2> QED
    BY <2>3, <2>8, <2>10, <2>11, <2>12, <2>13 DEF Next
<1> QED
  BY <1>2, <1>3 DEF Pending

-----------------------------------------------------------------------------
(* The snapshot.                                                           *)

(* What a handshake saw of its device is of the version it remembers, and  *)
(* a socket may approve only if that tier does.                            *)
SeenIsTrue ==
    \A s \in Sockets :
        /\ cred[s] \in Devices
             => /\ seen[s].tier <= tier[cred[s]]
                /\ seen[s].tier = tier[cred[s]] => seen[s].approver = approver[cred[s]]
        /\ snap[s].approve => pc[s] \in {"narrowed", "open"} /\ seen[s].approver

Checked  == {"checked", "selected", "narrowed", "open"}
Selected == {"selected", "narrowed", "open"}

(* The inductive form of SnapshotIsFresh: each part from the step that     *)
(* reads it on, so that a change between that step and the upgrade counts. *)
TiersFresh    == \A s \in Sockets : pc[s] \in Checked /\ entry[s] = "open" => TierIsFresh(s)
SharesFresh   == \A s \in Sockets : pc[s] \in Selected /\ entry[s] = "open" => ShareIsFresh(s)
RoutingsFresh == \A s \in Sockets : Narrowed(s) => RoutingIsFresh(s)

(* A socket in a checked stage was in one before, or is checked now.       *)
LEMMA SocketFate ==
  ASSUME TypeOK, [Next]_vars, NEW s \in Sockets, entry'[s] = "open", pc'[s] \in Checked
  PROVE  /\ entry[s] = "open" /\ cred'[s] = cred[s] /\ seen'[s] = seen[s]
         /\ pc[s] \in Checked \/ CheckOk(s)
         /\ pc'[s] \in Selected
              => \/ pc[s] \in Selected /\ snap'[s].share = snap[s].share
                                      /\ snap'[s].policy = snap[s].policy
                 \/ \E share \in BOOLEAN : Select(s, share)
         /\ pc'[s] \in {"narrowed", "open"}
              => \/ pc[s] \in {"narrowed", "open"} /\ snap'[s] = snap[s]
                 \/ Route(s)
<1> USE DEF Checked, Selected
<1>1. ASSUME NEW t \in Sockets, Socket(t), t # s
      PROVE  /\ pc'[s] = pc[s] /\ cred'[s] = cred[s] /\ seen'[s] = seen[s]
             /\ snap'[s] = snap[s] /\ entry'[s] = entry[s]
  BY <1>1 DEF Socket, Resolve, Register, CheckOk, Select, Route, Upgrade, Leave, Rechecked, TypeOK
<1>2. ASSUME NEW c \in Creds, Resolve(s, c) PROVE FALSE
  BY <1>2 DEF Resolve, TypeOK
<1>3. CASE Route(s)
  BY <1>3 DEF Route, TypeOK, Snaps
<1>4. ASSUME NEW share \in BOOLEAN, Select(s, share)
      PROVE  /\ pc[s] = "checked" /\ pc'[s] = "selected" /\ UNCHANGED <<cred, seen, entry>>
  BY <1>4 DEF Select, TypeOK
<1>5. CASE Socket(s) /\ ~Route(s)
  BY <1>2, <1>4, <1>5 DEF Socket, Register, CheckOk, Upgrade, Leave, Rechecked, TypeOK
<1>6. CASE \A t \in Sockets : ~Socket(t)
  <2>1. UNCHANGED <<pc, cred, seen, snap>>
    BY <1>6 DEF Next, vars, socket, Handler, SetRole, Remove, RoutingSet, MatrixChange,
       ReadMembers, DeviceSetTier, Lose, Scan, Apply, Uncalled, Restore, Join, Lapse,
       DeviceGone, SweepExpired
  <2>2. entry[s] = "open"
    <3>1. ASSUME NEW h \in Callers, Apply(h) PROVE entry[s] = "open"
      BY <3>1 DEF Apply, TypeOK
    <3>2. CASE \A h \in Callers : ~Apply(h)
      BY <1>6, <3>2 DEF Next, vars, socket, Handler, SetRole, Remove, RoutingSet, MatrixChange,
         ReadMembers, DeviceSetTier, Lose, Scan, Uncalled, Restore, Join, Lapse, DeviceGone,
         SweepExpired
    <3> QED
      BY <3>1, <3>2
  <2> QED
    BY <2>1, <2>2
<1> QED
  BY <1>1, <1>3, <1>5, <1>6

(* What a socket's handler keeps changes by its own steps only.            *)
LEMMA SocketFrame ==
  ASSUME TypeOK, [Next]_vars, NEW s \in Sockets, ~Socket(s)
  PROVE  pc'[s] = pc[s] /\ cred'[s] = cred[s] /\ seen'[s] = seen[s] /\ snap'[s] = snap[s]
<1>1. ASSUME NEW t \in Sockets, Socket(t), t # s
      PROVE  /\ pc'[s] = pc[s] /\ cred'[s] = cred[s] /\ seen'[s] = seen[s]
             /\ snap'[s] = snap[s]
  BY <1>1 DEF Socket, Resolve, Register, CheckOk, Select, Route, Upgrade, Leave, Rechecked, TypeOK
<1>2. CASE \A t \in Sockets : ~Socket(t)
  BY <1>2 DEF Next, vars, socket, Handler, SetRole, Remove, RoutingSet, MatrixChange,
     ReadMembers, DeviceSetTier, Lose, Scan, Apply, Uncalled, Restore, Join, Lapse,
     DeviceGone, SweepExpired
<1> QED
  BY <1>1, <1>2

(* A device's tier changes by access_device_set_tier only, and its row's   *)
(* revocation stays.                                                       *)
LEMMA TierBy ==
  ASSUME TypeOK, [Next]_vars, NEW d \in Devices
  PROVE  /\ gone[d] => gone'[d]
         /\ \/ tier'[d] = tier[d] /\ approver'[d] = approver[d]
            \/ \E h \in Handlers, approves \in BOOLEAN : DeviceSetTier(h, d, approves)
<1>1. ASSUME NEW h \in Handlers, NEW e \in Devices, NEW approves \in BOOLEAN,
             DeviceSetTier(h, e, approves), e # d
      PROVE  tier'[d] = tier[d] /\ approver'[d] = approver[d]
  BY <1>1 DEF DeviceSetTier, TypeOK
<1>2. ASSUME \A h \in Handlers, e \in Devices, approves \in BOOLEAN :
               ~DeviceSetTier(h, e, approves)
      PROVE  tier'[d] = tier[d] /\ approver'[d] = approver[d]
  BY <1>2 DEF Next, vars, db, Socket, Resolve, Register, CheckOk, Select, Route, Upgrade,
     Leave, Rechecked, Handler, SetRole, Remove, RoutingSet, MatrixChange, ReadMembers, Lose,
     Scan, Apply, Uncalled, Restore, Join, Lapse, DeviceGone, SweepExpired
<1>4. \/ tier'[d] = tier[d] /\ approver'[d] = approver[d]
      \/ \E h \in Handlers, approves \in BOOLEAN : DeviceSetTier(h, d, approves)
  <2>1. ASSUME NEW h \in Handlers, NEW e \in Devices, NEW approves \in BOOLEAN,
               DeviceSetTier(h, e, approves)
        PROVE  \/ tier'[d] = tier[d] /\ approver'[d] = approver[d]
               \/ DeviceSetTier(h, d, approves)
    BY <1>1, <2>1
  <2> QED
    BY <1>2, <2>1
<1>3. gone[d] => gone'[d]
  BY DEF TypeOK, Next, vars, db, Socket, Resolve, Register, CheckOk, Select, Route, Upgrade,
     Leave, Rechecked, Handler, SetRole, Remove, RoutingSet, MatrixChange, ReadMembers,
     DeviceSetTier, Lose, Scan, Apply, Uncalled, Restore, Join, Lapse, DeviceGone, SweepExpired
<1> QED
  BY <1>3, <1>4

(* The routing preference changes by access_routing_set only.              *)
LEMMA RoutingBy ==
  ASSUME TypeOK, [Next]_vars, NEW p \in Principals
  PROVE  \/ routing'[p] = routing[p]
         \/ \E h \in Handlers, to \in Devices \cup {None} : RoutingSet(h, p, to)
<1>1. ASSUME NEW h \in Handlers, NEW q \in Principals, NEW to \in Devices \cup {None},
             RoutingSet(h, q, to), q # p
      PROVE  routing'[p] = routing[p]
  BY <1>1 DEF RoutingSet, TypeOK
<1>2. CASE \A h \in Handlers, q \in Principals, to \in Devices \cup {None} : ~RoutingSet(h, q, to)
  BY <1>2 DEF Next, vars, db, Socket, Resolve, Register, CheckOk, Select, Route, Upgrade,
     Leave, Rechecked, Handler, SetRole, Remove, DeviceSetTier, MatrixChange, ReadMembers, Lose,
     Scan, Apply, Uncalled, Restore, Join, Lapse, DeviceGone, SweepExpired
<1> QED
  BY <1>1, <1>2

(* A change that closes x has it pending from its commit on.               *)
LEMMA CloseIsPending ==
  ASSUME TypeOK, NEW h \in Handlers, NEW left, left \subseteq Creds \cup Principals,
         Close(h, left), NEW x \in left, NEW s \in Sockets
  PROVE  Pending(s, x)'
  BY CloseType DEF Pending, TypeOK

LEMMA SeenIsTrueStep ==
  ASSUME TypeOK, TypeOK', SeenIsTrue, [Next]_vars
  PROVE  SeenIsTrue'
<1> SUFFICES ASSUME NEW s \in Sockets
             PROVE  /\ cred'[s] \in Devices
                         => /\ seen'[s].tier <= tier'[cred'[s]]
                            /\ seen'[s].tier = tier'[cred'[s]]
                                 => seen'[s].approver = approver'[cred'[s]]
                    /\ snap'[s].approve => pc'[s] \in {"narrowed", "open"} /\ seen'[s].approver
  BY DEF SeenIsTrue
<1>1. ASSUME NEW c \in Creds, Resolve(s, c)
      PROVE  /\ pc[s] = "idle" /\ cred'[s] = c
             /\ UNCHANGED <<tier, approver, snap>>
             /\ c \in Devices => seen'[s] = [tier |-> tier[c], approver |-> approver[c]]
  BY <1>1 DEF Resolve, TypeOK, db
<1>2. CASE \E c \in Creds : Resolve(s, c)
  <2>1. PICK c \in Creds : Resolve(s, c)
    BY <1>2
  <2>2. ~snap'[s].approve
    BY <1>1, <2>1 DEF SeenIsTrue
  <2>3. ASSUME c \in Devices
        PROVE  /\ seen'[s].tier = tier'[c] /\ tier'[c] \in Nat
               /\ seen'[s].approver = approver'[c]
    BY <1>1, <2>1, <2>3, BoundsAssumption DEF TypeOK
  <2>4. cred'[s] = c
    BY <1>1, <2>1
  <2> QED
    BY <2>2, <2>3, <2>4
<1>3. CASE Leave(s)
  <2>1. cred'[s] = None /\ snap'[s] = NoSnap
    BY <1>3 DEF Leave, TypeOK
  <2>2. None \notin Devices /\ ~NoSnap.approve
    BY NoneAssumption DEF NoSnap
  <2> QED
    BY <2>1, <2>2
<1>4. ASSUME cred'[s] = cred[s], seen'[s] = seen[s], cred[s] \in Devices
      PROVE  /\ seen'[s].tier <= tier'[cred'[s]]
             /\ seen'[s].tier = tier'[cred'[s]] => seen'[s].approver = approver'[cred'[s]]
  <2> DEFINE d == cred[s]
  <2>1. /\ seen[s].tier <= tier[d]
        /\ seen[s].tier = tier[d] => seen[s].approver = approver[d]
        /\ seen[s].tier \in Nat /\ tier[d] \in Nat
    BY <1>4, BoundsAssumption DEF SeenIsTrue, TypeOK, Tiers
  <2>2. ASSUME NEW h \in Handlers, NEW approves \in BOOLEAN, DeviceSetTier(h, d, approves)
        PROVE  tier'[d] = tier[d] + 1
    BY <1>4, <2>2 DEF DeviceSetTier, TypeOK
  <2> QED
    BY <1>4, <2>1, <2>2, TierBy
<1>5. CASE ~Leave(s) /\ ~\E c \in Creds : Resolve(s, c)
  <2>1. cred'[s] = cred[s] /\ seen'[s] = seen[s]
    <3>1. CASE Socket(s)
      BY <1>5, <3>1 DEF Socket, Register, CheckOk, Select, Route, Upgrade, Rechecked
    <3> QED
      BY <3>1, SocketFrame
  <2>2. snap'[s].approve => pc'[s] \in {"narrowed", "open"} /\ seen'[s].approver
    <3>1. CASE Route(s)
      BY <2>1, <3>1 DEF Route, TypeOK, Snaps
    <3>2. ASSUME NEW share \in BOOLEAN, Select(s, share) PROVE ~snap'[s].approve
      BY <3>2 DEF Select, TypeOK
    <3>3. CASE CheckOk(s) \/ Register(s) \/ Upgrade(s)
      BY <3>3, <2>1 DEF CheckOk, Register, Upgrade, TypeOK, SeenIsTrue
    <3>4. CASE ~Route(s) /\ (\A share \in BOOLEAN : ~Select(s, share))
               /\ ~CheckOk(s) /\ ~Register(s) /\ ~Upgrade(s)
      <4>1. snap'[s] = snap[s] /\ pc'[s] = pc[s]
        <5>1. CASE Socket(s)
          BY <1>5, <3>4, <5>1 DEF Socket, Rechecked
        <5> QED
          BY <5>1, SocketFrame
      <4> QED
        BY <2>1, <4>1 DEF SeenIsTrue
    <3> QED
      BY <3>1, <3>2, <3>3, <3>4
  <2> QED
    BY <1>4, <2>1, <2>2
<1> QED
  BY <1>2, <1>3, <1>5

(* A tier change that commits after the check finds the entry registered.  *)
LEMMA TiersFreshStep ==
  ASSUME TypeOK, TypeOK', CallsOK, TiersFresh, [Next]_vars
  PROVE  TiersFresh'
<1> SUFFICES ASSUME NEW s \in Sockets, NEW d \in Devices, cred'[s] = d,
                    pc'[s] \in Checked, entry'[s] = "open",
                    ~gone'[d], seen'[s].tier # tier'[d]
             PROVE  Pending(s, d)'
  BY DEF TiersFresh, TierIsFresh
<1>1. entry[s] = "open" /\ cred[s] = d /\ seen'[s] = seen[s] /\ ~gone[d]
  BY SocketFate, TierBy
<1>2. ~CheckOk(s)
  BY <1>1 DEF CheckOk, Current, db
<1>3. pc[s] \in Checked
  BY <1>2, SocketFate
<1>4. CASE seen[s].tier # tier[d]
  <2>1. Pending(s, d)
    BY <1>1, <1>3, <1>4 DEF TiersFresh, TierIsFresh
  <2> QED
    BY <1>1, <2>1, PendingStays
<1>5. CASE seen[s].tier = tier[d]
  <2>1. PICK h \in Handlers, approves \in BOOLEAN : DeviceSetTier(h, d, approves)
    BY <1>1, <1>5, TierBy
  <2>2. Close(h, {d}) /\ {d} \subseteq Creds \cup Principals
    BY <2>1 DEF DeviceSetTier
  <2> QED
    BY <2>2, CloseIsPending
<1> QED
  BY <1>4, <1>5

(* What may still take s to the routing it has not got: the devices closed *)
(* are those that could approve before, and s is one of them.              *)
LEMMA RoutingsFreshStep ==
  ASSUME TypeOK, TypeOK', CallsOK, SeenIsTrue, TiersFresh, RoutingsFresh, [Next]_vars
  PROVE  RoutingsFresh'
<1> SUFFICES ASSUME NEW s \in Sockets, NEW d \in Devices, cred'[s] = d, Narrowed(s)',
                    ~gone'[d], snap'[s].approve, ~Admits(Owner[d], d)'
             PROVE  Pending(s, d)'
  BY DEF RoutingsFresh, RoutingIsFresh
<1>0. Owner[d] \in Principals /\ d \in Creds
  BY OwnerType
<1>1. pc'[s] \in Checked /\ entry'[s] = "open" /\ pc'[s] \in {"narrowed", "open"}
  BY DEF Narrowed, Checked
<1>2. entry[s] = "open" /\ cred[s] = d /\ seen'[s] = seen[s] /\ ~gone[d]
  BY <1>1, SocketFate, TierBy
<1>3. ~Route(s)
  <2>1. ASSUME Route(s) PROVE FALSE
    <3>1. snap'[s].approve = (seen[s].approver /\ Admits(Owner[cred[s]], cred[s]))
      <4> DEFINE b == seen[s].approver /\ Admits(Owner[cred[s]], cred[s])
      <4>1. snap'[s] = [snap[s] EXCEPT !.approve = b]
        BY <2>1 DEF Route, TypeOK
      <4> HIDE DEF b
      <4>2. snap'[s].approve = b
        BY <4>1 DEF TypeOK, Snaps
      <4> QED
        BY <4>2 DEF b
    <3>2. Admits(Owner[d], d)' <=> Admits(Owner[d], d)
      BY <2>1 DEF Route, Admits, db
    <3> QED
      BY <1>2, <3>1, <3>2
  <2> QED
    BY <2>1
<1>4. pc[s] \in {"narrowed", "open"} /\ snap'[s] = snap[s]
  BY <1>1, <1>3, SocketFate
<1>5. CASE Pending(s, d)
  BY <1>1, <1>2, <1>5, PendingStays
<1>6. CASE ~Pending(s, d)
  <2>1. Admits(Owner[d], d)
    BY <1>2, <1>4, <1>6 DEF RoutingsFresh, RoutingIsFresh, Narrowed
  <2>2. seen[s].tier = tier[d]
    BY <1>2, <1>4, <1>6 DEF TiersFresh, TierIsFresh, Checked
  <2>3. approver[d]
    BY <1>2, <1>4, <2>2 DEF SeenIsTrue
  <2>4. PICK h \in Handlers, to \in Devices \cup {None} : RoutingSet(h, Owner[d], to)
    BY <1>0, <2>1, RoutingBy DEF Admits
  <2> DEFINE left == {e \in Devices : /\ Owner[e] = Owner[d] /\ ~gone[e] /\ approver[e]
                                      /\ Admits(Owner[d], e)}
  <2>5. Close(h, left)
    BY <2>4 DEF RoutingSet
  <2>6. d \in left /\ left \subseteq Creds \cup Principals
    BY <1>2, <2>1, <2>3
  <2> HIDE DEF left
  <2> QED
    BY <2>5, <2>6, CloseIsPending
<1> QED
  BY <1>5, <1>6

(* A membership's end, a change of its role and a change of the matrix,    *)
(* whichever way a member leaves and returns between them.                 *)
LEMMA SharesFreshStep ==
  ASSUME TypeOK, TypeOK', CallsOK, SharesFresh, [Next]_vars
  PROVE  SharesFresh'
<1> SUFFICES ASSUME NEW s \in Sockets, NEW p \in Principals, p = Owner[cred'[s]],
                    pc'[s] \in Selected, entry'[s] = "open", snap'[s].share,
                    member'[p] = "out" \/ snap'[s].policy # policy'[p]
             PROVE  \/ Pending(s, p)'
                    \/ member'[p] # "out" /\ \E h \in Handlers : call'[h].at = "matrix"
  <2>1. ASSUME NEW s \in Sockets, pc'[s] \in Selected PROVE Owner[cred'[s]] \in Principals
    BY <2>1, OwnerType DEF TypeOK, Selected
  <2> QED
    BY <2>1 DEF SharesFresh, ShareIsFresh
<1> DEFINE Matrix == \E h \in Handlers : call[h].at = "matrix"
           Stale  == member[p] = "out" \/ snap[s].policy # policy[p]
<1>1. pc'[s] \in Checked /\ entry[s] = "open" /\ cred[s] = cred'[s] /\ p = Owner[cred[s]]
  <2>1. pc'[s] \in Checked
    BY DEF Selected, Checked
  <2> QED
    BY <2>1, SocketFate
<1>2. ASSUME NEW share \in BOOLEAN, Select(s, share) PROVE FALSE
  <2>1. snap'[s] = [share |-> share, policy |-> policy[p], approve |-> FALSE]
    BY <1>1, <1>2 DEF Select, TypeOK
  <2>2. member'[p] = "in" /\ policy'[p] = policy[p]
    BY <1>1, <1>2, <2>1 DEF Select, db
  <2> QED
    BY <2>1, <2>2
<1>3. pc[s] \in Selected /\ snap[s].share /\ snap'[s].policy = snap[s].policy
  BY <1>1, <1>2, SocketFate
<1>4. Stale => Pending(s, p) \/ (member[p] # "out" /\ Matrix)
  BY <1>1, <1>3 DEF SharesFresh, ShareIsFresh
<1>5. CASE Pending(s, p)
  BY <1>1, <1>5, PendingStays
<1>6. CASE ~Pending(s, p)
  <2>0. member[p] # "out" /\ (Stale => Matrix)
    BY <1>4, <1>6
  <2>1. ASSUME NEW h \in Handlers, Close(h, {p}) PROVE Pending(s, p)'
    BY <2>1, CloseIsPending
  <2>2. ASSUME NEW h \in Handlers, call[h].at = "matrix", call'[h] # call[h],
               \A t \in Sockets : ~Socket(t)
        PROVE  Pending(s, p)'
    <3>1. Handler(h) \/ Scan(h) \/ Apply(h)
      <4>1. ASSUME NEW g \in Callers, g # h, NEW left, Close(g, left) PROVE FALSE
        BY <2>2, <4>1 DEF Close, Becomes, TypeOK
      <4>2. ASSUME NEW g \in Callers, g # h, Handler(g) \/ Scan(g) \/ Apply(g) PROVE FALSE
        <5>1. ~MatrixChange(g) /\ ~Scan(g)
          BY <2>2, <4>2 DEF MatrixChange, Scan, Becomes, TypeOK
        <5> QED
          BY <4>1, <4>2, <5>1 DEF Handler, SetRole, Remove, RoutingSet, ReadMembers,
             DeviceSetTier, Lose, Apply
      <4>3. ~SweepExpired
        BY <4>1, SweeperAssumption DEF SweepExpired
      <4>4. ~Uncalled
        BY <2>2, <4>3 DEF Uncalled, Restore, Join, Lapse, DeviceGone
      <4> QED
        BY <2>2, <4>2, <4>4 DEF Next, vars
    <3>2. ReadMembers(h) \/ Lose(h)
      BY <2>2, <3>1 DEF Handler, Idle, SetRole, Remove, RoutingSet, MatrixChange,
         DeviceSetTier, Scan, Apply
    <3>3. p \in Active /\ Active \subseteq Creds \cup Principals
      BY <2>0 DEF Active
    <3>4. CASE ReadMembers(h)
      BY <3>3, <3>4, CloseIsPending DEF ReadMembers
    <3>5. CASE Lose(h)
      <4>1. s \in lost'
        BY <1>1, <2>2, <3>3, <3>5 DEF Lose
      <4> QED
        BY <4>1 DEF Pending
    <3> QED
      BY <3>2, <3>4, <3>5
  <2>3. ASSUME NEW t \in Sockets, Socket(t)
        PROVE  /\ UNCHANGED <<member, policy>>
               /\ \A h \in Handlers : call'[h].at = call[h].at
    <3>1. CASE Leave(t)
      <4>1. ASSUME NEW c \in CallSet PROVE [c EXCEPT !.ids = @ \ {t}].at = c.at
        BY DEF CallSet
      <4> QED
        BY <3>1, <4>1 DEF Leave, TypeOK, db
    <3>2. CASE ~Leave(t)
      BY <2>3, <3>2 DEF Socket, Resolve, Register, CheckOk, Select, Route, Upgrade, Rechecked, db
    <3> QED
      BY <3>1, <3>2
  <2>4. CASE \E t \in Sockets : Socket(t)
    BY <1>3, <2>0, <2>3, <2>4
  <2>5. CASE \A t \in Sockets : ~Socket(t)
    <3>1. ASSUME member'[p] = "out" PROVE Pending(s, p)'
      <4>1. CASE SweepExpired
        <5> DEFINE due == {q \in Principals : member[q] = "due"}
        <5>1. Close(Sweeper, due) /\ due \subseteq Creds \cup Principals /\ p \in due
          BY <2>0, <3>1, <4>1 DEF SweepExpired
        <5> HIDE DEF due
        <5>2. call'[Sweeper].left = due
          BY <5>1, CloseType DEF TypeOK
        <5> QED
          BY <5>1, <5>2 DEF Pending
      <4>2. ASSUME NEW h \in Handlers, NEW q \in Principals, Remove(h, q) PROVE Pending(s, p)'
        BY <2>0, <2>1, <3>1, <4>2 DEF Remove, TypeOK
      <4>3. ASSUME NEW h \in Handlers, NEW q \in Principals, SetRole(h, q) PROVE FALSE
        BY <2>0, <3>1, <4>3 DEF SetRole, TypeOK
      <4>4. ASSUME NEW q \in Principals, Restore(q) \/ Join(q) \/ Lapse(q) PROVE FALSE
        BY <2>0, <3>1, <4>4 DEF Restore, Join, Lapse, TypeOK
      <4>5. ~UNCHANGED member
        BY <2>0, <3>1
      <4> QED
        BY <2>5, <4>1, <4>2, <4>3, <4>4, <4>5 DEF Next, vars, db, Handler, RoutingSet,
           MatrixChange, ReadMembers, DeviceSetTier, Lose, Scan, Apply, Uncalled, DeviceGone
    <3>2. ASSUME policy'[p] # policy[p]
          PROVE  Pending(s, p)' \/ \E h \in Handlers : call'[h].at = "matrix"
      <4>1. ASSUME NEW h \in Handlers, NEW q \in Principals, SetRole(h, q) PROVE Pending(s, p)'
        <5>1. q = p
          BY <3>2, <4>1 DEF SetRole, NewPolicy
        <5>2. Close(h, {q}) /\ {q} \subseteq Creds \cup Principals /\ p \in {q}
          BY <4>1, <5>1 DEF SetRole
        <5> QED
          BY <5>1, <5>2, CloseIsPending
      <4>2. ASSUME NEW q \in Principals, Join(q) PROVE FALSE
        BY <2>0, <3>2, <4>2 DEF Join, NewPolicy
      <4>3. ASSUME NEW h \in Handlers, MatrixChange(h) PROVE call'[h].at = "matrix"
        BY <4>3 DEF MatrixChange, Becomes, TypeOK
      <4>4. CASE /\ \A h \in Handlers, q \in Principals : ~SetRole(h, q)
                 /\ \A q \in Principals : ~Join(q)
                 /\ \A h \in Handlers : ~MatrixChange(h)
        BY <2>5, <3>2, <4>4 DEF Next, vars, db, Handler, Remove, RoutingSet, ReadMembers,
           DeviceSetTier, Lose, Scan, Apply, Uncalled, Restore, Lapse, DeviceGone, SweepExpired
      <4> QED
        BY <4>1, <4>2, <4>3, <4>4
    <3>3. CASE member'[p] # "out" /\ policy'[p] = policy[p]
      <4>1. Matrix
        BY <1>3, <2>0, <3>3
      <4> QED
        BY <2>2, <2>5, <3>3, <4>1
    <3> QED
      BY <3>1, <3>2, <3>3
  <2> QED
    BY <2>4, <2>5
<1> QED
  BY <1>5, <1>6

(* Whichever moment of a handshake, or of another change's close, a change *)
(* of tier, routing, role, policy or membership commits at, the sockets    *)
(* whose snapshot it makes untrue are closed by it, unless its close is    *)
(* lost: the memberships that are restored or renewed without a close, and *)
(* the member the matrix's close does not list, included.                  *)
THEOREM SnapshotsFresh == Spec => []SnapshotIsFresh
<1> DEFINE Inv == CallsOK /\ SeenIsTrue /\ TiersFresh /\ RoutingsFresh /\ SharesFresh
<1>1. Init => Inv
  <2> SUFFICES ASSUME Init PROVE Inv
    OBVIOUS
  <2>1. CallsOK
    BY DEF Init, CallsOK, NoCall
  <2>2. SeenIsTrue
    BY NoneAssumption DEF Init, SeenIsTrue, NoSnap
  <2>3. TiersFresh /\ RoutingsFresh /\ SharesFresh
    BY DEF Init, TiersFresh, RoutingsFresh, SharesFresh, Narrowed
  <2> QED
    BY <2>1, <2>2, <2>3
<1>2. TypeOK /\ TypeOK' /\ Inv /\ [Next]_vars => Inv'
  BY CallsOKStep, SeenIsTrueStep, TiersFreshStep, RoutingsFreshStep, SharesFreshStep
<1>3. Inv => SnapshotIsFresh
  BY DEF TiersFresh, RoutingsFresh, SharesFresh, SnapshotIsFresh, Narrowed, Checked, Selected
<1> QED
  BY <1>1, <1>2, <1>3, TypeCorrect, PTL DEF Spec
=============================================================================
