-------------------------- MODULE AskRelayProofs ---------------------------
(***************************************************************************)
(* Theorems about AskRelay: for every number of asks and deciders, and      *)
(* every number of restarts the property speaks of.                        *)
(***************************************************************************)
EXTENDS AskRelay, TLAPS

HookActs(a) == Ask(a) \/ HookEnds(a) \/ HangUp(a) \/ FlipRow(a) \/ WriteRow(a) \/ Put(a)
HostActs(a) == HostClaims(a) \/ HostResolves(a) \/ HostUnclaims(a) \/ HostAnswers(a)
CallActs(d) == \/ \E a \in Asks : RemoteClaims(d, a)
               \/ RemoteQueues(d) \/ RemoteUnclaims(d) \/ AuditDecided(d)
TimerActs(a) == Expire(a) \/ ExpireRetracts(a) \/ Forget(a)
LoopActs    == OtherPoll \/ PollEnds \/ Take
ApplyActs   == (\E c \in taken : ApplyClaims(c)) \/ ApplyResolves \/ ApplyUnclaims \/ ApplyReports
BootActs    == DesktopRestarts \/ SweepReads \/ DaemonRestarts

LEMMA Groups ==
    Next <=> \/ \E a \in Asks : HookActs(a) \/ HostActs(a) \/ TimerActs(a) \/ SweepMarks(a)
             \/ \E d \in Deciders : CallActs(d)
             \/ \E r \in reports : Resolve(r)
             \/ LoopActs \/ ApplyActs \/ BootActs
BY Zenon DEF Next, HookActs, HostActs, CallActs, TimerActs, LoopActs, ApplyActs, BootActs

(* What a call is about, and what the loop is at, is an ask; and no record *)
(* is of more than one.                                                    *)
CallStep == {"idle", "claimed", "over", "queued"}
Call     == [step : CallStep, ask : Asks \cup {None}]
Reports  == [ask : Asks, step : {"sent", "close"}]
Starts   == [desktop : 0..MaxStarts.desktop, daemon : 0..MaxStarts.daemon]

DesktopTypes ==
    /\ hook \in [Asks -> {"none", "held", "answered", "over", "hungup", "dead"}]
    /\ answer \in [Asks -> Who \cup {None}]
    /\ rec \in [Asks -> {"none", "row", "put", "done"}]
    /\ rows \in [Asks -> Row]
    /\ flips \in SUBSET Asks /\ mirrored \in SUBSET Asks
    /\ loop \in {"waiting", "polling"}
    /\ taken \in SUBSET Choice /\ applying \in Apply
    /\ host \in [Asks -> {"none", "claimed", "over", "done"}]
    /\ reports \in SUBSET Reports
    /\ sweep \in (SUBSET Asks) \cup {Due}

DaemonTypes ==
    /\ mirror \in [Asks -> Mirror] /\ pending \in SUBSET Asks
    /\ decided \in [Asks -> Decided]
    /\ calls \in [Deciders -> Call]
    /\ timer \in [Asks -> {"none", "set", "retract", "over"}]
    /\ chain \in [Asks -> SUBSET Deciders] /\ retracted \in [Asks -> SUBSET Deciders]
    /\ unheard \in SUBSET Asks /\ starts \in Starts

(* An idle call is about nothing, an idle loop at nothing; a decision has  *)
(* its decider.                                                            *)
Shapes ==
    /\ \A d \in Deciders : calls[d].step # "idle" => calls[d].ask \in Asks
    /\ applying = Idle \/ (applying.step # "none" /\ applying.ask \in Asks /\ applying.by \in Deciders)
    /\ \A a \in Asks : IF decided[a].step = "none" THEN decided[a] = Undecided
                       ELSE decided[a].by \in Deciders

Types == DesktopTypes /\ DaemonTypes /\ Shapes

LEMMA TypesAreTypeOK == Types => TypeOK
BY DEF Types, TypeOK, DesktopTypes, DaemonTypes, Call, CallStep, Reports, Starts

LEMMA RowTypes ==
    ASSUME NEW r \in Row, NEW b \in Who \cup {None, "swept"}
    PROVE  /\ [state |-> "over", by |-> b] \in Row
           /\ [r EXCEPT !.state = "over"] \in Row /\ [r EXCEPT !.state = "open"] \in Row
           /\ [r EXCEPT !.by = b] \in Row
BY DEF Row

LEMMA MirrorTypes ==
    ASSUME NEW m \in Mirror, NEW b \in Deciders \cup {None}
    PROVE  /\ [state |-> "over", by |-> b] \in Mirror
           /\ [m EXCEPT !.state = "over"] \in Mirror /\ [m EXCEPT !.state = "open"] \in Mirror
           /\ [m EXCEPT !.by = b] \in Mirror
BY DEF Mirror

LEMMA HookTypes ==
    ASSUME Types, NEW a \in Asks, HookActs(a)
    PROVE  Types'
<1> USE DEF deciding, records, relay, audit, Types
<1>1. CASE Ask(a)
    BY <1>1 DEF Ask, DesktopTypes, DaemonTypes, Shapes
<1>2. CASE HookEnds(a)
    <2>1. answer' \in [Asks -> Who \cup {None}]
        BY <1>2 DEF HookEnds, DesktopTypes, Who
    <2>2. reports' \in SUBSET Reports
        BY <1>2 DEF HookEnds, DesktopTypes, Sent, Reports
    <2> QED BY <1>2, <2>1, <2>2 DEF HookEnds, DesktopTypes, DaemonTypes, Shapes
<1>3. CASE HangUp(a)
    BY <1>3 DEF HangUp, DesktopTypes, DaemonTypes, Shapes
<1>4. CASE FlipRow(a)
    <2>1. [rows[a] EXCEPT !.state = "over"] \in Row
        BY RowTypes DEF DesktopTypes
    <2>2. rows' \in [Asks -> Row]
        BY <1>4, <2>1 DEF FlipRow, DesktopTypes
    <2> QED BY <1>4, <2>2 DEF FlipRow, DesktopTypes, DaemonTypes, Shapes
<1>5. CASE WriteRow(a)
    <2>1. [rows[a] EXCEPT !.state = "open"] \in Row
        BY RowTypes DEF DesktopTypes
    <2>2. rows' \in [Asks -> Row]
        BY <1>5, <2>1 DEF WriteRow, DesktopTypes
    <2> QED BY <1>5, <2>2 DEF WriteRow, DesktopTypes, DaemonTypes, Shapes
<1>6. CASE Put(a)
    <2>1. [mirror[a] EXCEPT !.state = "open"] \in Mirror
        BY MirrorTypes DEF DaemonTypes
    <2>2. /\ mirror' \in [Asks -> Mirror] /\ pending' \in SUBSET Asks
          /\ timer' \in [Asks -> {"none", "set", "retract", "over"}]
        BY <1>6, <2>1 DEF Put, Mirrored, DaemonTypes
    <2>3. rec' \in [Asks -> {"none", "row", "put", "done"}] /\ mirrored' \in SUBSET Asks
          /\ loop' \in {"waiting", "polling"}
        BY <1>6 DEF Put, DesktopTypes
    <2> QED BY <1>6, <2>2, <2>3 DEF Put, DesktopTypes, DaemonTypes, Shapes
<1> QED BY <1>1, <1>2, <1>3, <1>4, <1>5, <1>6 DEF HookActs

LEMMA HostTypes ==
    ASSUME Types, NEW a \in Asks, HostActs(a)
    PROVE  Types'
<1> USE DEF deciding, records, relay, audit, Types, HostIs, Answered, Opens, Unclaimed
<1>1. [state |-> "over", by |-> Host] \in Row /\ [rows[a] EXCEPT !.by = None] \in Row
    BY RowTypes DEF DesktopTypes, Who
<1>2. rows' \in [Asks -> Row]
    BY <1>1 DEF HostActs, HostClaims, HostResolves, HostUnclaims, HostAnswers, DesktopTypes
<1>3. /\ hook' \in [Asks -> {"none", "held", "answered", "over", "hungup", "dead"}]
      /\ answer' \in [Asks -> Who \cup {None}]
      /\ host' \in [Asks -> {"none", "claimed", "over", "done"}]
    BY DEF HostActs, HostClaims, HostResolves, HostUnclaims, HostAnswers, DesktopTypes, Who
<1>4. UNCHANGED <<loop, taken, applying, records, reports, relay, audit, starts>>
    BY DEF HostActs, HostClaims, HostResolves, HostUnclaims, HostAnswers
<1> QED BY <1>2, <1>3, <1>4 DEF DesktopTypes, DaemonTypes, Shapes

(* Taking a decision back, and closing a mirror, keep the types.           *)
LEMMA RetractTypes ==
    ASSUME DaemonTypes, Shapes, NEW a \in Asks, Retract(a)
    PROVE  /\ decided' \in [Asks -> Decided] /\ mirror' \in [Asks -> Mirror]
           /\ retracted' \in [Asks -> SUBSET Deciders] /\ unheard' \in SUBSET Asks
           /\ \A b \in Asks : IF decided'[b].step = "none" THEN decided'[b] = Undecided
                              ELSE decided'[b].by \in Deciders
<1>1. Undecided \in Decided /\ Undecided.step = "none"
    BY DEF Undecided, Decided
<1>2. [mirror[a] EXCEPT !.by = None] \in Mirror
    BY MirrorTypes DEF DaemonTypes
<1>3. decided[a].audited => decided[a].by \in Deciders
    BY DEF Shapes, Undecided
<1>4. decided' = [decided EXCEPT ![a] = Undecided]
    BY DEF Retract
<1>5. decided' \in [Asks -> Decided]
    BY <1>1, <1>4 DEF DaemonTypes
<1>6. mirror' \in [Asks -> Mirror]
    BY <1>2 DEF Retract, DaemonTypes
<1>7. retracted' \in [Asks -> SUBSET Deciders]
    BY <1>3 DEF Retract, DaemonTypes
<1>8. \A b \in Asks : decided'[b] = IF b = a THEN Undecided ELSE decided[b]
    BY <1>4 DEF DaemonTypes
<1>9. unheard' \in SUBSET Asks
    BY DEF Retract, DaemonTypes
<1> QED BY <1>1, <1>5, <1>6, <1>7, <1>8, <1>9 DEF Shapes

LEMMA UnreportedTypes ==
    ASSUME DaemonTypes, NEW a \in Asks, Unreported(a)
    PROVE  unheard' \in SUBSET Asks
BY DEF Unreported, DaemonTypes

LEMMA CloseTypes ==
    ASSUME DaemonTypes, NEW a \in Asks, Close(a)
    PROVE  mirror' \in [Asks -> Mirror] /\ pending' \in SUBSET Asks
<1>1. [mirror[a] EXCEPT !.state = "over"] \in Mirror
    BY MirrorTypes DEF DaemonTypes
<1> QED BY <1>1 DEF Close, DaemonTypes

LEMMA CallTypes ==
    ASSUME Types, NEW d \in Deciders, CallActs(d)
    PROVE  Types'
<1> DEFINE b == calls[d].ask
<1> USE DEF Types
<1>1. ASSUME NEW s \in CallStep, NEW x \in Asks \cup {None}, CallIs(d, s, x)
      PROVE  calls' \in [Deciders -> Call] /\ calls'[d].step = s /\ calls'[d].ask = x
             /\ \A e \in Deciders : e # d => calls'[e] = calls[e]
    BY <1>1 DEF CallIs, DaemonTypes, Call
<1>2. calls[d].step # "idle" => b \in Asks
    BY DEF Shapes
<1>3. ASSUME NEW a \in Asks, RemoteClaims(d, a)
      PROVE  Types'
    <2>1. [state |-> "over", by |-> d] \in Mirror
        BY DEF Mirror
    <2>2. mirror' \in [Asks -> Mirror]
        BY <1>3, <2>1 DEF RemoteClaims, DaemonTypes
    <2>3. CallIs(d, "claimed", a)
        BY <1>3 DEF RemoteClaims
    <2>4. /\ calls' \in [Deciders -> Call] /\ calls'[d].ask \in Asks
          /\ \A e \in Deciders : e # d => calls'[e] = calls[e]
        BY <1>1, <2>3 DEF CallStep
    <2>5. UNCHANGED <<hook, answer, rows, deciding, records, reports, pending, decided, timer, audit, starts>>
        BY <1>3 DEF RemoteClaims
    <2>6. DesktopTypes' /\ DaemonTypes'
        BY <2>2, <2>4, <2>5 DEF DesktopTypes, DaemonTypes, deciding, records, audit
    <2> QED BY <2>4, <2>5, <2>6 DEF Shapes, deciding
<1>4. CASE RemoteQueues(d)
    <2>1. b \in Asks
        BY <1>2, <1>4 DEF RemoteQueues
    <2>2. [step |-> "queued", by |-> d, audited |-> FALSE] \in Decided
        BY DEF Decided
    <2>3. decided' \in [Asks -> Decided] /\ pending' \in SUBSET Asks
        BY <1>4, <2>1, <2>2 DEF RemoteQueues, DaemonTypes
    <2>4. CallIs(d, "queued", b) \/ CallIs(d, "over", b)
        BY <1>4 DEF RemoteQueues
    <2>5. /\ calls' \in [Deciders -> Call] /\ calls'[d].ask \in Asks
          /\ \A e \in Deciders : e # d => calls'[e] = calls[e]
        BY <1>1, <2>1, <2>4 DEF CallStep
    <2>6. UNCHANGED <<hook, answer, rows, deciding, records, reports, mirror, timer, audit, starts>>
        BY <1>4 DEF RemoteQueues
    <2>7. DesktopTypes' /\ DaemonTypes'
        BY <2>3, <2>5, <2>6 DEF DesktopTypes, DaemonTypes, deciding, records, audit
    <2>8. \A a \in Asks : decided'[a] = decided[a] \/ (decided'[a].step = "queued" /\ decided'[a].by = d)
        BY <1>4, <2>1 DEF RemoteQueues, DaemonTypes
    <2> QED BY <2>5, <2>6, <2>7, <2>8 DEF Shapes, deciding
<1>5. CASE RemoteUnclaims(d)
    <2>1. b \in Asks
        BY <1>2, <1>5 DEF RemoteUnclaims
    <2>2. [mirror[b] EXCEPT !.by = None] \in Mirror
        BY <2>1, MirrorTypes DEF DaemonTypes
    <2>3. mirror' \in [Asks -> Mirror]
        BY <1>5, <2>2 DEF RemoteUnclaims, DaemonTypes
    <2>4. CallIs(d, "idle", None)
        BY <1>5 DEF RemoteUnclaims
    <2>5. /\ calls' \in [Deciders -> Call] /\ calls'[d].step = "idle"
          /\ \A e \in Deciders : e # d => calls'[e] = calls[e]
        BY <1>1, <2>4 DEF CallStep
    <2>6. UNCHANGED <<hook, answer, rows, deciding, records, reports, pending, decided, timer, audit, starts>>
        BY <1>5 DEF RemoteUnclaims
    <2>7. DesktopTypes' /\ DaemonTypes'
        BY <2>3, <2>5, <2>6 DEF DesktopTypes, DaemonTypes, deciding, records, audit
    <2> QED BY <2>5, <2>6, <2>7 DEF Shapes, deciding
<1>6. CASE AuditDecided(d)
    <2>1. b \in Asks
        BY <1>2, <1>6 DEF AuditDecided
    <2>2. [decided[b] EXCEPT !.audited = TRUE] \in Decided
        BY <2>1 DEF DaemonTypes, Decided
    <2>3. /\ [decided[b] EXCEPT !.audited = TRUE].step = decided[b].step
          /\ [decided[b] EXCEPT !.audited = TRUE].by = decided[b].by
        BY <2>1 DEF DaemonTypes, Decided
    <2>4. \/ decided[b].step # "none" /\ decided' = [decided EXCEPT ![b].audited = TRUE]
          \/ decided' = decided
        BY <1>6 DEF AuditDecided
    <2>5. decided' \in [Asks -> Decided]
        BY <2>2, <2>4 DEF DaemonTypes
    <2>6. chain' \in [Asks -> SUBSET Deciders]
        BY <1>6, <2>1 DEF AuditDecided, DaemonTypes
    <2>7. CallIs(d, "idle", None)
        BY <1>6 DEF AuditDecided
    <2>8. /\ calls' \in [Deciders -> Call] /\ calls'[d].step = "idle"
          /\ \A e \in Deciders : e # d => calls'[e] = calls[e]
        BY <1>1, <2>7 DEF CallStep
    <2>9. UNCHANGED <<hook, answer, rows, deciding, records, reports, mirror, pending, timer, retracted, unheard, starts>>
        BY <1>6 DEF AuditDecided
    <2>10. DesktopTypes' /\ DaemonTypes'
        BY <2>5, <2>6, <2>8, <2>9 DEF DesktopTypes, DaemonTypes, deciding, records
    <2>11. \A a \in Asks : decided'[a] = decided[a] \/
              (decided'[a].step = decided[a].step /\ decided'[a].by = decided[a].by /\ decided[a].step # "none")
        BY <2>1, <2>3, <2>4 DEF DaemonTypes
    <2> QED BY <2>8, <2>9, <2>10, <2>11 DEF Shapes, deciding
<1> QED BY <1>3, <1>4, <1>5, <1>6 DEF CallActs

LEMMA DaemonActTypes ==
    ASSUME Types
    PROVE  /\ \A r \in reports : Resolve(r) => Types'
           /\ \A a \in Asks : TimerActs(a) => Types'
<1> USE DEF Types
<1>1. ASSUME NEW r \in reports, Resolve(r)
      PROVE  Types'
    <2>1. r.ask \in Asks /\ r \in Reports
        BY DEF DesktopTypes, Reports
    <2>2. reports' \in SUBSET Reports
        BY <1>1, <2>1 DEF Resolve, DesktopTypes, Reports
    <2>3. UNCHANGED <<hook, answer, rows, deciding, records, calls, timer, chain, starts>>
        BY <1>1 DEF Resolve
    <2>4. CASE Retract(r.ask) /\ UNCHANGED pending
        <3>1. /\ decided' \in [Asks -> Decided] /\ mirror' \in [Asks -> Mirror]
              /\ retracted' \in [Asks -> SUBSET Deciders] /\ unheard' \in SUBSET Asks
              /\ \A b \in Asks : IF decided'[b].step = "none" THEN decided'[b] = Undecided
                                 ELSE decided'[b].by \in Deciders
            BY <2>1, <2>4, RetractTypes
        <3> QED BY <2>2, <2>3, <2>4, <3>1 DEF DesktopTypes, DaemonTypes, Shapes, deciding, records
    <2>5. CASE Close(r.ask) /\ UNCHANGED <<decided, retracted, unheard>>
        <3>1. mirror' \in [Asks -> Mirror] /\ pending' \in SUBSET Asks
            BY <2>1, <2>5, CloseTypes
        <3> QED BY <2>2, <2>3, <2>5, <3>1 DEF DesktopTypes, DaemonTypes, Shapes, deciding, records
    <2>6. CASE Unreported(r.ask) /\ UNCHANGED <<mirror, pending, decided, retracted>>
        <3>1. unheard' \in SUBSET Asks
            BY <2>1, <2>6, UnreportedTypes
        <3> QED BY <2>2, <2>3, <2>6, <3>1 DEF DesktopTypes, DaemonTypes, Shapes, deciding, records
    <2> QED BY <1>1, <2>4, <2>5, <2>6 DEF Resolve
<1>2. ASSUME NEW a \in Asks, Expire(a)
      PROVE  Types'
    <2>1. mirror' \in [Asks -> Mirror] /\ pending' \in SUBSET Asks
        BY <1>2, CloseTypes DEF Expire, DaemonTypes
    <2>2. timer' \in [Asks -> {"none", "set", "retract", "over"}]
        BY <1>2 DEF Expire, DaemonTypes
    <2> QED BY <1>2, <2>1, <2>2 DEF Expire, DesktopTypes, DaemonTypes, Shapes, deciding, records, audit
<1>3. ASSUME NEW a \in Asks, ExpireRetracts(a)
      PROVE  Types'
    <2>1. /\ decided' \in [Asks -> Decided] /\ mirror' \in [Asks -> Mirror]
          /\ retracted' \in [Asks -> SUBSET Deciders] /\ unheard' \in SUBSET Asks
          /\ \A b \in Asks : IF decided'[b].step = "none" THEN decided'[b] = Undecided
                             ELSE decided'[b].by \in Deciders
        BY <1>3, RetractTypes DEF ExpireRetracts
    <2>2. timer' \in [Asks -> {"none", "set", "retract", "over"}]
        BY <1>3 DEF ExpireRetracts, DaemonTypes
    <2> QED BY <1>3, <2>1, <2>2 DEF ExpireRetracts, DesktopTypes, DaemonTypes, Shapes, deciding, records
<1>4. ASSUME NEW a \in Asks, Forget(a)
      PROVE  Types'
    <2>1. Undecided \in Decided /\ Undecided.step = "none"
        BY DEF Undecided, Decided
    <2>2. decided' \in [Asks -> Decided] /\ \A b \in Asks : decided'[b] \in {Undecided, decided[b]}
        BY <1>4, <2>1 DEF Forget, DaemonTypes
    <2> QED BY <1>4, <2>1, <2>2 DEF Forget, DesktopTypes, DaemonTypes, Shapes, deciding, records, audit
<1> QED BY <1>1, <1>2, <1>3, <1>4 DEF TimerActs

LEMMA LoopTypes ==
    ASSUME Types, LoopActs
    PROVE  Types'
<1> USE DEF Types
<1>1. CASE OtherPoll
    BY <1>1 DEF OtherPoll, DesktopTypes, DaemonTypes, Shapes, records, relay, audit
<1>2. CASE PollEnds
    BY <1>2 DEF PollEnds, DesktopTypes, DaemonTypes, Shapes, records, relay, audit
<1>3. CASE Take
    <2>1. \A a \in Asks : /\ [decided[a] EXCEPT !.step = "delivered"] \in Decided
                          /\ [decided[a] EXCEPT !.step = "delivered"].by = decided[a].by
                          /\ [decided[a] EXCEPT !.step = "delivered"].step = "delivered"
        BY DEF DaemonTypes, Decided
    <2>2. \A a \in Asks : decided'[a] = IF IsQueued(a) THEN [decided[a] EXCEPT !.step = "delivered"]
                                        ELSE decided[a]
        BY <1>3 DEF Take
    <2>3. decided' \in [Asks -> Decided]
        BY <1>3, <2>1 DEF Take, DaemonTypes
    <2>4. \A a \in Asks : IsQueued(a) => decided[a].by \in Deciders
        BY DEF IsQueued, Shapes
    <2>5. taken' \in SUBSET Choice
        BY <1>3, <2>4 DEF Take, Choice, DesktopTypes
    <2>6. \A a \in Asks : IF decided'[a].step = "none" THEN decided'[a] = Undecided
                          ELSE decided'[a].by \in Deciders
        BY <2>1, <2>2, <2>4 DEF Shapes
    <2>7. unheard' \in SUBSET Asks
        BY <1>3 DEF Take, DaemonTypes
    <2> QED BY <1>3, <2>3, <2>5, <2>6, <2>7 DEF Take, DesktopTypes, DaemonTypes, Shapes, records
<1> QED BY <1>1, <1>2, <1>3 DEF LoopActs

LEMMA GoesTypes ==
    ASSUME NEW c, c.ask \in Asks, c.by \in Deciders,
           NEW s \in {"resolve", "unclaim", "report", "close"}, Goes(c, s)
    PROVE  /\ applying' \in Apply /\ applying'.step = s /\ applying'.ask = c.ask /\ applying'.by = c.by
           /\ applying'.step # "none" /\ applying'.ask \in Asks /\ applying'.by \in Deciders
BY DEF Goes, Apply

LEMMA ApplyTypes ==
    ASSUME Types, ApplyActs
    PROVE  Types'
<1> USE DEF Types
<1>1. Idle \in Apply
    BY DEF Idle, Apply
<1>2. applying.step # "none" => applying.ask \in Asks /\ applying.by \in Deciders
    BY DEF Shapes, Idle
<1>3. ASSUME NEW c \in taken, ApplyClaims(c)
      PROVE  Types'
    <2>1. c.ask \in Asks /\ c.by \in Deciders
        BY DEF DesktopTypes, Choice
    <2>2. Goes(c, "resolve") \/ Goes(c, "report") \/ applying' = applying
        BY <1>3 DEF ApplyClaims
    <2>3. /\ applying' \in Apply
          /\ applying' = Idle \/ (applying'.step # "none" /\ applying'.ask \in Asks /\ applying'.by \in Deciders)
        BY <2>1, <2>2, GoesTypes DEF DesktopTypes, Shapes
    <2>6. unheard' \in SUBSET Asks
        BY <1>3, <2>1, UnreportedTypes DEF ApplyClaims, DaemonTypes
    <2>4. [state |-> "over", by |-> c.by] \in Row
        BY <2>1 DEF Row, Who
    <2>5. rows' \in [Asks -> Row] /\ taken' \in SUBSET Choice /\ mirrored' \in SUBSET Asks
        BY <1>3, <2>1, <2>4 DEF ApplyClaims, Opens, DesktopTypes
    <2> QED BY <1>3, <2>3, <2>5, <2>6 DEF ApplyClaims, DesktopTypes, DaemonTypes, Shapes, relay
<1>4. CASE ApplyResolves
    <2>1. applying.ask \in Asks /\ applying.by \in Deciders
        BY <1>2, <1>4 DEF ApplyResolves
    <2>2. applying' = Idle \/ Goes(applying, "unclaim")
        BY <1>4 DEF ApplyResolves, Applied
    <2>3. /\ applying' \in Apply
          /\ applying' = Idle \/ (applying'.step # "none" /\ applying'.ask \in Asks /\ applying'.by \in Deciders)
        BY <1>1, <2>1, <2>2, GoesTypes
    <2>4. /\ hook' \in [Asks -> {"none", "held", "answered", "over", "hungup", "dead"}]
          /\ answer' \in [Asks -> Who \cup {None}]
        BY <1>4, <2>1 DEF ApplyResolves, Answered, DesktopTypes, Who
    <2> QED BY <1>4, <2>3, <2>4 DEF ApplyResolves, DesktopTypes, DaemonTypes, Shapes, records, relay, audit
<1>5. CASE ApplyUnclaims
    <2>1. applying.ask \in Asks /\ applying.by \in Deciders
        BY <1>2, <1>5 DEF ApplyUnclaims
    <2>2. applying' \in Apply /\ applying'.step # "none" /\ applying'.ask \in Asks /\ applying'.by \in Deciders
        BY <1>5, <2>1, GoesTypes DEF ApplyUnclaims
    <2>3. [rows[applying.ask] EXCEPT !.by = None] \in Row
        BY <2>1, RowTypes DEF DesktopTypes
    <2>4. rows' \in [Asks -> Row]
        BY <1>5, <2>3 DEF ApplyUnclaims, Unclaimed, DesktopTypes
    <2> QED BY <1>5, <2>2, <2>4 DEF ApplyUnclaims, DesktopTypes, DaemonTypes, Shapes, records, relay, audit
<1>6. CASE ApplyReports
    <2>1. applying.ask \in Asks /\ applying.by \in Deciders
        BY <1>2, <1>6 DEF ApplyReports
    <2>2. UNCHANGED <<hook, answer, rows, loop, taken, host, records, reports, calls, timer, chain, starts>>
        BY <1>6 DEF ApplyReports
    <2>3. CASE Retract(applying.ask) /\ Goes(applying, "close") /\ UNCHANGED pending
        <3>1. applying' \in Apply /\ applying'.step # "none" /\ applying'.ask \in Asks /\ applying'.by \in Deciders
            BY <2>1, <2>3, GoesTypes
        <3>2. /\ decided' \in [Asks -> Decided] /\ mirror' \in [Asks -> Mirror]
              /\ retracted' \in [Asks -> SUBSET Deciders] /\ unheard' \in SUBSET Asks
              /\ \A b \in Asks : IF decided'[b].step = "none" THEN decided'[b] = Undecided
                                 ELSE decided'[b].by \in Deciders
            BY <2>1, <2>3, RetractTypes
        <3> QED BY <2>2, <2>3, <3>1, <3>2 DEF DesktopTypes, DaemonTypes, Shapes, records
    <2>4. CASE Close(applying.ask) /\ Applied /\ UNCHANGED <<decided, retracted, unheard>>
        <3>1. mirror' \in [Asks -> Mirror] /\ pending' \in SUBSET Asks
            BY <2>1, <2>4, CloseTypes
        <3> QED BY <1>1, <2>2, <2>4, <3>1 DEF DesktopTypes, DaemonTypes, Shapes, records, Applied
    <2>5. CASE Unreported(applying.ask) /\ Applied /\ UNCHANGED <<mirror, pending, decided, retracted>>
        <3>1. unheard' \in SUBSET Asks
            BY <2>1, <2>5, UnreportedTypes
        <3> QED BY <1>1, <2>2, <2>5, <3>1 DEF DesktopTypes, DaemonTypes, Shapes, records, Applied
    <2> QED BY <1>6, <2>3, <2>4, <2>5 DEF ApplyReports
<1> QED BY <1>3, <1>4, <1>5, <1>6 DEF ApplyActs

LEMMA BootTypes ==
    ASSUME Types
    PROVE  /\ BootActs => Types'
           /\ \A a \in Asks : SweepMarks(a) => Types'
<1> USE DEF Types
<1>1. Undecided \in Decided /\ Undecided.step = "none"
    BY DEF Undecided, Decided
<1>2. CASE DesktopRestarts
    <2>1. /\ hook' \in [Asks -> {"none", "held", "answered", "over", "hungup", "dead"}]
          /\ rec' \in [Asks -> {"none", "row", "put", "done"}]
          /\ host' \in [Asks -> {"none", "claimed", "over", "done"}]
        BY <1>2 DEF DesktopRestarts, DesktopTypes
    <2>2. /\ flips' = {} /\ mirrored' = {} /\ loop' = "waiting" /\ taken' = {} /\ applying' = Idle
          /\ sweep' = Due
        BY <1>2 DEF DesktopRestarts
    <2>3. Idle \in Apply /\ reports' \in SUBSET Reports
        BY <1>2 DEF DesktopRestarts, DesktopTypes, Idle, Apply
    <2>4. starts' \in Starts
        BY <1>2, StartsAssumption DEF DesktopRestarts, DaemonTypes, Starts
    <2>5. UNCHANGED <<answer, rows, relay, audit>>
        BY <1>2 DEF DesktopRestarts
    <2>6. DesktopTypes'
        BY <2>1, <2>2, <2>3, <2>5 DEF DesktopTypes
    <2> QED BY <2>2, <2>4, <2>5, <2>6 DEF DaemonTypes, Shapes, relay, audit
<1>3. CASE SweepReads
    <2>1. sweep' \in SUBSET Asks
        BY <1>3 DEF SweepReads
    <2> QED BY <1>3, <2>1 DEF SweepReads, DesktopTypes, DaemonTypes, Shapes, deciding, relay, audit
<1>4. CASE DaemonRestarts
    <2>1. \A a \in Asks : [mirror[a] EXCEPT !.state = "over"] \in Mirror
        BY MirrorTypes DEF DaemonTypes
    <2>2. mirror' \in [Asks -> Mirror]
        BY <1>4, <2>1 DEF DaemonRestarts, DaemonTypes
    <2>3. /\ pending' = {} /\ decided' = [a \in Asks |-> Undecided]
          /\ timer' \in [Asks -> {"none", "set", "retract", "over"}]
        BY <1>4 DEF DaemonRestarts, DaemonTypes
    <2>4. calls' = [d \in Deciders |-> [step |-> "idle", ask |-> None]]
        BY <1>4 DEF DaemonRestarts
    <2>5. calls' \in [Deciders -> Call] /\ \A d \in Deciders : calls'[d].step = "idle"
        BY <2>4 DEF Call, CallStep
    <2>6. starts' \in Starts
        BY <1>4, StartsAssumption DEF DaemonRestarts, DaemonTypes, Starts
    <2>7. reports' \in SUBSET Reports /\ UNCHANGED <<hook, answer, rows, deciding, records, audit>>
        BY <1>4 DEF DaemonRestarts, DesktopTypes
    <2>8. DesktopTypes'
        BY <2>7 DEF DesktopTypes, deciding, records
    <2>9. DaemonTypes'
        BY <1>1, <2>2, <2>3, <2>5, <2>6, <2>7 DEF DaemonTypes, audit
    <2> QED BY <1>1, <2>3, <2>5, <2>7, <2>8, <2>9 DEF Shapes, deciding
<1>5. ASSUME NEW a \in Asks, SweepMarks(a)
      PROVE  Types'
    <2>1. [state |-> "over", by |-> "swept"] \in Row
        BY DEF Row
    <2>2. rows' \in [Asks -> Row]
        BY <1>5, <2>1 DEF SweepMarks, Opens, DesktopTypes
    <2>3. reports' \in SUBSET Reports
        BY <1>5 DEF SweepMarks, Sent, DesktopTypes, Reports
    <2>4. sweep' \in (SUBSET Asks) \cup {Due}
        BY <1>5 DEF SweepMarks, DesktopTypes
    <2> QED BY <1>5, <2>2, <2>3, <2>4 DEF SweepMarks, DesktopTypes, DaemonTypes, Shapes, deciding, relay, audit
<1> QED BY <1>2, <1>3, <1>4, <1>5 DEF BootActs

LEMMA TypesStep == Types /\ [Next]_vars => Types'
<1> SUFFICES ASSUME Types, [Next]_vars PROVE Types'
    OBVIOUS
<1>1. CASE UNCHANGED vars
    BY <1>1 DEF vars, Types, DesktopTypes, DaemonTypes, Shapes, deciding, records, relay, audit
<1>2. CASE Next
    BY <1>2, Groups, HookTypes, HostTypes, CallTypes, DaemonActTypes, LoopTypes, ApplyTypes, BootTypes
<1> QED BY <1>1, <1>2

LEMMA TypesInit == Init => Types
<1> SUFFICES ASSUME Init PROVE Types
    OBVIOUS
<1>1. Undecided \in Decided /\ Undecided.step = "none" /\ Idle \in Apply
    BY DEF Undecided, Decided, Idle, Apply
<1>2. DesktopTypes
    BY <1>1 DEF Init, DesktopTypes, Row
<1>3. starts \in Starts
    BY StartsAssumption DEF Init, Starts
<1>4. DaemonTypes
    BY <1>1, <1>3 DEF Init, DaemonTypes, Mirror, Call, CallStep
<1> QED BY <1>1, <1>2, <1>4 DEF Init, Types, Shapes

(* Every variable keeps its type.                                          *)
THEOREM RelayTypeCorrect == Spec => []TypeOK
<1>1. Spec => []Types
    BY TypesInit, TypesStep, PTL DEF Spec
<1> QED BY <1>1, TypesAreTypeOK, PTL

-----------------------------------------------------------------------------
(* Who the desktop's row names: nobody while it is open; then whoever       *)
(* holds the claim, and one at most does.  While the desktop is up that is  *)
(* the one that answered, once the claim is let go.                        *)
Claims(a) == applying.ask = a /\ applying.step \in {"resolve", "unclaim"}
Up        == starts.desktop = 0

RowOf(a) ==
    /\ hook[a] = "none" => rec[a] = "none"
    /\ hook[a] \in {"none", "held", "hungup"} => answer[a] = None
    /\ answer[a] \in Deciders => rows[a].state = "over"
    /\ rec[a] \in {"none", "row"} => rows[a].state = "none"
    /\ rows[a].state \in {"none", "open"} => rows[a].by = None
    /\ host[a] \in {"claimed", "over"} => rows[a].state = "over" /\ rows[a].by = Host
    /\ Claims(a) => rows[a].state = "over" /\ rows[a].by = applying.by
    /\ Up => rows[a].by \in {None, answer[a]} \/ host[a] \in {"claimed", "over"} \/ Claims(a)

RowInv == (Up => sweep = {}) /\ \A a \in Asks : RowOf(a)

(* What RowOf speaks of.                                                   *)
rowVars == <<hook, answer, rec, rows, host, applying>>

LEMMA StaysUp ==
    ASSUME Types, [Next]_vars, Up'
    PROVE  Up /\ ~DesktopRestarts
<1>1. ~DesktopRestarts
    BY DEF DesktopRestarts, Types, DaemonTypes, Starts, Up
<1>2. UNCHANGED starts \/ DaemonRestarts
    BY <1>1 DEF Next, vars, Ask, HookEnds, HangUp, FlipRow, WriteRow, Put, HostClaims, HostResolves,
       HostUnclaims, HostAnswers, Expire, ExpireRetracts, Forget, SweepMarks, RemoteQueues,
       RemoteUnclaims, AuditDecided, RemoteClaims, Resolve, ApplyClaims, OtherPoll, PollEnds, Take,
       ApplyResolves, ApplyUnclaims, ApplyReports, SweepReads
<1> QED BY <1>1, <1>2 DEF DaemonRestarts, Up, Types, DaemonTypes, Starts

LEMMA RowQuiet ==
    ASSUME NEW b \in Asks, RowOf(b), UNCHANGED rowVars, Up' => Up
    PROVE  RowOf(b)'
BY DEF RowOf, Claims, rowVars

(* A row that is given a state or a name is changed in nothing else.        *)
LEMMA RowFields ==
    ASSUME rows \in [Asks -> Row], NEW a \in Asks, NEW v
    PROVE  /\ [rows EXCEPT ![a].state = v][a].state = v
           /\ [rows EXCEPT ![a].state = v][a].by = rows[a].by
           /\ [rows EXCEPT ![a].by = v][a].by = v
           /\ [rows EXCEPT ![a].by = v][a].state = rows[a].state
           /\ \A b \in Asks \ {a} : /\ [rows EXCEPT ![a].state = v][b] = rows[b]
                                    /\ [rows EXCEPT ![a].by = v][b] = rows[b]
BY DEF Row

LEMMA RowHook ==
    ASSUME Types, NEW a \in Asks, HookActs(a), NEW b \in Asks, RowOf(b),
           Up' => Up
    PROVE  RowOf(b)'
<1> USE DEF Types, deciding, records, relay, audit, RowOf, Claims
<1>1. CASE Ask(a)
    BY <1>1 DEF Ask, DesktopTypes
<1>2. CASE HookEnds(a)
    BY <1>2, NamesAssumption DEF HookEnds, DesktopTypes
<1>3. CASE HangUp(a)
    BY <1>3 DEF HangUp, DesktopTypes
<1>4. CASE FlipRow(a)
    <2>1. rows' = [rows EXCEPT ![a].state = "over"] \/ rows' = rows
        BY <1>4 DEF FlipRow
    <2>2. /\ rows'[b].by = rows[b].by
          /\ rows'[b].state = rows[b].state \/ (rows[b].state = "open" /\ rows'[b].state = "over")
        BY <1>4, <2>1, RowFields DEF FlipRow, DesktopTypes
    <2> QED BY <1>4, <2>2 DEF FlipRow
<1>5. CASE WriteRow(a)
    <2>1. rows' = [rows EXCEPT ![a].state = "open"]
        BY <1>5 DEF WriteRow
    <2>2. /\ rows'[b].by = rows[b].by
          /\ b = a => rows'[b].state = "open"
          /\ b # a => rows'[b] = rows[b]
        BY <2>1, RowFields DEF DesktopTypes
    <2> QED BY <1>5, <2>2 DEF WriteRow, DesktopTypes
<1>6. CASE Put(a)
    BY <1>6 DEF Put, DesktopTypes
<1> QED BY <1>1, <1>2, <1>3, <1>4, <1>5, <1>6 DEF HookActs

LEMMA RowHost ==
    ASSUME Types, NEW a \in Asks, HostActs(a), NEW b \in Asks, RowOf(b),
           Up' => Up
    PROVE  RowOf(b)'
<1> USE DEF Types, deciding, records, RowOf, Claims, HostIs, Answered
<1>1. Claims(b) => applying.by \in Deciders
    BY DEF Shapes, Idle
<1>2. CASE HostClaims(a)
    <2>1. rows[a].state = "open" /\ rows' = [rows EXCEPT ![a] = [state |-> "over", by |-> Host]]
        BY <1>2 DEF HostClaims, Opens
    <2>2. /\ b = a => rows'[b].state = "over" /\ rows'[b].by = Host
          /\ b # a => rows'[b] = rows[b]
        BY <2>1 DEF DesktopTypes
    <2> QED BY <1>2, <2>1, <2>2, NamesAssumption DEF HostClaims, DesktopTypes
<1>3. CASE HostResolves(a)
    BY <1>3, NamesAssumption DEF HostResolves, DesktopTypes
<1>4. CASE HostUnclaims(a)
    <2>1. rows' = [rows EXCEPT ![a].by = None]
        BY <1>4 DEF HostUnclaims, Unclaimed
    <2>2. /\ b = a => rows'[b].by = None /\ rows'[b].state = rows[b].state
          /\ b # a => rows'[b] = rows[b]
        BY <2>1, RowFields DEF DesktopTypes
    <2> QED BY <1>1, <1>4, <2>2, NamesAssumption DEF HostUnclaims, DesktopTypes
<1>5. CASE HostAnswers(a)
    BY <1>5, NamesAssumption DEF HostAnswers, DesktopTypes
<1> QED BY <1>2, <1>3, <1>4, <1>5 DEF HostActs

LEMMA RowApply ==
    ASSUME Types, ApplyActs, NEW b \in Asks, RowOf(b),
           Up' => Up
    PROVE  RowOf(b)'
<1> USE DEF Types, records, RowOf, Claims, Goes, Applied, Answered
<1>1. applying.step # "none" => applying.ask \in Asks /\ applying.by \in Deciders
    BY DEF Shapes, Idle
<1>2. Idle.step = "none"
    BY DEF Idle
<1>3. ASSUME NEW c \in taken, ApplyClaims(c)
      PROVE  RowOf(b)'
    <2>1. c.ask \in Asks /\ c.by \in Deciders /\ applying = Idle
        BY <1>3 DEF DesktopTypes, Choice, ApplyClaims
    <2>2. UNCHANGED <<hook, answer, rec, host>>
        BY <1>3 DEF ApplyClaims
    <2>3. CASE Opens(c.ask, c.by) /\ Goes(c, "resolve")
        <3>1. /\ rows[c.ask].state = "open"
              /\ b = c.ask => rows'[b].state = "over" /\ rows'[b].by = c.by
              /\ b # c.ask => rows'[b] = rows[b]
            BY <2>1, <2>3 DEF Opens, DesktopTypes
        <3>2. applying'.step = "resolve" /\ applying'.ask = c.ask /\ applying'.by = c.by
            BY <2>3
        <3> QED BY <1>2, <2>1, <2>2, <3>1, <3>2, NamesAssumption DEF DesktopTypes
    <2>4. CASE rows' = rows /\ Goes(c, "report")
        <3>1. applying'.step = "report"
            BY <2>4
        <3> QED BY <1>2, <2>1, <2>2, <2>4, <3>1
    <2> QED BY <1>3, <2>3, <2>4 DEF ApplyClaims
<1>4. CASE ApplyResolves
    <2>1. applying.ask \in Asks /\ applying.by \in Deciders /\ applying.step = "resolve"
        BY <1>1, <1>4 DEF ApplyResolves
    <2>2. UNCHANGED <<rec, rows, host>>
        BY <1>4 DEF ApplyResolves, deciding
    <2>3. CASE Answered(applying.ask, applying.by) /\ Applied
        BY <1>2, <2>1, <2>2, <2>3, NamesAssumption DEF DesktopTypes
    <2>4. CASE Goes(applying, "unclaim") /\ UNCHANGED <<hook, answer>>
        <3>1. applying'.step = "unclaim" /\ applying'.ask = applying.ask /\ applying'.by = applying.by
            BY <2>4
        <3> QED BY <2>1, <2>2, <2>4, <3>1
    <2> QED BY <1>4, <2>3, <2>4 DEF ApplyResolves
<1>5. CASE ApplyUnclaims
    <2>1. applying.ask \in Asks /\ applying.by \in Deciders /\ applying.step = "unclaim"
        BY <1>1, <1>5 DEF ApplyUnclaims
    <2>2. UNCHANGED <<hook, answer, rec, host>> /\ applying'.step = "report"
        BY <1>5 DEF ApplyUnclaims
    <2>3. rows' = [rows EXCEPT ![applying.ask].by = None]
        BY <1>5 DEF ApplyUnclaims, Unclaimed
    <2>4. /\ b = applying.ask => rows'[b].by = None /\ rows'[b].state = rows[b].state
          /\ b # applying.ask => rows'[b] = rows[b]
        BY <2>1, <2>3, RowFields DEF DesktopTypes
    <2> QED BY <2>1, <2>2, <2>4, NamesAssumption
<1>6. CASE ApplyReports
    <2>1. UNCHANGED <<hook, answer, rec, rows, host>>
        BY <1>6 DEF ApplyReports
    <2>2. applying.step \in {"report", "close"} /\ applying'.step \in {"close", "none"}
        BY <1>2, <1>6 DEF ApplyReports
    <2> QED BY <2>1, <2>2
<1> QED BY <1>3, <1>4, <1>5, <1>6 DEF ApplyActs

LEMMA RowBoot ==
    ASSUME Types, NEW b \in Asks, RowOf(b), Up' => Up,
           DesktopRestarts \/ \E a \in Asks : SweepMarks(a) /\ ~Up
    PROVE  RowOf(b)'
<1> USE DEF Types, RowOf, Claims
<1>1. CASE DesktopRestarts
    <2>1. ~Up' /\ applying' = Idle /\ Idle.step = "none" /\ UNCHANGED <<answer, rows>>
        BY <1>1 DEF DesktopRestarts, Up, DaemonTypes, Starts, Idle
    <2>2. hook'[b] = IF hook[b] \in {"none", "over"} THEN hook[b] ELSE "dead"
        BY <1>1 DEF DesktopRestarts
    <2>3. rec'[b] = (IF rec[b] = "none" THEN "none" ELSE "done")
          /\ host'[b] = (IF host[b] = "none" THEN "none" ELSE "done")
        BY <1>1 DEF DesktopRestarts
    <2> QED BY <2>1, <2>2, <2>3
<1>2. ASSUME NEW a \in Asks, SweepMarks(a), ~Up
      PROVE  RowOf(b)'
    <2>1. UNCHANGED <<hook, answer, rec, host, applying>> /\ ~Up'
        BY <1>2 DEF SweepMarks, deciding
    <2>2. CASE Opens(a, "swept")
        <3>1. /\ rows[a].state = "open"
              /\ b = a => rows'[b].state = "over" /\ rows'[b].by = "swept"
              /\ b # a => rows'[b] = rows[b]
            BY <2>2 DEF Opens, DesktopTypes
        <3> QED BY <2>1, <3>1
    <2>3. CASE rows' = rows
        BY <2>1, <2>3
    <2> QED BY <1>2, <2>2, <2>3 DEF SweepMarks
<1> QED BY <1>1, <1>2

LEMMA RowStep == Types /\ RowInv /\ [Next]_vars => RowInv'
<1> SUFFICES ASSUME Types, RowInv, [Next]_vars
             PROVE  (Up' => sweep' = {}) /\ \A b \in Asks : RowOf(b)'
    BY DEF RowInv
<1>1. Up' => Up /\ ~DesktopRestarts
    BY StaysUp
<1>2. (Up => sweep = {}) /\ \A b \in Asks : RowOf(b)
    BY DEF RowInv
<1>3. CASE UNCHANGED vars
    BY <1>1, <1>2, <1>3, RowQuiet DEF vars, rowVars, deciding, records
<1>4. ASSUME NEW a \in Asks, HookActs(a)
      PROVE  sweep' = sweep /\ \A b \in Asks : RowOf(b)'
    <2>1. sweep' = sweep
        BY <1>4 DEF HookActs, Ask, HookEnds, HangUp, FlipRow, WriteRow, Put, records
    <2> QED BY <1>1, <1>2, <1>4, <2>1, RowHook
<1>5. ASSUME NEW a \in Asks, HostActs(a)
      PROVE  sweep' = sweep /\ \A b \in Asks : RowOf(b)'
    <2>1. sweep' = sweep
        BY <1>5 DEF HostActs, HostClaims, HostResolves, HostUnclaims, HostAnswers, records
    <2> QED BY <1>1, <1>2, <1>5, <2>1, RowHost
<1>6. CASE ApplyActs
    <2>1. sweep' = sweep
        BY <1>6 DEF ApplyActs, ApplyClaims, ApplyResolves, ApplyUnclaims, ApplyReports, records
    <2> QED BY <1>1, <1>2, <1>6, <2>1, RowApply
<1>7. ASSUME \/ \E a \in Asks : TimerActs(a)
             \/ \E d \in Deciders : CallActs(d)
             \/ \E r \in reports : Resolve(r)
             \/ LoopActs \/ DaemonRestarts
      PROVE  sweep' = sweep /\ \A b \in Asks : RowOf(b)'
    <2>1. sweep' = sweep /\ UNCHANGED rowVars
        BY <1>7 DEF TimerActs, CallActs, LoopActs, Expire, ExpireRetracts, Forget, RemoteClaims,
           RemoteQueues, RemoteUnclaims, AuditDecided, Resolve, OtherPoll, PollEnds, Take,
           DaemonRestarts, rowVars, deciding, records
    <2> QED BY <1>1, <1>2, <2>1, RowQuiet
<1>8. CASE SweepReads
    <2>1. ~Up /\ UNCHANGED rowVars
        BY <1>2, <1>8 DEF SweepReads, Due, rowVars, deciding
    <2> QED BY <1>1, <1>2, <2>1, RowQuiet
<1>9. ASSUME NEW a \in Asks, SweepMarks(a)
      PROVE  ~Up' /\ \A b \in Asks : RowOf(b)'
    <2>1. ~Up
        BY <1>2, <1>9 DEF SweepMarks
    <2> QED BY <1>1, <1>2, <1>9, <2>1, RowBoot
<1>10. CASE DesktopRestarts
    BY <1>1, <1>2, <1>10, RowBoot
<1> QED BY <1>1, <1>2, <1>3, <1>4, <1>5, <1>6, <1>7, <1>8, <1>9, <1>10, Groups DEF BootActs, vars, records

LEMMA RowInit == Init => RowInv
BY NamesAssumption DEF Init, RowInv, RowOf, Claims, Idle

(* While the desktop is up its row names who answered the hook, once the    *)
(* one that claimed it is through.                                         *)
THEOREM RowNamesTheAnswer == Spec => []RowIsTrue
<1>1. Spec => [](Types /\ RowInv)
    BY TypesInit, TypesStep, RowInit, RowStep, PTL DEF Spec
<1>2. Types /\ RowInv => RowIsTrue
    <2> SUFFICES ASSUME Types, RowInv, NEW a \in Asks
                 PROVE  \/ rows[a].by \in {None, "swept", answer[a]}
                        \/ host[a] \in {"claimed", "over"} \/ applying.ask = a \/ starts.desktop > 0
        BY DEF RowIsTrue
    <2>1. CASE Up
        BY <2>1 DEF RowInv, RowOf, Claims
    <2>2. CASE ~Up
        BY <2>2, StartsAssumption DEF Up, Types, DaemonTypes, Starts
    <2> QED BY <2>1, <2>2
<1> QED BY <1>1, <1>2, PTL

-----------------------------------------------------------------------------
(* The daemon, until it restarts.  An ask is claimed once, since a mirror   *)
(* is opened once; a decision of it is audited by the call that queued it,  *)
(* and the chain and the mirror name the same one, or the chain took it     *)
(* back.                                                                   *)
InHand == {"resolve", "unclaim", "report"}
Holding == {"claimed", "over"}

TakenBy(a, b) ==
    \/ [ask |-> a, by |-> b] \in taken
    \/ applying.ask = a /\ applying.by = b /\ applying.step \in InHand

IsAt(d, s, a) == calls[d].ask = a /\ calls[d].step \in s

Fresh(a) ==
    /\ decided[a] = Undecided /\ chain[a] = {} /\ retracted[a] = {}
    /\ \A b \in Deciders : ~TakenBy(a, b)

(* A call that queued a decision: nothing is in the chain yet.             *)
Queuing(d, a) ==
    /\ chain[a] = {} /\ retracted[a] = {}
    /\ IF decided[a].step = "none" THEN mirror[a].by = None
       ELSE decided[a].by = d /\ ~decided[a].audited

Standing(a) ==
    /\ mirror[a].by = decided[a].by /\ retracted[a] = {}
    /\ IF decided[a].audited THEN chain[a] = {decided[a].by}
       ELSE chain[a] = {} /\ IsAt(decided[a].by, {"queued"}, a)

Settled(a) ==
    \/ /\ chain[a] = {} /\ retracted[a] = {}
       /\ mirror[a].by # None => IsAt(mirror[a].by, Holding, a)
    \/ chain[a] = retracted[a] /\ mirror[a].by = None
    \/ chain[a] = {mirror[a].by} /\ retracted[a] = {} /\ mirror[a].by # None

CoreOf(a) ==
    /\ rec[a] # "done" => mirror[a].state = "none"
    /\ mirror[a].state \in {"none", "open"} =>
          mirror[a].by = None /\ Fresh(a) /\ \A d \in Deciders : calls[d].ask # a
    /\ a \in pending => Fresh(a) /\ \A d \in Deciders : ~IsAt(d, {"queued", "over"}, a)
    /\ \A d \in Deciders : IsAt(d, Holding, a) => mirror[a].by = d /\ Fresh(a)
    /\ \A d \in Deciders : IsAt(d, {"queued"}, a) => Queuing(d, a)
    /\ \A d, e \in Deciders : calls[d].ask = a /\ calls[e].ask = a => d = e
    /\ IF decided[a].step = "none" THEN Settled(a) ELSE Standing(a)
    /\ \A b \in Deciders : TakenBy(a, b) =>
          /\ decided[a].step # "queued"
          /\ decided[a].step = "delivered" => decided[a].by = b

IdleCalls == \A d \in Deciders : calls[d].step = "idle" => calls[d].ask = None
DaemonUp  == starts.daemon = 0
Core      == IdleCalls /\ (DaemonUp => \A a \in Asks : CoreOf(a))

(* What is in hand does not grow.                                          *)
HandShrinks(a) == \A b \in Deciders : TakenBy(a, b)' => TakenBy(a, b)

CallsBeside(a) ==
    \A d \in Deciders : calls'[d] = calls[d] \/ (calls[d].ask # a /\ calls'[d].ask # a)

(* An ask that a step is not about.                                        *)
LEMMA CoreSame ==
    ASSUME NEW a \in Asks, CoreOf(a), HandShrinks(a), CallsBeside(a),
           rec'[a] # "done" => rec[a] # "done", a \in pending' => a \in pending,
           mirror'[a] = mirror[a], decided'[a] = decided[a],
           chain'[a] = chain[a], retracted'[a] = retracted[a],
           mirror[a].by \in Deciders \cup {None},
           decided[a].step # "none" => decided[a].by \in Deciders
    PROVE  CoreOf(a)'
<1>1. \A d \in Deciders : /\ IsAt(d, Holding, a)' <=> IsAt(d, Holding, a)
                          /\ IsAt(d, {"queued"}, a)' <=> IsAt(d, {"queued"}, a)
                          /\ IsAt(d, {"queued", "over"}, a)' <=> IsAt(d, {"queued", "over"}, a)
    BY DEF CallsBeside, IsAt
<1>2. \A d \in Deciders : calls'[d].ask = a <=> calls[d].ask = a
    BY DEF CallsBeside
<1>3. Fresh(a) => Fresh(a)'
    BY DEF Fresh, HandShrinks
<1>4. \A d \in Deciders : Queuing(d, a) => Queuing(d, a)'
    BY DEF Queuing
<1>5. Standing(a) /\ decided[a].step # "none" => Standing(a)'
    BY <1>1 DEF Standing
<1>6. Settled(a) => Settled(a)'
    BY <1>1 DEF Settled
<1> QED BY <1>1, <1>2, <1>3, <1>4, <1>5, <1>6 DEF CoreOf, HandShrinks

(* What a call is changed to, and what of a decision is.                    *)
LEMMA CallFields ==
    ASSUME Types, NEW d \in Deciders, NEW s, NEW x, CallIs(d, s, x)
    PROVE  /\ calls'[d].step = s /\ calls'[d].ask = x
           /\ \A e \in Deciders : e # d => calls'[e] = calls[e]
BY DEF CallIs, Types, DaemonTypes, Call

LEMMA RetractFields ==
    ASSUME Types, NEW a \in Asks, Retract(a)
    PROVE  /\ decided'[a] = Undecided
           /\ mirror'[a].state = mirror[a].state
           /\ mirror'[a].by = IF decided[a].step # "none" THEN None ELSE mirror[a].by
           /\ retracted'[a] = IF decided[a].audited THEN retracted[a] \cup {decided[a].by}
                              ELSE retracted[a]
           /\ \A b \in Asks \ {a} : /\ decided'[b] = decided[b] /\ mirror'[b] = mirror[b]
                                    /\ retracted'[b] = retracted[b]
<1>1. decided' = [decided EXCEPT ![a] = Undecided]
    BY DEF Retract
<1>2. mirror' = IF decided[a].step # "none" THEN [mirror EXCEPT ![a].by = None] ELSE mirror
    BY DEF Retract
<1>3. /\ [mirror EXCEPT ![a].by = None][a].by = None
      /\ [mirror EXCEPT ![a].by = None][a].state = mirror[a].state
      /\ \A b \in Asks \ {a} : [mirror EXCEPT ![a].by = None][b] = mirror[b]
    BY DEF Types, DaemonTypes, Mirror
<1>4. retracted' = IF decided[a].audited THEN [retracted EXCEPT ![a] = @ \cup {decided[a].by}]
                   ELSE retracted
    BY DEF Retract
<1>5. decided'[a] = Undecided /\ \A b \in Asks \ {a} : decided'[b] = decided[b]
    BY <1>1 DEF Types, DaemonTypes
<1>6. /\ mirror'[a].state = mirror[a].state
      /\ mirror'[a].by = IF decided[a].step # "none" THEN None ELSE mirror[a].by
      /\ \A b \in Asks \ {a} : mirror'[b] = mirror[b]
    BY <1>2, <1>3
<1>7. /\ retracted'[a] = IF decided[a].audited THEN retracted[a] \cup {decided[a].by}
                         ELSE retracted[a]
      /\ \A b \in Asks \ {a} : retracted'[b] = retracted[b]
    BY <1>4 DEF Types, DaemonTypes
<1> QED BY <1>5, <1>6, <1>7

LEMMA CloseFields ==
    ASSUME Types, NEW a \in Asks, Close(a)
    PROVE  /\ pending' = pending \ {a} /\ mirror'[a].by = mirror[a].by
           /\ mirror'[a].state = IF mirror[a].state = "open" THEN "over" ELSE mirror[a].state
           /\ \A b \in Asks \ {a} : mirror'[b] = mirror[b]
<1>1. /\ [mirror EXCEPT ![a].state = "over"][a].state = "over"
      /\ [mirror EXCEPT ![a].state = "over"][a].by = mirror[a].by
      /\ \A b \in Asks \ {a} : [mirror EXCEPT ![a].state = "over"][b] = mirror[b]
    BY DEF Types, DaemonTypes, Mirror
<1>2. mirror' = IF mirror[a].state = "open" THEN [mirror EXCEPT ![a].state = "over"] ELSE mirror
    BY DEF Close
<1> QED BY <1>1, <1>2 DEF Close

(* What the types say of one ask, in this state and in the next.           *)
LEMMA CoreShapes ==
    ASSUME Types, NEW a \in Asks
    PROVE  /\ mirror[a].by \in Deciders \cup {None} /\ mirror[a].state \in {"none", "open", "over"}
           /\ decided[a].step \in {"none", "queued", "delivered"} /\ decided[a].audited \in BOOLEAN
           /\ IF decided[a].step = "none" THEN decided[a] = Undecided ELSE decided[a].by \in Deciders
           /\ rec[a] \in {"none", "row", "put", "done"}
           /\ chain[a] \in SUBSET Deciders /\ retracted[a] \in SUBSET Deciders
           /\ Undecided.step = "none" /\ ~Undecided.audited /\ None \notin Deciders
BY NamesAssumption DEF Types, DesktopTypes, DaemonTypes, Shapes, Mirror, Decided, Undecided

(* A decision taken back, and a mirror closed, by whoever does it.          *)
LEMMA RetractCore ==
    ASSUME Types, NEW a \in Asks, Retract(a), NEW b \in Asks, CoreOf(b), HandShrinks(b),
           UNCHANGED <<rec, pending, calls, chain>>
    PROVE  CoreOf(b)'
<1>0. CallsBeside(b)
    BY DEF CallsBeside
<1>1. CASE b # a
    <2>1. decided'[b] = decided[b] /\ mirror'[b] = mirror[b] /\ retracted'[b] = retracted[b]
        BY <1>1, RetractFields
    <2>2. /\ mirror[b].by \in Deciders \cup {None}
          /\ decided[b].step # "none" => decided[b].by \in Deciders
        BY CoreShapes
    <2> QED BY <1>0, <2>1, <2>2, CoreSame
<1>2. CASE b = a
    <2>1. /\ decided'[a] = Undecided /\ mirror'[a].state = mirror[a].state
          /\ mirror'[a].by = IF decided[a].step # "none" THEN None ELSE mirror[a].by
          /\ retracted'[a] = IF decided[a].audited THEN retracted[a] \cup {decided[a].by}
                             ELSE retracted[a]
        BY RetractFields
    <2>2. decided[a].step = "none" => decided'[a] = decided[a] /\ mirror'[a].by = mirror[a].by
                                      /\ retracted'[a] = retracted[a]
        BY <2>1, CoreShapes
    <2>3. Fresh(a) => decided[a].step = "none"
        BY CoreShapes DEF Fresh
    <2>4. Fresh(a) => Fresh(a)'
        BY <1>2, <2>2, <2>3 DEF Fresh, HandShrinks
    <2>5. \A d \in Deciders : /\ IsAt(d, Holding, a)' <=> IsAt(d, Holding, a)
                              /\ IsAt(d, {"queued"}, a)' <=> IsAt(d, {"queued"}, a)
                              /\ IsAt(d, {"queued", "over"}, a)' <=> IsAt(d, {"queued", "over"}, a)
        BY DEF IsAt
    <2>6. decided'[a].step = "none"
        BY <2>1, CoreShapes
    <2>7. \A d \in Deciders : Queuing(d, a) => Queuing(d, a)'
        BY <2>1, <2>2, <2>6, CoreShapes DEF Queuing
    <2>8. Settled(a)'
        <3>1. CASE decided[a].step = "none"
            BY <1>2, <2>2, <2>5, <3>1, CoreShapes DEF CoreOf, Settled
        <3>2. CASE decided[a].step # "none"
            <4>1. Standing(a)
                BY <1>2, <3>2 DEF CoreOf
            <4> QED BY <2>1, <3>2, <4>1, CoreShapes DEF Standing, Settled
        <3> QED BY <3>1, <3>2
    <2> QED BY <1>2, <2>1, <2>2, <2>3, <2>4, <2>5, <2>6, <2>7, <2>8 DEF CoreOf, HandShrinks
<1> QED BY <1>1, <1>2

LEMMA CloseCore ==
    ASSUME Types, NEW a \in Asks, Close(a), NEW b \in Asks, CoreOf(b), HandShrinks(b),
           UNCHANGED <<rec, calls, decided, chain, retracted>>
    PROVE  CoreOf(b)'
<1>0. CallsBeside(b)
    BY DEF CallsBeside
<1>1. CASE b # a
    BY <1>0, <1>1, CloseFields, CoreSame, CoreShapes
<1>2. CASE b = a
    <2>1. /\ a \notin pending' /\ mirror'[a].by = mirror[a].by
          /\ mirror'[a].state = IF mirror[a].state = "open" THEN "over" ELSE mirror[a].state
        BY CloseFields
    <2>2. Fresh(a) => Fresh(a)'
        BY <1>2 DEF Fresh, HandShrinks
    <2>3. \A d \in Deciders : /\ IsAt(d, Holding, a)' <=> IsAt(d, Holding, a)
                              /\ IsAt(d, {"queued"}, a)' <=> IsAt(d, {"queued"}, a)
        BY DEF IsAt
    <2>4. \A d \in Deciders : Queuing(d, a) => Queuing(d, a)'
        BY <2>1 DEF Queuing
    <2>5. (Settled(a) => Settled(a)') /\ (Standing(a) => Standing(a)')
        BY <2>1, <2>3, CoreShapes DEF Settled, Standing, IsAt
    <2> QED BY <1>2, <2>1, <2>2, <2>3, <2>4, <2>5 DEF CoreOf, HandShrinks
<1> QED BY <1>1, <1>2

(* The steps that leave the daemon as it is, and what is in hand no larger. *)
DaemonQuiet == UNCHANGED <<mirror, pending, decided, calls, chain, retracted>>

LEMMA QuietCore ==
    ASSUME Types, NEW b \in Asks, CoreOf(b), DaemonQuiet, HandShrinks(b),
           rec'[b] # "done" => rec[b] # "done"
    PROVE  CoreOf(b)'
<1>1. CallsBeside(b)
    BY DEF CallsBeside, DaemonQuiet
<1>2. /\ mirror[b].by \in Deciders \cup {None}
      /\ decided[b].step # "none" => decided[b].by \in Deciders
    BY CoreShapes
<1> QED BY <1>1, <1>2, CoreSame DEF DaemonQuiet

LEMMA HookCore ==
    ASSUME Types, NEW a \in Asks, HookActs(a), NEW b \in Asks, CoreOf(b), RowOf(b)
    PROVE  CoreOf(b)'
<1> USE DEF Types
<1>1. UNCHANGED <<taken, applying>>
    BY DEF HookActs, Ask, HookEnds, HangUp, FlipRow, WriteRow, Put, deciding
<1>2. HandShrinks(b)
    BY <1>1 DEF HandShrinks, TakenBy
<1>3. CASE Ask(a)
    <2>1. rec'[b] # "done" => rec[b] # "done"
        BY <1>3 DEF Ask, RowOf, DesktopTypes
    <2> QED BY <1>2, <1>3, <2>1, QuietCore DEF Ask, DaemonQuiet, relay, audit
<1>4. CASE HookEnds(a) \/ HangUp(a) \/ FlipRow(a)
    <2>1. rec' = rec /\ DaemonQuiet
        BY <1>4 DEF HookEnds, HangUp, FlipRow, DaemonQuiet, records, relay, audit
    <2> QED BY <1>2, <2>1, QuietCore
<1>5. CASE WriteRow(a)
    <2>1. rec'[b] # "done" => rec[b] # "done"
        BY <1>5 DEF WriteRow, DesktopTypes
    <2> QED BY <1>2, <1>5, <2>1, QuietCore DEF WriteRow, DaemonQuiet, relay, audit
<1>6. CASE Put(a)
    <2>1. rec[a] = "put" /\ rec' = [rec EXCEPT ![a] = "done"]
          /\ UNCHANGED <<decided, calls, chain, retracted>>
        BY <1>6 DEF Put, audit
    <2>2. rec'[b] # "done" => rec[b] # "done"
        BY <2>1 DEF DesktopTypes
    <2>3. CASE UNCHANGED <<mirror, pending>>
        BY <1>2, <2>1, <2>2, <2>3, QuietCore DEF DaemonQuiet
    <2>4. CASE Mirrored(a)
        <3>1. mirror' = [mirror EXCEPT ![a].state = "open"] /\ pending' = pending \cup {a}
            BY <2>4 DEF Mirrored
        <3>2. CASE b # a
            <4>1. mirror'[b] = mirror[b] /\ (b \in pending' => b \in pending)
                BY <3>1, <3>2 DEF DaemonTypes
            <4>2. CallsBeside(b)
                BY <2>1 DEF CallsBeside
            <4>3. /\ mirror[b].by \in Deciders \cup {None}
                  /\ decided[b].step # "none" => decided[b].by \in Deciders
                BY CoreShapes
            <4> QED BY <1>2, <2>1, <2>2, <4>1, <4>2, <4>3, CoreSame
        <3>3. CASE b = a
            <4>1. /\ mirror[a].by = None /\ Fresh(a) /\ \A d \in Deciders : calls[d].ask # a
                BY <2>1, <3>3 DEF CoreOf
            <4>2. mirror'[a].state = "open" /\ mirror'[a].by = None /\ rec'[a] = "done"
                BY <2>1, <3>1, <4>1 DEF DesktopTypes, DaemonTypes, Mirror
            <4>3. Fresh(a)'
                BY <1>2, <2>1, <3>3, <4>1 DEF Fresh, HandShrinks
            <4>4. \A d \in Deciders : calls'[d].ask # a
                BY <2>1, <4>1
            <4>5. Settled(a)' /\ decided'[a].step = "none"
                BY <4>2, <4>3, CoreShapes DEF Fresh, Settled
            <4> QED BY <3>3, <4>2, <4>3, <4>4, <4>5 DEF CoreOf, IsAt, Fresh
        <3> QED BY <3>2, <3>3
    <2> QED BY <1>6, <2>3, <2>4 DEF Put
<1> QED BY <1>3, <1>4, <1>5, <1>6 DEF HookActs

LEMMA DesktopCore ==
    ASSUME Types, NEW b \in Asks, CoreOf(b),
           \/ \E a \in Asks : HostActs(a) \/ SweepMarks(a)
           \/ SweepReads \/ DesktopRestarts \/ OtherPoll \/ PollEnds
    PROVE  CoreOf(b)'
<1>1. DaemonQuiet
    BY DEF HostActs, HostClaims, HostResolves, HostUnclaims, HostAnswers, SweepMarks, SweepReads,
       DesktopRestarts, OtherPoll, PollEnds, DaemonQuiet, relay, audit
<1>2. CASE DesktopRestarts
    <2>1. taken' = {} /\ applying'.step = "none" /\ rec'[b] \in {rec[b], "done"}
        BY <1>2 DEF DesktopRestarts, Idle
    <2>2. HandShrinks(b)
        BY <2>1 DEF HandShrinks, TakenBy, InHand
    <2> QED BY <1>1, <2>1, <2>2, QuietCore
<1>3. CASE ~DesktopRestarts
    <2>1. UNCHANGED <<taken, applying, rec>>
        BY <1>3 DEF HostActs, HostClaims, HostResolves, HostUnclaims, HostAnswers, SweepMarks, SweepReads,
           OtherPoll, PollEnds, deciding, records
    <2>2. HandShrinks(b)
        BY <2>1 DEF HandShrinks, TakenBy
    <2> QED BY <1>1, <2>1, <2>2, QuietCore
<1> QED BY <1>2, <1>3

(* The loop goes on with what it has in hand, or is done with it.           *)
LEMMA HandOfApply ==
    ASSUME Types, ApplyActs, NEW b \in Asks
    PROVE  HandShrinks(b) /\ rec' = rec
<1> USE DEF Goes, Applied
<1>1. Idle.step = "none"
    BY DEF Idle
<1>2. ASSUME NEW c \in taken, ApplyClaims(c)
      PROVE  HandShrinks(b) /\ rec' = rec
    <2>1. /\ taken' = taken \ {c}
          /\ applying' = applying \/ (applying'.ask = c.ask /\ applying'.by = c.by)
        BY <1>2 DEF ApplyClaims
    <2>2. c = [ask |-> c.ask, by |-> c.by]
        BY DEF Types, DesktopTypes, Choice
    <2>3. rec' = rec
        BY <1>2 DEF ApplyClaims
    <2>4. CASE applying' = applying
        BY <2>1, <2>3, <2>4 DEF HandShrinks, TakenBy
    <2>5. CASE applying'.ask = c.ask /\ applying'.by = c.by
        <3>1. \A x \in Deciders : TakenBy(b, x)' => [ask |-> b, by |-> x] \in taken
            BY <2>1, <2>2, <2>5 DEF TakenBy
        <3> QED BY <2>3, <3>1 DEF HandShrinks, TakenBy
    <2> QED BY <2>1, <2>4, <2>5
<1>3. CASE ApplyResolves
    BY <1>1, <1>3 DEF ApplyResolves, HandShrinks, TakenBy, InHand, records
<1>4. CASE ApplyUnclaims
    BY <1>4 DEF ApplyUnclaims, HandShrinks, TakenBy, InHand, records
<1>5. CASE ApplyReports
    <2>1. taken' = taken /\ applying'.step \in {"close", "none"} /\ rec' = rec
        BY <1>1, <1>5 DEF ApplyReports, records
    <2> QED BY <2>1 DEF HandShrinks, TakenBy, InHand
<1> QED BY <1>2, <1>3, <1>4, <1>5 DEF ApplyActs

LEMMA ApplyCore ==
    ASSUME Types, ApplyActs, NEW b \in Asks, CoreOf(b)
    PROVE  CoreOf(b)'
<1>1. HandShrinks(b) /\ rec' = rec
    BY HandOfApply
<1>2. CASE (\E c \in taken : ApplyClaims(c)) \/ ApplyResolves \/ ApplyUnclaims
    <2>1. DaemonQuiet
        BY <1>2 DEF ApplyClaims, ApplyResolves, ApplyUnclaims, DaemonQuiet, relay, audit
    <2> QED BY <1>1, <2>1, QuietCore
<1>3. CASE ApplyReports
    <2>1. applying.ask \in Asks /\ UNCHANGED <<calls, chain>>
        BY <1>3 DEF ApplyReports, Types, Shapes, Idle
    <2>2. CASE Retract(applying.ask) /\ UNCHANGED pending
        BY <1>1, <2>1, <2>2, RetractCore
    <2>3. CASE Close(applying.ask) /\ UNCHANGED <<decided, retracted>>
        BY <1>1, <2>1, <2>3, CloseCore
    <2>4. CASE UNCHANGED <<mirror, pending, decided, retracted>>
        BY <1>1, <2>1, <2>4, QuietCore DEF DaemonQuiet
    <2> QED BY <1>3, <2>2, <2>3, <2>4 DEF ApplyReports
<1> QED BY <1>2, <1>3 DEF ApplyActs

LEMMA ResolveCore ==
    ASSUME Types, NEW r \in reports, Resolve(r), NEW b \in Asks, CoreOf(b)
    PROVE  CoreOf(b)'
<1>1. r.ask \in Asks
    BY DEF Types, DesktopTypes, Reports
<1>2. UNCHANGED <<taken, applying, rec, calls, chain>>
    BY DEF Resolve, deciding, records
<1>3. HandShrinks(b)
    BY <1>2 DEF HandShrinks, TakenBy
<1>4. CASE Retract(r.ask) /\ UNCHANGED pending
    BY <1>1, <1>2, <1>3, <1>4, RetractCore
<1>5. CASE Close(r.ask) /\ UNCHANGED <<decided, retracted>>
    BY <1>1, <1>2, <1>3, <1>5, CloseCore
<1>6. CASE UNCHANGED <<mirror, pending, decided, retracted>>
    BY <1>2, <1>3, <1>6, QuietCore DEF DaemonQuiet
<1> QED BY <1>4, <1>5, <1>6 DEF Resolve

(* A decision that stands and is forgotten is settled.                     *)
LEMMA TimerCore ==
    ASSUME Types, NEW a \in Asks, TimerActs(a), NEW b \in Asks, CoreOf(b)
    PROVE  CoreOf(b)'
<1>1. UNCHANGED <<taken, applying, rec, calls, chain>>
    BY DEF TimerActs, Expire, ExpireRetracts, Forget, deciding, records, audit
<1>2. HandShrinks(b) /\ CallsBeside(b)
    BY <1>1 DEF HandShrinks, TakenBy, CallsBeside
<1>3. CASE Expire(a)
    <2>1. UNCHANGED <<decided, retracted>> /\ (Close(a) \/ UNCHANGED <<pending, mirror>>)
        BY <1>3 DEF Expire, audit
    <2>2. CASE Close(a)
        BY <1>1, <1>2, <2>1, <2>2, CloseCore
    <2>3. CASE UNCHANGED <<pending, mirror>>
        BY <1>1, <1>2, <2>1, <2>3, QuietCore DEF DaemonQuiet
    <2> QED BY <2>1, <2>2, <2>3
<1>4. CASE ExpireRetracts(a)
    BY <1>1, <1>2, <1>4, RetractCore DEF ExpireRetracts
<1>5. CASE Forget(a)
    <2>1. /\ decided[a].step = "delivered" /\ ~Unsettled(a) /\ decided' = [decided EXCEPT ![a] = Undecided]
          /\ UNCHANGED <<mirror, pending, retracted>>
        BY <1>5 DEF Forget, audit
    <2>2. decided'[a] = Undecided /\ \A x \in Asks \ {a} : decided'[x] = decided[x]
        BY <2>1 DEF Types, DaemonTypes
    <2>3. CASE b # a
        <3>1. /\ mirror[b].by \in Deciders \cup {None}
              /\ decided[b].step # "none" => decided[b].by \in Deciders
            BY CoreShapes
        <3> QED BY <1>1, <1>2, <2>1, <2>2, <2>3, <3>1, CoreSame
    <2>4. CASE b = a
        <3>1. \A d \in Deciders : calls[d].ask # a
            BY <2>1 DEF Unsettled
        <3>2. Standing(a) /\ decided[a].by \in Deciders
            BY <2>1, <2>4, CoreShapes DEF CoreOf
        <3>3. /\ chain[a] = {decided[a].by} /\ retracted[a] = {} /\ mirror[a].by = decided[a].by
            BY <3>1, <3>2 DEF Standing, IsAt
        <3>4. Settled(a)' /\ decided'[a].step = "none"
            BY <1>1, <2>1, <2>2, <3>2, <3>3, CoreShapes DEF Settled
        <3>5. ~Fresh(a)
            BY <3>3 DEF Fresh
        <3> QED BY <1>1, <1>2, <2>1, <2>4, <3>1, <3>4, <3>5, CoreShapes DEF CoreOf, HandShrinks, IsAt
    <2> QED BY <2>3, <2>4
<1> QED BY <1>3, <1>4, <1>5 DEF TimerActs

(* The calls.  A call is about one ask, and nothing else of it is.          *)
LEMMA CallCore ==
    ASSUME Types, IdleCalls, NEW d \in Deciders, CallActs(d), NEW b \in Asks, CoreOf(b)
    PROVE  CoreOf(b)'
<1> DEFINE x == calls[d].ask
<1> USE DEF Types
<1>1. UNCHANGED <<taken, applying, rec, retracted>>
    BY DEF CallActs, RemoteClaims, RemoteQueues, RemoteUnclaims, AuditDecided, deciding, records, audit
<1>2. HandShrinks(b)
    BY <1>1 DEF HandShrinks, TakenBy
<1>3. None \notin Asks
    BY NamesAssumption
<1>4. calls[d].step # "idle" => x \in Asks
    BY DEF Shapes
<1>5. /\ mirror[b].by \in Deciders \cup {None}
      /\ decided[b].step # "none" => decided[b].by \in Deciders
    BY CoreShapes
<1>6. ASSUME NEW a \in Asks, RemoteClaims(d, a)
      PROVE  CoreOf(b)'
    <2>1. /\ calls[d].step = "idle" /\ calls[d].ask = None /\ mirror[a].state = "open"
          /\ mirror' = [mirror EXCEPT ![a] = [state |-> "over", by |-> d]]
          /\ UNCHANGED <<pending, decided, chain>>
        BY <1>6 DEF RemoteClaims, IdleCalls, audit
    <2>2. CallIs(d, "claimed", a)
        BY <1>6 DEF RemoteClaims
    <2>3. /\ calls'[d].step = "claimed" /\ calls'[d].ask = a
          /\ \A e \in Deciders : e # d => calls'[e] = calls[e]
        BY <2>2, CallFields
    <2>4. CASE b # a
        <3>1. CallsBeside(b) /\ mirror'[b] = mirror[b]
            BY <1>3, <2>1, <2>3, <2>4 DEF CallsBeside, DaemonTypes
        <3> QED BY <1>1, <1>2, <1>5, <2>1, <3>1, CoreSame
    <2>5. CASE b = a
        <3>1. mirror'[a].state = "over" /\ mirror'[a].by = d
            BY <2>1 DEF DaemonTypes
        <3>2. Fresh(a) /\ rec[a] = "done" /\ \A e \in Deciders : calls[e].ask # a
            BY <2>1, <2>5, CoreShapes DEF CoreOf
        <3>3. Fresh(a)'
            BY <1>1, <1>2, <2>1, <2>5, <3>2 DEF Fresh, HandShrinks
        <3>4. \A e \in Deciders : calls'[e].ask = a => e = d
            BY <2>3, <3>2
        <3>5. Settled(a)' /\ decided'[a].step = "none"
            BY <2>3, <3>1, <3>3, CoreShapes DEF Fresh, Settled, IsAt, Holding
        <3> QED BY <1>1, <2>3, <2>5, <3>1, <3>2, <3>3, <3>4, <3>5 DEF CoreOf, IsAt, Fresh
    <2> QED BY <2>4, <2>5
<1>7. ASSUME calls[d].step # "idle",
             \/ RemoteQueues(d) \/ RemoteUnclaims(d) \/ AuditDecided(d), b # x
      PROVE  CoreOf(b)'
    <2>1. CallIs(d, "queued", x) \/ CallIs(d, "over", x) \/ CallIs(d, "idle", None)
        BY <1>7 DEF RemoteQueues, RemoteUnclaims, AuditDecided
    <2>2. calls'[d].ask \in {x, None} /\ \A e \in Deciders : e # d => calls'[e] = calls[e]
        BY <2>1, CallFields
    <2>3. CallsBeside(b)
        BY <1>3, <1>7, <2>2 DEF CallsBeside
    <2>4. b \in pending' => b \in pending
        BY <1>7 DEF RemoteQueues, RemoteUnclaims, AuditDecided
    <2>5. /\ mirror'[b] = mirror[b] /\ decided'[b] = decided[b] /\ chain'[b] = chain[b]
        BY <1>4, <1>7 DEF RemoteQueues, RemoteUnclaims, AuditDecided, DaemonTypes, audit
    <2> QED BY <1>1, <1>2, <1>5, <2>3, <2>4, <2>5, CoreSame
<1>8. CASE RemoteQueues(d) /\ b = x
    <2>1. IsAt(d, Holding, x) /\ IsAt(d, {"claimed"}, x) /\ x \in Asks /\ UNCHANGED <<mirror, chain>>
        BY <1>4, <1>8 DEF RemoteQueues, IsAt, Holding, audit
    <2>2. mirror[x].by = d /\ Fresh(x)
        BY <1>8, <2>1 DEF CoreOf
    <2>3. mirror[x].state = "over" /\ rec[x] = "done"
        BY <1>8, <2>1, CoreShapes DEF CoreOf, IsAt
    <2>4. \A e \in Deciders : calls[e].ask = x => e = d
        BY <1>8, <2>1 DEF CoreOf
    <2>5. CASE /\ x \in pending /\ pending' = pending \ {x} /\ CallIs(d, "queued", x)
               /\ decided' = [decided EXCEPT ![x] = [step |-> "queued", by |-> d, audited |-> FALSE]]
        <3>1. /\ decided'[x].step = "queued" /\ decided'[x].by = d /\ ~decided'[x].audited
            BY <2>1, <2>5 DEF DaemonTypes
        <3>2. /\ calls'[d].step = "queued" /\ calls'[d].ask = x
              /\ \A e \in Deciders : e # d => calls'[e] = calls[e]
            BY <2>5, CallFields
        <3>3. \A e \in Deciders : calls'[e].ask = x => e = d
            BY <2>4, <3>2
        <3>4. Standing(b)' /\ Queuing(d, b)'
            BY <1>1, <1>8, <2>1, <2>2, <3>1, <3>2 DEF Standing, Queuing, IsAt, Fresh
        <3>5. \A y \in Deciders : ~TakenBy(b, y)'
            BY <1>2, <1>8, <2>2 DEF Fresh, HandShrinks
        <3> QED BY <1>1, <1>8, <2>1, <2>3, <2>5, <3>1, <3>2, <3>3, <3>4, <3>5 DEF CoreOf, IsAt, Holding
    <2>6. CASE x \notin pending /\ CallIs(d, "over", x) /\ UNCHANGED <<pending, decided>>
        <3>1. /\ calls'[d].step = "over" /\ calls'[d].ask = x
              /\ \A e \in Deciders : e # d => calls'[e] = calls[e]
            BY <2>6, CallFields
        <3>2. \A e \in Deciders : calls'[e].ask = x => e = d
            BY <2>4, <3>1
        <3>3. Fresh(b)'
            BY <1>1, <1>2, <1>8, <2>1, <2>2, <2>6 DEF Fresh, HandShrinks
        <3>4. Settled(b)' /\ decided'[x].step = "none"
            BY <1>8, <2>1, <2>2, <3>1, <3>3, CoreShapes DEF Fresh, Settled, IsAt, Holding
        <3> QED BY <1>1, <1>8, <2>1, <2>2, <2>3, <2>6, <3>1, <3>2, <3>3, <3>4 DEF CoreOf, IsAt, Fresh
    <2> QED BY <1>8, <2>5, <2>6 DEF RemoteQueues
<1>9. CASE RemoteUnclaims(d) /\ b = x
    <2>1. IsAt(d, Holding, x) /\ IsAt(d, {"over"}, x) /\ x \in Asks /\ CallIs(d, "idle", None)
        BY <1>4, <1>9 DEF RemoteUnclaims, IsAt, Holding
    <2>2. mirror[x].by = d /\ Fresh(x)
        BY <1>9, <2>1 DEF CoreOf
    <2>3. mirror[x].state = "over" /\ rec[x] = "done" /\ x \notin pending
        BY <1>9, <2>1, CoreShapes DEF CoreOf, IsAt
    <2>4. calls'[d].ask = None /\ \A e \in Deciders : e # d => calls'[e] = calls[e]
        BY <2>1, CallFields
    <2>5. \A e \in Deciders : calls'[e].ask # x
        BY <1>3, <1>9, <2>1, <2>4 DEF CoreOf, IsAt
    <2>6. mirror' = [mirror EXCEPT ![x].by = None] /\ UNCHANGED <<pending, decided, chain>>
        BY <1>9 DEF RemoteUnclaims, audit
    <2>7. mirror'[x].by = None /\ mirror'[x].state = "over"
        BY <2>1, <2>3, <2>6 DEF DaemonTypes, Mirror
    <2>8. Fresh(b)'
        BY <1>1, <1>2, <1>9, <2>2, <2>6 DEF Fresh, HandShrinks
    <2>9. Settled(b)' /\ decided'[x].step = "none"
        BY <1>9, <2>7, <2>8, CoreShapes DEF Fresh, Settled
    <2> QED BY <1>1, <1>9, <2>3, <2>5, <2>6, <2>7, <2>8, <2>9 DEF CoreOf, IsAt, Fresh
<1>10. CASE AuditDecided(d) /\ b = x
    <2>1. IsAt(d, {"queued"}, x) /\ x \in Asks /\ CallIs(d, "idle", None) /\ UNCHANGED <<mirror, pending>>
        BY <1>4, <1>10 DEF AuditDecided, IsAt
    <2>2. Queuing(d, x)
        BY <1>10, <2>1 DEF CoreOf
    <2>3. mirror[x].state = "over" /\ rec[x] = "done" /\ x \notin pending
        BY <1>10, <2>1, CoreShapes DEF CoreOf, IsAt
    <2>4. calls'[d].ask = None /\ \A e \in Deciders : e # d => calls'[e] = calls[e]
        BY <2>1, CallFields
    <2>5. \A e \in Deciders : calls'[e].ask # x
        BY <1>3, <1>10, <2>1, <2>4 DEF CoreOf, IsAt
    <2>6. CASE decided[x].step # "none"
        <3>1. decided' = [decided EXCEPT ![x].audited = TRUE] /\ chain' = [chain EXCEPT ![x] = @ \cup {d}]
            BY <1>10, <2>6 DEF AuditDecided
        <3>2. /\ decided'[x].step = decided[x].step /\ decided'[x].by = decided[x].by
              /\ decided'[x].audited
            BY <2>1, <3>1 DEF DaemonTypes, Decided
        <3>3. chain'[x] = {d} /\ decided[x].by = d
            BY <2>1, <2>2, <2>6, <3>1 DEF Queuing, DaemonTypes
        <3>4. Standing(x)
            BY <1>10, <2>6 DEF CoreOf
        <3>5. Standing(b)'
            BY <1>1, <1>10, <2>1, <3>2, <3>3, <3>4 DEF Standing
        <3>6. \A y \in Deciders : TakenBy(b, y)' => TakenBy(b, y)
            BY <1>2, <1>10 DEF HandShrinks
        <3> QED BY <1>1, <1>10, <2>1, <2>3, <2>5, <2>6, <3>2, <3>5, <3>6 DEF CoreOf, IsAt
    <2>7. CASE decided[x].step = "none"
        <3>1. UNCHANGED <<decided, chain>>
            BY <1>10, <2>7 DEF AuditDecided
        <3>2. mirror[x].by = None /\ chain[x] = {} /\ retracted[x] = {}
            BY <2>2, <2>7 DEF Queuing
        <3>3. Settled(b)'
            BY <1>1, <1>10, <2>1, <3>1, <3>2 DEF Settled
        <3>4. \A y \in Deciders : TakenBy(b, y)' => TakenBy(b, y)
            BY <1>2, <1>10 DEF HandShrinks
        <3> QED BY <1>1, <1>10, <2>1, <2>3, <2>5, <2>7, <3>1, <3>3, <3>4 DEF CoreOf, IsAt
    <2> QED BY <2>6, <2>7
<1>11. RemoteQueues(d) \/ RemoteUnclaims(d) \/ AuditDecided(d) => calls[d].step # "idle"
    BY DEF RemoteQueues, RemoteUnclaims, AuditDecided
<1> QED BY <1>6, <1>7, <1>8, <1>9, <1>10, <1>11 DEF CallActs

(* A decision is taken once.                                               *)
LEMMA TakeCore ==
    ASSUME Types, Take, NEW b \in Asks, CoreOf(b)
    PROVE  CoreOf(b)'
<1>1. /\ taken = {} /\ applying = Idle
      /\ UNCHANGED <<applying, rec, mirror, pending, calls, chain, retracted>>
    BY DEF Take, records, audit
<1>2. \A y \in Deciders : ~TakenBy(b, y)
    BY <1>1 DEF TakenBy, Idle, InHand
<1>3. decided'[b] = IF IsQueued(b) THEN [decided[b] EXCEPT !.step = "delivered"] ELSE decided[b]
    BY DEF Take
<1>4. taken' = {[ask |-> a, by |-> decided[a].by] : a \in {a \in Asks : IsQueued(a)}} \/ taken' = taken
    BY DEF Take
<1>5. \A y \in Deciders : TakenBy(b, y)' => IsQueued(b) /\ decided[b].by = y
    BY <1>1, <1>4 DEF TakenBy, Idle, InHand
<1>6. CASE ~IsQueued(b)
    <2>1. HandShrinks(b) /\ CallsBeside(b)
        BY <1>1, <1>5, <1>6 DEF HandShrinks, CallsBeside
    <2>2. /\ mirror[b].by \in Deciders \cup {None}
          /\ decided[b].step # "none" => decided[b].by \in Deciders
        BY CoreShapes
    <2> QED BY <1>1, <1>3, <1>6, <2>1, <2>2, CoreSame
<1>7. CASE IsQueued(b)
    <2>1. /\ decided'[b].step = "delivered" /\ decided'[b].by = decided[b].by
          /\ decided'[b].audited = decided[b].audited
        BY <1>3, <1>7 DEF Types, DaemonTypes, Decided
    <2>2. Standing(b) /\ ~Fresh(b)
        BY <1>7, CoreShapes DEF CoreOf, Fresh, IsQueued
    <2>3. Standing(b)'
        BY <1>1, <2>1, <2>2 DEF Standing, IsAt
    <2>4. \A d \in Deciders : Queuing(d, b) => Queuing(d, b)'
        BY <1>1, <1>7, <2>1 DEF Queuing, IsQueued
    <2> QED BY <1>1, <1>5, <2>1, <2>2, <2>3, <2>4 DEF CoreOf, IsAt
<1> QED BY <1>6, <1>7

LEMMA DaemonStaysUp ==
    ASSUME Types, [Next]_vars, DaemonUp'
    PROVE  DaemonUp /\ ~DaemonRestarts
<1>1. ~DaemonRestarts
    BY DEF DaemonRestarts, Types, DaemonTypes, Starts, DaemonUp
<1>2. UNCHANGED starts \/ DesktopRestarts
    BY <1>1 DEF Next, vars, Ask, HookEnds, HangUp, FlipRow, WriteRow, Put, HostClaims, HostResolves,
       HostUnclaims, HostAnswers, Expire, ExpireRetracts, Forget, SweepMarks, RemoteQueues,
       RemoteUnclaims, AuditDecided, RemoteClaims, Resolve, ApplyClaims, OtherPoll, PollEnds, Take,
       ApplyResolves, ApplyUnclaims, ApplyReports, SweepReads
<1> QED BY <1>1, <1>2 DEF DesktopRestarts, DaemonUp, Types, DaemonTypes, Starts

LEMMA IdleStep == Types /\ IdleCalls /\ [Next]_vars => IdleCalls'
<1> SUFFICES ASSUME Types, IdleCalls, [Next]_vars PROVE IdleCalls'
    OBVIOUS
<1>1. CASE UNCHANGED calls
    BY <1>1 DEF IdleCalls
<1>2. CASE DaemonRestarts
    BY <1>2 DEF DaemonRestarts, IdleCalls
<1>3. ASSUME NEW d \in Deciders, CallActs(d)
      PROVE  IdleCalls'
    <2>1. \/ \E a \in Asks : CallIs(d, "claimed", a)
          \/ CallIs(d, "queued", calls[d].ask) \/ CallIs(d, "over", calls[d].ask) \/ CallIs(d, "idle", None)
        BY <1>3 DEF CallActs, RemoteClaims, RemoteQueues, RemoteUnclaims, AuditDecided
    <2>2. /\ calls'[d].step = "idle" => calls'[d].ask = None
          /\ \A e \in Deciders : e # d => calls'[e] = calls[e]
        BY <2>1, CallFields
    <2> QED BY <2>2 DEF IdleCalls
<1>4. ASSUME ~DaemonRestarts, \A d \in Deciders : ~CallActs(d), Next
      PROVE  UNCHANGED calls
    BY <1>4, Groups DEF HookActs, HostActs, TimerActs, LoopActs, ApplyActs, BootActs, Ask, HookEnds,
       HangUp, FlipRow, WriteRow, Put, HostClaims, HostResolves, HostUnclaims, HostAnswers, Expire,
       ExpireRetracts, Forget, SweepMarks, Resolve, ApplyClaims, OtherPoll, PollEnds, Take,
       ApplyResolves, ApplyUnclaims, ApplyReports, DesktopRestarts, SweepReads, relay
<1> QED BY <1>1, <1>2, <1>3, <1>4 DEF vars, relay

LEMMA CoreStep == Types /\ RowInv /\ Core /\ [Next]_vars => Core'
<1> SUFFICES ASSUME Types, RowInv, Core, [Next]_vars PROVE Core'
    OBVIOUS
<1>1. IdleCalls /\ IdleCalls'
    BY IdleStep DEF Core
<1> SUFFICES ASSUME DaemonUp', NEW b \in Asks PROVE CoreOf(b)'
    BY <1>1 DEF Core
<1>2. ~DaemonRestarts /\ CoreOf(b) /\ RowOf(b)
    BY DaemonStaysUp DEF Core, RowInv
<1>3. CASE UNCHANGED vars
    <2>1. DaemonQuiet /\ rec' = rec /\ UNCHANGED <<taken, applying>>
        BY <1>3 DEF vars, DaemonQuiet, records, deciding, relay, audit
    <2>2. HandShrinks(b)
        BY <2>1 DEF HandShrinks, TakenBy
    <2> QED BY <1>2, <2>1, <2>2, QuietCore
<1>4. ASSUME NEW a \in Asks, HookActs(a)
      PROVE  CoreOf(b)'
    BY <1>2, <1>4, HookCore
<1>5. ASSUME \/ \E a \in Asks : HostActs(a) \/ SweepMarks(a)
             \/ SweepReads \/ DesktopRestarts \/ OtherPoll \/ PollEnds
      PROVE  CoreOf(b)'
    BY <1>2, <1>5, DesktopCore
<1>6. CASE ApplyActs
    BY <1>2, <1>6, ApplyCore
<1>7. ASSUME NEW r \in reports, Resolve(r)
      PROVE  CoreOf(b)'
    BY <1>2, <1>7, ResolveCore
<1>8. ASSUME NEW a \in Asks, TimerActs(a)
      PROVE  CoreOf(b)'
    BY <1>2, <1>8, TimerCore
<1>9. ASSUME NEW d \in Deciders, CallActs(d)
      PROVE  CoreOf(b)'
    BY <1>1, <1>2, <1>9, CallCore
<1>10. CASE Take
    BY <1>2, <1>10, TakeCore
<1> QED BY <1>2, <1>3, <1>4, <1>5, <1>6, <1>7, <1>8, <1>9, <1>10, Groups DEF LoopActs, BootActs

LEMMA CoreInit == Init => Core
<1> SUFFICES ASSUME Init, NEW a \in Asks PROVE IdleCalls /\ CoreOf(a)
    BY DEF Core, IdleCalls, Init
<1>1. IdleCalls /\ None \notin Asks /\ Undecided.step = "none" /\ Idle.step = "none"
    BY NamesAssumption DEF Init, IdleCalls, Undecided, Idle
<1>2. /\ mirror[a].state = "none" /\ mirror[a].by = None /\ decided[a] = Undecided /\ chain[a] = {}
      /\ retracted[a] = {} /\ pending = {} /\ \A d \in Deciders : calls[d].ask = None
    BY DEF Init
<1>3. \A b \in Deciders : ~TakenBy(a, b)
    BY <1>1 DEF Init, TakenBy, InHand
<1> QED BY <1>1, <1>2, <1>3 DEF CoreOf, Fresh, IsAt, Settled

-----------------------------------------------------------------------------
(* The desktop and the daemon together.  A decision that was delivered is   *)
(* in hand, answered the hook, is about to be reported, or it or its report *)
(* was lost; one that was forgotten answered the hook, or was lost.         *)
Report(a) == [ask |-> a, step |-> "sent"]

UpOf(a) ==
    /\ decided[a].step = "delivered" =>
          \/ TakenBy(a, decided[a].by) \/ answer[a] = decided[a].by
          \/ Report(a) \in reports \/ a \in unheard
    /\ decided[a].step = "none" /\ chain[a] # retracted[a] =>
          mirror[a].by = answer[a] \/ a \in unheard

(* An ask that the boot closes was over; a decision of it that was          *)
(* delivered is in hand or about to be reported, and one that was forgotten *)
(* is of an ask the boot does not close.                                   *)
Ended(a) == hook[a] \in {"over", "dead"}
Swept(a) == rows[a].by = "swept"
Passed(a) == starts.desktop = 1 /\ sweep # Due /\ a \notin sweep

SweepOf(a) ==
    /\ a \in sweep => Ended(a) /\ starts.desktop = 1
    /\ Swept(a) => rows[a].state = "over" /\ Ended(a) /\ Passed(a)
    /\ Swept(a) /\ decided[a].step = "delivered" =>
          TakenBy(a, decided[a].by) \/ Report(a) \in reports \/ a \in unheard
    /\ decided[a].step = "none" /\ chain[a] # retracted[a] =>
          (~Swept(a) /\ (rows[a].state = "over" \/ Passed(a))) \/ a \in unheard

HandKeeps(a) == \A b \in Deciders : TakenBy(a, b) => TakenBy(a, b)'

(* What of the daemon the two speak of.                                    *)
DaemonSame(a) ==
    /\ decided'[a] = decided[a] /\ chain'[a] = chain[a] /\ retracted'[a] = retracted[a]
    /\ a \in unheard => a \in unheard'

LEMMA UpSame ==
    ASSUME Types, NEW b \in Asks, UpOf(b), DaemonSame(b), HandKeeps(b), answer'[b] = answer[b],
           mirror'[b].by = mirror[b].by,
           Report(b) \in reports => Report(b) \in reports'
    PROVE  UpOf(b)'
<1>1. decided[b].step = "delivered" => decided[b].by \in Deciders
    BY CoreShapes
<1>2. Report(b)' = Report(b)
    BY DEF Report
<1> QED BY <1>1, <1>2 DEF UpOf, DaemonSame, HandKeeps

(* Nothing is delivered, and nothing forgotten.                            *)
LEMMA UpVacuous ==
    ASSUME NEW b \in Asks, decided'[b].step # "delivered",
           decided'[b].step = "none" => chain'[b] = retracted'[b]
    PROVE  UpOf(b)'
BY DEF UpOf

(* The hook was held, so it had no answer, and nothing was forgotten.       *)
LEMMA UpAnswers ==
    ASSUME Types, NEW b \in Asks, UpOf(b), CoreOf(b), RowOf(b), hook[b] = "held",
           DaemonSame(b), mirror'[b].by = mirror[b].by,
           decided[b].step = "delivered" =>
              \/ TakenBy(b, decided[b].by) \/ Report(b) \in reports =>
                 \/ TakenBy(b, decided[b].by)' \/ answer'[b] = decided[b].by
                 \/ Report(b) \in reports'
    PROVE  UpOf(b)'
<1>1. answer[b] = None
    BY DEF RowOf
<1>2. decided[b].step = "delivered" => decided[b].by \in Deciders /\ None \notin Deciders
    BY CoreShapes
<1>3. decided[b].step = "none" => chain[b] = retracted[b] \/ b \in unheard
    BY <1>1 DEF UpOf, CoreOf, Settled
<1>4. Report(b)' = Report(b)
    BY DEF Report
<1> QED BY <1>1, <1>2, <1>3, <1>4 DEF UpOf, DaemonSame

(* A decision that is taken back leaves nothing claimed.                    *)
LEMMA RetractSettles ==
    ASSUME Types, NEW a \in Asks, CoreOf(a), Retract(a), chain' = chain
    PROVE  /\ decided'[a].step = "none"
           /\ decided[a].step = "none" => DaemonSame(a) /\ mirror'[a].by = mirror[a].by
           /\ decided[a].step # "none" => chain'[a] = retracted'[a]
<1>1. /\ decided'[a] = Undecided
      /\ mirror'[a].by = IF decided[a].step # "none" THEN None ELSE mirror[a].by
      /\ retracted'[a] = IF decided[a].audited THEN retracted[a] \cup {decided[a].by} ELSE retracted[a]
    BY RetractFields
<1>2. decided[a].step # "none" => chain'[a] = retracted'[a]
    BY <1>1 DEF CoreOf, Standing
<1>3. decided[a].step = "none" => DaemonSame(a) /\ mirror'[a].by = mirror[a].by
    BY <1>1, CoreShapes DEF DaemonSame, Retract
<1> QED BY <1>1, <1>2, <1>3, CoreShapes

LEMMA HookUp ==
    ASSUME Types, NEW a \in Asks, HookActs(a), NEW b \in Asks, UpOf(b), CoreOf(b), RowOf(b)
    PROVE  UpOf(b)'
<1> USE DEF Types
<1>1. UNCHANGED <<taken, applying, decided, chain, retracted, unheard>>
    BY DEF HookActs, Ask, HookEnds, HangUp, FlipRow, WriteRow, Put, deciding, relay, audit
<1>2. DaemonSame(b) /\ HandKeeps(b)
    BY <1>1 DEF DaemonSame, HandKeeps, TakenBy
<1>3. CASE Ask(a) \/ HangUp(a) \/ FlipRow(a) \/ WriteRow(a)
    <2>1. UNCHANGED <<answer, mirror, reports>>
        BY <1>3 DEF Ask, HangUp, FlipRow, WriteRow, relay
    <2> QED BY <1>2, <2>1, UpSame
<1>4. CASE HookEnds(a)
    <2>1. /\ UNCHANGED mirror /\ reports' = reports \cup Sent(mirrored \cap {a})
          /\ answer' = IF hook[a] = "held" THEN [answer EXCEPT ![a] = Gate] ELSE answer
        BY <1>4 DEF HookEnds, relay
    <2>2. Report(b) \in reports => Report(b) \in reports'
        BY <2>1
    <2>3. CASE b = a /\ hook[a] = "held"
        <3>1. decided[b].step = "delivered" /\ TakenBy(b, decided[b].by) => TakenBy(b, decided[b].by)'
            BY <1>1, CoreShapes DEF TakenBy
        <3> QED BY <1>2, <2>1, <2>2, <2>3, <3>1, UpAnswers
    <2>4. CASE ~(b = a /\ hook[a] = "held")
        <3>1. answer'[b] = answer[b]
            BY <2>1, <2>4 DEF DesktopTypes
        <3>2. decided[b].step = "delivered" => decided[b].by \in Deciders
            BY CoreShapes
        <3>3. Report(b)' = Report(b)
            BY DEF Report
        <3> QED BY <1>2, <2>1, <2>2, <3>1, <3>2, <3>3 DEF UpOf, DaemonSame, HandKeeps
    <2> QED BY <2>3, <2>4
<1>5. CASE Put(a)
    <2>1. /\ rec[a] = "put" /\ UNCHANGED <<answer, reports>>
          /\ mirror' \in {mirror, [mirror EXCEPT ![a].state = "open"]}
        BY <1>5 DEF Put, Mirrored
    <2>2. CASE b = a
        <3>1. decided[b] = Undecided /\ chain[b] = {} /\ retracted[b] = {}
            BY <2>1, <2>2 DEF CoreOf, Fresh
        <3> QED BY <1>1, <3>1, UpVacuous, CoreShapes
    <2>3. CASE b # a
        <3>1. mirror'[b] = mirror[b]
            BY <2>1, <2>3 DEF DaemonTypes
        <3> QED BY <1>2, <2>1, <3>1, UpSame
    <2> QED BY <2>2, <2>3
<1> QED BY <1>3, <1>4, <1>5 DEF HookActs

LEMMA HostUp ==
    ASSUME Types, NEW a \in Asks, HostActs(a), NEW b \in Asks, UpOf(b), CoreOf(b), RowOf(b)
    PROVE  UpOf(b)'
<1>1. UNCHANGED <<taken, applying, reports, mirror, decided, chain, retracted, unheard>>
    BY DEF HostActs, HostClaims, HostResolves, HostUnclaims, HostAnswers, records, relay, audit
<1>2. DaemonSame(b) /\ HandKeeps(b)
    BY <1>1 DEF DaemonSame, HandKeeps, TakenBy
<1>3. CASE answer'[b] = answer[b]
    BY <1>1, <1>2, <1>3, UpSame
<1>4. CASE b = a /\ Answered(a, Host)
    <2>1. hook[b] = "held"
        BY <1>4 DEF Answered
    <2>2. decided[b].step = "delivered" /\ TakenBy(b, decided[b].by) => TakenBy(b, decided[b].by)'
        BY <1>1 DEF TakenBy
    <2>3. Report(b)' = Report(b)
        BY DEF Report
    <2> QED BY <1>1, <1>2, <2>1, <2>2, <2>3, UpAnswers
<1>5. answer' = answer \/ Answered(a, Host)
    BY DEF HostActs, HostClaims, HostResolves, HostUnclaims, HostAnswers
<1>6. Answered(a, Host) /\ b # a => answer'[b] = answer[b]
    BY DEF Answered, Types, DesktopTypes
<1> QED BY <1>3, <1>4, <1>5, <1>6

(* A call changes what is decided only of the ask it is about, and never    *)
(* what was forgotten.                                                     *)
LEMMA CallEffects ==
    ASSUME Types, NEW d \in Deciders, CallActs(d), NEW b \in Asks, CoreOf(b)
    PROVE  /\ UNCHANGED <<hook, answer, rows, taken, applying, reports, sweep, starts, unheard>>
           /\ \/ DaemonSame(b) /\ mirror'[b].by = mirror[b].by
              \/ decided'[b].step = "queued"
              \/ decided'[b].step = "none" /\ chain'[b] = retracted'[b] /\ DaemonSame(b)
              \/ /\ decided[b].step = "delivered" /\ decided'[b].step = "delivered"
                 /\ decided'[b].by = decided[b].by
<1> DEFINE x == calls[d].ask
<1> USE DEF Types
<1>1. UNCHANGED <<hook, answer, rows, taken, applying, reports, sweep, starts, unheard>>
    BY DEF CallActs, RemoteClaims, RemoteQueues, RemoteUnclaims, AuditDecided, deciding, records, audit
<1> SUFFICES \/ DaemonSame(b) /\ mirror'[b].by = mirror[b].by
             \/ decided'[b].step = "queued"
             \/ decided'[b].step = "none" /\ chain'[b] = retracted'[b] /\ DaemonSame(b)
             \/ /\ decided[b].step = "delivered" /\ decided'[b].step = "delivered"
                /\ decided'[b].by = decided[b].by
    BY <1>1
<1>2. calls[d].step # "idle" => x \in Asks
    BY DEF Shapes
<1>3. ASSUME NEW a \in Asks, RemoteClaims(d, a)
      PROVE  \/ DaemonSame(b) /\ mirror'[b].by = mirror[b].by
             \/ decided'[b].step = "none" /\ chain'[b] = retracted'[b] /\ DaemonSame(b)
    <2>1. /\ mirror[a].state = "open" /\ mirror' = [mirror EXCEPT ![a] = [state |-> "over", by |-> d]]
          /\ DaemonSame(b)
        BY <1>3 DEF RemoteClaims, audit, DaemonSame
    <2>2. CASE b # a
        BY <2>1, <2>2 DEF DaemonTypes
    <2>3. CASE b = a
        BY <2>1, <2>3, CoreShapes DEF CoreOf, Fresh, DaemonSame
    <2> QED BY <2>2, <2>3
<1>4. CASE RemoteQueues(d)
    <2>1. mirror' = mirror /\ UNCHANGED audit /\ x \in Asks
        BY <1>2, <1>4 DEF RemoteQueues
    <2>2. decided' = decided \/ decided' = [decided EXCEPT ![x] = [step |-> "queued", by |-> d, audited |-> FALSE]]
        BY <1>4 DEF RemoteQueues
    <2> QED BY <2>1, <2>2 DEF DaemonSame, DaemonTypes, audit
<1>5. CASE RemoteUnclaims(d)
    <2>1. x \in Asks /\ mirror' = [mirror EXCEPT ![x].by = None] /\ IsAt(d, Holding, x) /\ DaemonSame(b)
        BY <1>2, <1>5 DEF RemoteUnclaims, IsAt, Holding, DaemonSame, audit
    <2>2. CASE b # x
        BY <2>1, <2>2 DEF DaemonTypes
    <2>3. CASE b = x
        BY <2>1, <2>3, CoreShapes DEF CoreOf, Fresh, DaemonSame
    <2> QED BY <2>2, <2>3
<1>6. CASE AuditDecided(d)
    <2>1. mirror' = mirror /\ retracted' = retracted /\ x \in Asks
        BY <1>2, <1>6 DEF AuditDecided
    <2>2. CASE UNCHANGED <<decided, chain>>
        BY <1>1, <2>1, <2>2 DEF DaemonSame
    <2>3. CASE /\ decided[x].step # "none" /\ decided' = [decided EXCEPT ![x].audited = TRUE]
               /\ chain' = [chain EXCEPT ![x] = @ \cup {d}]
        <3>1. CASE b # x
            BY <1>1, <2>1, <2>3, <3>1 DEF DaemonSame, DaemonTypes
        <3>2. CASE b = x
            <4>1. decided'[b].step = decided[b].step /\ decided'[b].by = decided[b].by
                BY <2>1, <2>3, <3>2 DEF DaemonTypes, Decided
            <4> QED BY <2>3, <3>2, <4>1, CoreShapes
        <3> QED BY <3>1, <3>2
    <2> QED BY <1>6, <2>2, <2>3 DEF AuditDecided
<1> QED BY <1>3, <1>4, <1>5, <1>6 DEF CallActs

LEMMA CallUp ==
    ASSUME Types, NEW d \in Deciders, CallActs(d), NEW b \in Asks, UpOf(b), CoreOf(b)
    PROVE  UpOf(b)'
<1>1. UNCHANGED <<answer, taken, applying, reports, unheard>>
    BY CallEffects
<1>2. HandKeeps(b) /\ Report(b)' = Report(b)
    BY <1>1 DEF HandKeeps, TakenBy, Report
<1>3. CASE DaemonSame(b) /\ mirror'[b].by = mirror[b].by
    BY <1>1, <1>2, <1>3, UpSame
<1>4. CASE decided'[b].step = "queued" \/ (decided'[b].step = "none" /\ chain'[b] = retracted'[b])
    BY <1>4, UpVacuous
<1>5. CASE /\ decided[b].step = "delivered" /\ decided'[b].step = "delivered"
           /\ decided'[b].by = decided[b].by
    <2>1. TakenBy(b, decided[b].by) => TakenBy(b, decided[b].by)'
        BY <1>1, <1>5 DEF TakenBy
    <2> QED BY <1>1, <1>2, <1>5, <2>1 DEF UpOf
<1> QED BY <1>3, <1>4, <1>5, CallEffects

(* A report, a timer and a decision the loop found over take it back.       *)
LEMMA RetractUp ==
    ASSUME Types, NEW a \in Asks, CoreOf(a), Retract(a), chain' = chain, UpOf(a), answer' = answer
    PROVE  UpOf(a)'
<1>1. CASE decided[a].step = "none"
    <2>1. decided'[a].step = "none" /\ DaemonSame(a) /\ mirror'[a].by = mirror[a].by
        BY <1>1, RetractSettles
    <2> QED BY <1>1, <2>1 DEF UpOf, DaemonSame
<1>2. CASE decided[a].step # "none"
    BY <1>2, RetractSettles, UpVacuous
<1> QED BY <1>1, <1>2

(* A report of it that is lost leaves it unheard.                          *)
LEMMA LostUp ==
    ASSUME NEW a \in Asks, Unreported(a), UpOf(a), DaemonSame(a), answer'[a] = answer[a],
           mirror'[a].by = mirror[a].by
    PROVE  UpOf(a)'
BY DEF UpOf, DaemonSame, Unreported

LEMMA RetractBeside ==
    ASSUME Types, NEW a \in Asks, Retract(a), chain' = chain, NEW b \in Asks, b # a
    PROVE  DaemonSame(b) /\ mirror'[b].by = mirror[b].by
BY RetractFields DEF DaemonSame, Retract

LEMMA CloseBeside ==
    ASSUME Types, NEW a \in Asks, Close(a), NEW b \in Asks
    PROVE  mirror'[b].by = mirror[b].by
BY CloseFields

LEMMA ResolveUp ==
    ASSUME Types, NEW r \in reports, Resolve(r), NEW b \in Asks, UpOf(b), CoreOf(b)
    PROVE  UpOf(b)'
<1>1. r.ask \in Asks /\ r = [ask |-> r.ask, step |-> r.step]
    BY DEF Types, DesktopTypes, Reports
<1>2. UNCHANGED <<answer, taken, applying, chain>>
    BY DEF Resolve, deciding
<1>3. HandKeeps(b)
    BY <1>2 DEF HandKeeps, TakenBy
<1>4. CASE Retract(r.ask) /\ r.step = "sent" /\ reports' = (reports \ {r}) \cup {[r EXCEPT !.step = "close"]}
    <2>1. b # r.ask /\ Report(b) \in reports => Report(b) \in reports'
        BY <1>4 DEF Report
    <2> QED BY <1>1, <1>2, <1>3, <1>4, <2>1, RetractUp, RetractBeside, UpSame
<1>5. CASE Close(r.ask) /\ r.step = "close" /\ reports' = reports \ {r} /\ UNCHANGED <<decided, retracted, unheard>>
    <2>1. Report(b) \in reports => Report(b) \in reports'
        BY <1>5 DEF Report
    <2>2. DaemonSame(b) /\ mirror'[b].by = mirror[b].by
        BY <1>1, <1>2, <1>5, CloseBeside DEF DaemonSame
    <2> QED BY <1>2, <1>3, <2>1, <2>2, UpSame
<1>6. CASE /\ Unreported(r.ask) /\ r.step = "sent" /\ reports' = reports \ {r}
           /\ UNCHANGED <<mirror, pending, decided, retracted>>
    <2>1. DaemonSame(b) /\ mirror'[b].by = mirror[b].by
        BY <1>2, <1>6 DEF DaemonSame, Unreported
    <2>2. CASE b = r.ask
        BY <1>2, <1>3, <1>6, <2>1, <2>2, LostUp
    <2>3. CASE b # r.ask
        <3>1. Report(b) \in reports => Report(b) \in reports'
            BY <1>6, <2>3 DEF Report
        <3> QED BY <1>2, <1>3, <2>1, <3>1, UpSame
    <2> QED BY <2>2, <2>3
<1> QED BY <1>4, <1>5, <1>6 DEF Resolve

LEMMA TimerUp ==
    ASSUME Types, NEW a \in Asks, TimerActs(a), NEW b \in Asks, UpOf(b), CoreOf(b)
    PROVE  UpOf(b)'
<1>1. UNCHANGED <<answer, taken, applying, reports, chain>>
    BY DEF TimerActs, Expire, ExpireRetracts, Forget, deciding, audit
<1>2. HandKeeps(b) /\ Report(b)' = Report(b)
    BY <1>1 DEF HandKeeps, TakenBy, Report
<1>3. CASE Expire(a)
    <2>1. UNCHANGED <<decided, retracted, unheard>> /\ (Close(a) \/ mirror' = mirror)
        BY <1>3 DEF Expire, audit
    <2>2. DaemonSame(b) /\ mirror'[b].by = mirror[b].by
        BY <1>1, <2>1, CloseBeside DEF DaemonSame
    <2> QED BY <1>1, <1>2, <2>2, UpSame
<1>4. CASE ExpireRetracts(a)
    <2>1. Retract(a)
        BY <1>4 DEF ExpireRetracts
    <2> QED BY <1>1, <1>2, <2>1, RetractUp, RetractBeside, UpSame
<1>5. CASE Forget(a)
    <2>1. /\ decided[a].step = "delivered" /\ ~Unsettled(a) /\ decided' = [decided EXCEPT ![a] = Undecided]
          /\ UNCHANGED <<mirror, retracted, unheard>>
        BY <1>5 DEF Forget, audit
    <2>2. CASE b # a
        <3>1. DaemonSame(b)
            BY <1>1, <2>1, <2>2 DEF DaemonSame, Types, DaemonTypes
        <3> QED BY <1>1, <1>2, <2>1, <3>1, UpSame
    <2>3. CASE b = a
        <3>1. ~TakenBy(a, decided[a].by) /\ Report(a) \notin reports
            BY <2>1 DEF Unsettled, TakenBy, Report
        <3>2. (answer[a] = decided[a].by \/ a \in unheard) /\ mirror[a].by = decided[a].by
            BY <2>1, <2>3, <3>1 DEF UpOf, CoreOf, Standing
        <3>3. decided'[a].step = "none"
            BY <2>1, CoreShapes DEF Types, DaemonTypes
        <3> QED BY <1>1, <2>1, <2>3, <3>2, <3>3 DEF UpOf
    <2> QED BY <2>2, <2>3
<1> QED BY <1>3, <1>4, <1>5 DEF TimerActs

(* What was delivered is in hand, or it was lost with the answer.           *)
LEMMA TakeEffects ==
    ASSUME Types, Take, NEW b \in Asks
    PROVE  /\ UNCHANGED <<hook, answer, rows, mirror, reports, sweep, starts>>
           /\ chain' = chain /\ retracted' = retracted
           /\ IF IsQueued(b)
              THEN /\ decided'[b].step = "delivered" /\ decided'[b].by = decided[b].by
                   /\ [ask |-> b, by |-> decided'[b].by] \in taken' \/ b \in unheard'
              ELSE decided'[b] = decided[b] /\ HandKeeps(b)
           /\ b \in unheard => b \in unheard'
<1>1. /\ UNCHANGED <<hook, answer, rows, mirror, reports, sweep, starts, chain, retracted>>
      /\ taken = {} /\ applying = Idle /\ applying' = applying
    BY DEF Take, records, audit
<1>2. decided'[b] = IF IsQueued(b) THEN [decided[b] EXCEPT !.step = "delivered"] ELSE decided[b]
    BY DEF Take
<1>3. HandKeeps(b)
    BY <1>1 DEF HandKeeps, TakenBy
<1>4. ASSUME IsQueued(b)
      PROVE  /\ decided'[b].step = "delivered" /\ decided'[b].by = decided[b].by
             /\ [ask |-> b, by |-> decided[b].by] \in taken' \/ b \in unheard'
    <2>1. decided'[b].step = "delivered" /\ decided'[b].by = decided[b].by
        BY <1>2, <1>4 DEF Types, DaemonTypes, Decided
    <2>2. \/ taken' = {[ask |-> a, by |-> decided[a].by] : a \in {a \in Asks : IsQueued(a)}}
          \/ unheard' = unheard \cup {a \in Asks : IsQueued(a)}
        BY DEF Take
    <2> QED BY <1>4, <2>1, <2>2
<1>5. b \in unheard => b \in unheard'
    BY DEF Take
<1> QED BY <1>1, <1>2, <1>3, <1>4, <1>5

LEMMA TakeUp ==
    ASSUME Types, Take, NEW b \in Asks, UpOf(b), CoreOf(b)
    PROVE  UpOf(b)'
<1>1. CASE IsQueued(b)
    <2>1. TakenBy(b, decided[b].by)' \/ b \in unheard'
        BY <1>1, TakeEffects DEF TakenBy
    <2> QED BY <1>1, <2>1, TakeEffects DEF UpOf
<1>2. CASE ~IsQueued(b)
    <2>1. DaemonSame(b) /\ HandKeeps(b) /\ UNCHANGED <<answer, mirror, reports>>
        BY <1>2, TakeEffects DEF DaemonSame
    <2>2. Report(b)' = Report(b)
        BY DEF Report
    <2> QED BY <2>1, <2>2, UpSame
<1> QED BY <1>1, <1>2

(* The loop keeps what it has in hand until it answered or reported it, or  *)
(* lost the report.                                                        *)
LEMMA HandOfClaims ==
    ASSUME Types, NEW c \in taken, ApplyClaims(c), NEW b \in Asks
    PROVE  HandKeeps(b) \/ (b = c.ask /\ Unreported(b))
<1>1. taken' = taken \ {c} /\ applying = Idle
    BY DEF ApplyClaims
<1>2. \A x \in Deciders : TakenBy(b, x) => [ask |-> b, by |-> x] \in taken
    BY <1>1 DEF TakenBy, Idle, InHand
<1>3. \A x \in Deciders : [ask |-> b, by |-> x] = c => c.ask = b /\ c.by = x
    OBVIOUS
<1>4. CASE Goes(c, "resolve") \/ Goes(c, "report")
    <2>1. applying'.ask = c.ask /\ applying'.by = c.by /\ applying'.step \in InHand
        BY <1>4 DEF Goes, InHand
    <2>2. \A x \in Deciders : [ask |-> b, by |-> x] \in taken => TakenBy(b, x)'
        BY <1>1, <1>3, <2>1 DEF TakenBy
    <2> QED BY <1>2, <2>2 DEF HandKeeps
<1>5. CASE Unreported(c.ask) /\ b # c.ask
    <2>1. \A x \in Deciders : [ask |-> b, by |-> x] \in taken => TakenBy(b, x)'
        BY <1>1, <1>3, <1>5 DEF TakenBy
    <2> QED BY <1>2, <2>1 DEF HandKeeps
<1> QED BY <1>4, <1>5 DEF ApplyClaims

Lost(a) == Unreported(a) /\ UNCHANGED <<mirror, pending, decided, retracted>>

LEMMA HandOfSteps ==
    ASSUME Types, NEW b \in Asks
    PROVE  /\ ApplyResolves => HandKeeps(b) \/ (b = applying.ask /\ Answered(b, applying.by))
           /\ ApplyUnclaims => HandKeeps(b)
           /\ ApplyReports => \/ HandKeeps(b)
                              \/ b = applying.ask /\ (Retract(b) \/ Lost(b))
<1> USE DEF Goes, HandKeeps, TakenBy, InHand
<1>1. CASE ApplyResolves
    <2>1. taken' = taken /\ applying.step = "resolve"
        BY <1>1 DEF ApplyResolves
    <2>2. CASE Answered(applying.ask, applying.by)
        BY <1>1, <2>1, <2>2 DEF ApplyUnclaims, ApplyReports
    <2>3. CASE Goes(applying, "unclaim")
        BY <2>1, <2>3 DEF ApplyUnclaims, ApplyReports
    <2> QED BY <1>1, <2>1, <2>2, <2>3 DEF ApplyResolves, ApplyUnclaims, ApplyReports
<1>2. CASE ApplyUnclaims
    <2>1. taken' = taken /\ applying.step = "unclaim" /\ Goes(applying, "report")
        BY <1>2 DEF ApplyUnclaims
    <2> QED BY <2>1 DEF ApplyResolves, ApplyReports
<1>3. CASE ApplyReports
    <2>1. /\ taken' = taken
          /\ \/ applying.step = "close"
             \/ applying.step = "report" /\ (Retract(applying.ask) \/ Lost(applying.ask))
        BY <1>3 DEF ApplyReports, Lost
    <2> QED BY <2>1 DEF ApplyResolves, ApplyUnclaims
<1> QED BY <1>1, <1>2, <1>3

(* A report on an ask leaves the others as they are, and a lost one all.    *)
LEMMA ReportBeside ==
    ASSUME Types, ApplyReports, NEW b \in Asks, ~(b = applying.ask /\ Retract(b))
    PROVE  DaemonSame(b) /\ mirror'[b].by = mirror[b].by
<1>1. applying.ask \in Asks /\ chain' = chain
    BY DEF ApplyReports, Types, Shapes, Idle
<1>2. CASE Retract(applying.ask)
    BY <1>1, <1>2, RetractBeside
<1>3. CASE Unreported(applying.ask) /\ UNCHANGED <<mirror, decided, retracted>>
    BY <1>1, <1>3 DEF DaemonSame, Unreported
<1>4. CASE Close(applying.ask) /\ UNCHANGED <<decided, retracted, unheard>>
    BY <1>1, <1>4, CloseBeside DEF DaemonSame
<1> QED BY <1>2, <1>3, <1>4 DEF ApplyReports

LEMMA ApplyUp ==
    ASSUME Types, ApplyActs, NEW b \in Asks, UpOf(b), CoreOf(b), RowOf(b)
    PROVE  UpOf(b)'
<1>0. Report(b)' = Report(b)
    BY DEF Report
<1>1. ASSUME NEW c \in taken, ApplyClaims(c)
      PROVE  UpOf(b)'
    <2>1. UNCHANGED <<answer, reports, relay, chain, retracted>>
        BY <1>1 DEF ApplyClaims
    <2>2. b \in unheard => b \in unheard'
        BY <1>1 DEF ApplyClaims, Unreported
    <2>3. DaemonSame(b) /\ mirror'[b].by = mirror[b].by
        BY <2>1, <2>2 DEF DaemonSame, relay
    <2>4. CASE HandKeeps(b)
        BY <1>0, <2>1, <2>3, <2>4, UpSame
    <2>5. CASE b = c.ask /\ Unreported(b)
        BY <2>1, <2>3, <2>5, LostUp
    <2> QED BY <1>1, <2>4, <2>5, HandOfClaims
<1>2. CASE ApplyResolves
    <2>1. /\ UNCHANGED <<reports, relay, audit>> /\ applying.step = "resolve"
          /\ applying.ask \in Asks /\ applying.by \in Deciders
        BY <1>2 DEF ApplyResolves, records, Types, Shapes, Idle
    <2>2. DaemonSame(b) /\ mirror'[b].by = mirror[b].by
        BY <2>1 DEF DaemonSame, relay, audit
    <2>3. CASE b = applying.ask /\ Answered(b, applying.by)
        <3>1. TakenBy(b, applying.by) /\ hook[b] = "held" /\ answer'[b] = applying.by
            BY <2>1, <2>3 DEF TakenBy, InHand, Answered, Types, DesktopTypes
        <3>2. decided[b].step = "delivered" => answer'[b] = decided[b].by
            BY <2>1, <3>1 DEF CoreOf
        <3> QED BY <2>2, <3>1, <3>2, UpAnswers
    <2>4. CASE HandKeeps(b) /\ ~(b = applying.ask /\ Answered(b, applying.by))
        <3>1. answer'[b] = answer[b]
            BY <1>2, <2>1, <2>4 DEF ApplyResolves, Answered, Types, DesktopTypes
        <3> QED BY <1>0, <2>1, <2>2, <2>4, <3>1, UpSame
    <2> QED BY <1>2, <2>3, <2>4, HandOfSteps
<1>3. CASE ApplyUnclaims
    <2>1. UNCHANGED <<answer, reports, relay, audit>>
        BY <1>3 DEF ApplyUnclaims
    <2>2. DaemonSame(b) /\ mirror'[b].by = mirror[b].by
        BY <2>1 DEF DaemonSame, relay, audit
    <2> QED BY <1>0, <1>3, <2>1, <2>2, HandOfSteps, UpSame
<1>4. CASE ApplyReports
    <2>1. UNCHANGED <<answer, reports, chain>> /\ applying.ask \in Asks
        BY <1>4 DEF ApplyReports, records, Types, Shapes, Idle
    <2>2. CASE b = applying.ask /\ Retract(b)
        BY <2>1, <2>2, RetractUp
    <2>3. CASE ~(b = applying.ask /\ Retract(b))
        <3>1. DaemonSame(b) /\ mirror'[b].by = mirror[b].by
            BY <1>4, <2>1, <2>3, ReportBeside
        <3>2. CASE HandKeeps(b)
            BY <1>0, <2>1, <3>1, <3>2, UpSame
        <3>3. CASE b = applying.ask /\ Lost(b)
            BY <2>1, <3>1, <3>3, LostUp DEF Lost
        <3> QED BY <1>4, <2>3, <3>2, <3>3, HandOfSteps
    <2> QED BY <2>2, <2>3
<1> QED BY <1>1, <1>2, <1>3, <1>4 DEF ApplyActs

BothUp == Up /\ DaemonUp
UpInv  == BothUp => \A a \in Asks : UpOf(a)

LEMMA UpStep ==
    Types /\ RowInv /\ Core /\ UpInv /\ [Next]_vars => UpInv'
<1> SUFFICES ASSUME Types, RowInv, Core, UpInv, [Next]_vars, BothUp', NEW b \in Asks
             PROVE  UpOf(b)'
    BY DEF UpInv
<1>1. BothUp /\ ~DesktopRestarts /\ ~DaemonRestarts
    BY StaysUp, DaemonStaysUp DEF BothUp
<1>2. UpOf(b) /\ CoreOf(b) /\ RowOf(b)
    BY <1>1 DEF UpInv, Core, RowInv, BothUp
<1>3. ~SweepReads /\ \A a \in Asks : ~SweepMarks(a)
    BY <1>1 DEF RowInv, BothUp, SweepReads, SweepMarks, Due
<1>4. CASE UNCHANGED vars \/ OtherPoll \/ PollEnds
    <2>1. UNCHANGED <<answer, taken, applying, reports, mirror, decided, chain, retracted, unheard>>
        BY <1>4 DEF vars, OtherPoll, PollEnds, deciding, records, relay, audit
    <2>2. DaemonSame(b) /\ HandKeeps(b) /\ Report(b)' = Report(b)
        BY <2>1 DEF DaemonSame, HandKeeps, TakenBy, Report
    <2> QED BY <1>2, <2>1, <2>2, UpSame
<1>5. ASSUME NEW a \in Asks, HookActs(a)
      PROVE  UpOf(b)'
    BY <1>2, <1>5, HookUp
<1>6. ASSUME NEW a \in Asks, HostActs(a)
      PROVE  UpOf(b)'
    BY <1>2, <1>6, HostUp
<1>7. ASSUME NEW a \in Asks, TimerActs(a)
      PROVE  UpOf(b)'
    BY <1>2, <1>7, TimerUp
<1>8. ASSUME NEW d \in Deciders, CallActs(d)
      PROVE  UpOf(b)'
    BY <1>2, <1>8, CallUp
<1>9. ASSUME NEW r \in reports, Resolve(r)
      PROVE  UpOf(b)'
    BY <1>2, <1>9, ResolveUp
<1>10. CASE Take
    BY <1>2, <1>10, TakeUp
<1>11. CASE ApplyActs
    BY <1>2, <1>11, ApplyUp
<1> QED BY <1>1, <1>3, <1>4, <1>5, <1>6, <1>7, <1>8, <1>9, <1>10, <1>11, Groups DEF LoopActs, BootActs

LEMMA UpInit == Init => UpInv
<1> SUFFICES ASSUME Init, NEW a \in Asks PROVE UpOf(a)
    BY DEF UpInv
<1>1. decided[a] = Undecided /\ chain[a] = {} /\ retracted[a] = {}
    BY DEF Init
<1> QED BY <1>1 DEF UpOf, Undecided

(* Whatever is lost: what the chain claims of an ask that nothing is on its *)
(* way for is what the mirror names, and what the hook was answered unless  *)
(* the decision or the report on it was lost and not made good.             *)
THEOREM ClaimedIsAnswered == Spec => []DecidedHappened
<1>1. Spec => [](Types /\ RowInv /\ Core /\ UpInv)
    BY TypesInit, TypesStep, RowInit, RowStep, CoreInit, CoreStep, UpInit, UpStep, PTL DEF Spec
<1>2. Types /\ RowInv /\ Core /\ UpInv => DecidedHappened
    <2> SUFFICES ASSUME Types, Core, UpInv, NEW a \in Asks,
                        starts.desktop + starts.daemon = 0, ~Unsettled(a)
                 PROVE  /\ a \notin unheard => Claimed(a) \subseteq {answer[a]}
                        /\ Claimed(a) = {mirror[a].by} \ {None}
        BY DEF DecidedHappened
    <2>1. UpOf(a) /\ CoreOf(a)
        BY StartsAssumption DEF UpInv, Core, BothUp, Up, DaemonUp, Types, DaemonTypes, Starts
    <2>2. (\A d \in Deciders : calls[d].ask # a) /\ decided[a].step \in {"none", "delivered"}
        BY CoreShapes DEF Unsettled, IsQueued
    <2>3. CASE decided[a].step = "none"
        BY <2>1, <2>2, <2>3, CoreShapes DEF CoreOf, Settled, UpOf, Claimed, IsAt
    <2>4. CASE decided[a].step = "delivered"
        <3>1. decided[a].by \in Deciders /\ decided[a].by # None
            BY <2>4, CoreShapes
        <3>2. chain[a] = {decided[a].by} /\ retracted[a] = {} /\ mirror[a].by = decided[a].by
            BY <2>1, <2>2, <2>4, <3>1 DEF CoreOf, Standing, IsAt
        <3>3. answer[a] = decided[a].by \/ a \in unheard
            BY <2>1, <2>4 DEF UpOf, Unsettled, TakenBy, Report
        <3> QED BY <3>1, <3>2, <3>3 DEF Claimed
    <2> QED BY <2>2, <2>3, <2>4
<1> QED BY <1>1, <1>2, PTL

-----------------------------------------------------------------------------
(* One restart of the desktop: its boot sweep.                             *)
LEMMA SweepSame ==
    ASSUME Types, NEW b \in Asks, SweepOf(b), DaemonSame(b),
           starts' = starts, sweep' = sweep, Ended(b) => Ended(b)',
           rows[b].state = "over" => rows'[b].state = "over", Swept(b)' => Swept(b),
           Swept(b) => HandKeeps(b), Report(b) \in reports => Report(b) \in reports'
    PROVE  SweepOf(b)'
<1>1. decided[b].step = "delivered" => decided[b].by \in Deciders
    BY CoreShapes
<1>2. Report(b)' = Report(b) /\ (Passed(b) <=> Passed(b)')
    BY DEF Report, Passed
<1> QED BY <1>1, <1>2 DEF SweepOf, DaemonSame, HandKeeps

(* A decision was queued or taken back: nothing is delivered or forgotten.  *)
LEMMA SweepVacuous ==
    ASSUME NEW b \in Asks, SweepOf(b), UNCHANGED <<starts, sweep, hook, rows>>,
           decided'[b].step # "delivered",
           decided'[b].step = "none" => chain'[b] = retracted'[b]
    PROVE  SweepOf(b)'
<1>1. (Passed(b) <=> Passed(b)') /\ (Ended(b) <=> Ended(b)') /\ (Swept(b) <=> Swept(b)')
    BY DEF Passed, Ended, Swept
<1> QED BY <1>1 DEF SweepOf

(* The desktop's own steps, up to what is in hand and what is reported.     *)
LEMMA RowsStay ==
    ASSUME Types, NEW a \in Asks, HookActs(a) \/ HostActs(a), NEW b \in Asks, RowOf(b)
    PROVE  /\ Ended(b) => Ended(b)'
           /\ rows[b].state = "over" => rows'[b].state = "over"
           /\ Swept(b)' => Swept(b)
<1> USE DEF Types, Ended, Swept
<1>1. ASSUME rows' = rows \/ rows' = [rows EXCEPT ![a].state = "over"]
      PROVE  /\ rows[b].state = "over" => rows'[b].state = "over"
             /\ Swept(b)' => Swept(b)
    <2>1. CASE rows' = rows
        BY <2>1
    <2>2. CASE rows' = [rows EXCEPT ![a].state = "over"]
        <3>1. /\ rows'[b].by = rows[b].by
              /\ b = a => rows'[b].state = "over"
              /\ b # a => rows'[b] = rows[b]
            BY <2>2, RowFields DEF DesktopTypes
        <3> QED BY <3>1
    <2> QED BY <1>1, <2>1, <2>2
<1>2. CASE HookActs(a)
    <2>1. Ended(b) => Ended(b)'
        BY <1>2 DEF HookActs, Ask, HookEnds, HangUp, FlipRow, WriteRow, Put, DesktopTypes
    <2>2. rows' = rows \/ rows' = [rows EXCEPT ![a].state = "over"] \/ WriteRow(a)
        BY <1>2 DEF HookActs, Ask, HookEnds, HangUp, FlipRow, Put
    <2>3. CASE WriteRow(a)
        <3>1. rec[a] = "row" /\ rows' = [rows EXCEPT ![a].state = "open"]
            BY <2>3 DEF WriteRow
        <3> QED BY <2>1, <3>1, RowFields DEF RowOf, DesktopTypes
    <2> QED BY <1>1, <2>1, <2>2, <2>3
<1>3. CASE HostActs(a)
    <2>1. Ended(b) => Ended(b)'
        BY <1>3 DEF HostActs, HostClaims, HostResolves, HostUnclaims, HostAnswers, Answered, DesktopTypes
    <2>2. \/ rows' = rows \/ rows' = [rows EXCEPT ![a].by = None]
          \/ rows' = [rows EXCEPT ![a] = [state |-> "over", by |-> Host]]
        BY <1>3 DEF HostActs, HostClaims, HostResolves, HostUnclaims, HostAnswers, Opens, Unclaimed
    <2>3. CASE rows' = [rows EXCEPT ![a].by = None]
        BY <2>1, <2>3, RowFields, NamesAssumption DEF DesktopTypes
    <2>4. CASE rows' = [rows EXCEPT ![a] = [state |-> "over", by |-> Host]]
        BY <2>1, <2>4, NamesAssumption DEF DesktopTypes
    <2> QED BY <2>1, <2>2, <2>3, <2>4
<1> QED BY <1>2, <1>3

LEMMA DesktopSweep ==
    ASSUME Types, NEW a \in Asks, HookActs(a) \/ HostActs(a), NEW b \in Asks, RowOf(b), SweepOf(b)
    PROVE  SweepOf(b)'
<1>1. UNCHANGED <<taken, applying, decided, chain, retracted, unheard, starts, sweep>>
    BY DEF HookActs, Ask, HookEnds, HangUp, FlipRow, WriteRow, Put, HostActs, HostClaims, HostResolves,
       HostUnclaims, HostAnswers, deciding, records, relay, audit
<1>2. DaemonSame(b) /\ HandKeeps(b)
    BY <1>1 DEF DaemonSame, HandKeeps, TakenBy
<1>3. Report(b) \in reports => Report(b) \in reports'
    BY DEF HookActs, Ask, HookEnds, HangUp, FlipRow, WriteRow, Put, HostActs, HostClaims, HostResolves,
       HostUnclaims, HostAnswers
<1> QED BY <1>1, <1>2, <1>3, RowsStay, SweepSame

LEMMA CallSweep ==
    ASSUME Types, NEW d \in Deciders, CallActs(d), NEW b \in Asks, SweepOf(b), CoreOf(b)
    PROVE  SweepOf(b)'
<1>1. UNCHANGED <<hook, rows, taken, applying, reports, sweep, starts, unheard>>
    BY CallEffects
<1>2. /\ HandKeeps(b) /\ (Ended(b) <=> Ended(b)') /\ (Swept(b) <=> Swept(b)')
      /\ (Passed(b) <=> Passed(b)') /\ Report(b)' = Report(b)
    BY <1>1 DEF HandKeeps, TakenBy, Ended, Swept, Passed, Report
<1>3. CASE DaemonSame(b)
    BY <1>1, <1>2, <1>3, SweepSame
<1>4. CASE decided'[b].step = "queued"
    BY <1>1, <1>4, SweepVacuous
<1>5. CASE /\ decided[b].step = "delivered" /\ decided'[b].step = "delivered"
           /\ decided'[b].by = decided[b].by
    <2>1. TakenBy(b, decided[b].by) => TakenBy(b, decided[b].by)'
        BY <1>1, <1>5 DEF TakenBy
    <2> QED BY <1>1, <1>2, <1>5, <2>1 DEF SweepOf
<1> QED BY <1>3, <1>4, <1>5, CallEffects

LEMMA RetractSweep ==
    ASSUME Types, NEW a \in Asks, CoreOf(a), Retract(a), chain' = chain, SweepOf(a),
           UNCHANGED <<starts, sweep, hook, rows>>
    PROVE  SweepOf(a)'
<1>1. CASE decided[a].step = "none"
    <2>1. decided'[a].step = "none" /\ DaemonSame(a)
        BY <1>1, RetractSettles
    <2>2. (Passed(a) <=> Passed(a)') /\ (Ended(a) <=> Ended(a)') /\ (Swept(a) <=> Swept(a)')
        BY DEF Passed, Ended, Swept
    <2> QED BY <1>1, <2>1, <2>2 DEF SweepOf, DaemonSame
<1>2. CASE decided[a].step # "none"
    BY <1>2, RetractSettles, SweepVacuous
<1> QED BY <1>1, <1>2

LEMMA LostSweep ==
    ASSUME NEW a \in Asks, Unreported(a), SweepOf(a), DaemonSame(a),
           starts' = starts, sweep' = sweep, hook' = hook,
           rows[a].state = "over" => rows'[a].state = "over", Swept(a)' => Swept(a)
    PROVE  SweepOf(a)'
<1>1. decided[a].step = "delivered" => a \in unheard'
    BY DEF Unreported
<1>2. (Passed(a) <=> Passed(a)') /\ (Ended(a) <=> Ended(a)')
    BY DEF Passed, Ended
<1> QED BY <1>1, <1>2 DEF SweepOf, DaemonSame

LEMMA ResolveSweep ==
    ASSUME Types, NEW r \in reports, Resolve(r), NEW b \in Asks, SweepOf(b), CoreOf(b)
    PROVE  SweepOf(b)'
<1>1. r.ask \in Asks /\ r = [ask |-> r.ask, step |-> r.step]
    BY DEF Types, DesktopTypes, Reports
<1>2. UNCHANGED <<hook, rows, taken, applying, sweep, starts, chain>>
    BY DEF Resolve, deciding, records
<1>3. HandKeeps(b) /\ (Ended(b) <=> Ended(b)') /\ (Swept(b) <=> Swept(b)')
    BY <1>2 DEF HandKeeps, TakenBy, Ended, Swept
<1>4. CASE Retract(r.ask) /\ r.step = "sent" /\ reports' = (reports \ {r}) \cup {[r EXCEPT !.step = "close"]}
    <2>1. b # r.ask /\ Report(b) \in reports => Report(b) \in reports'
        BY <1>4 DEF Report
    <2>2. CASE b = r.ask
        BY <1>1, <1>2, <1>4, <2>2, RetractSweep
    <2>3. CASE b # r.ask
        BY <1>1, <1>2, <1>3, <1>4, <2>1, <2>3, RetractBeside, SweepSame
    <2> QED BY <2>2, <2>3
<1>5. CASE Close(r.ask) /\ r.step = "close" /\ reports' = reports \ {r} /\ UNCHANGED <<decided, retracted, unheard>>
    <2>1. Report(b) \in reports => Report(b) \in reports'
        BY <1>5 DEF Report
    <2>2. DaemonSame(b)
        BY <1>2, <1>5 DEF DaemonSame
    <2> QED BY <1>2, <1>3, <2>1, <2>2, SweepSame
<1>6. CASE /\ Unreported(r.ask) /\ r.step = "sent" /\ reports' = reports \ {r}
           /\ UNCHANGED <<mirror, pending, decided, retracted>>
    <2>1. DaemonSame(b)
        BY <1>2, <1>6 DEF DaemonSame, Unreported
    <2>2. CASE b = r.ask
        BY <1>2, <1>3, <1>6, <2>1, <2>2, LostSweep
    <2>3. CASE b # r.ask
        <3>1. Report(b) \in reports => Report(b) \in reports'
            BY <1>6, <2>3 DEF Report
        <3> QED BY <1>2, <1>3, <2>1, <3>1, SweepSame
    <2> QED BY <2>2, <2>3
<1> QED BY <1>4, <1>5, <1>6 DEF Resolve

(* A decision is forgotten when its ask is not one the boot may yet close.  *)
LEMMA TimerSweep ==
    ASSUME Types, NEW a \in Asks, TimerActs(a), NEW b \in Asks, SweepOf(b), CoreOf(b), RowOf(b),
           Up => UpOf(b), starts.desktop <= 1
    PROVE  SweepOf(b)'
<1>1. UNCHANGED <<hook, rows, taken, applying, reports, sweep, starts, chain>>
    BY DEF TimerActs, Expire, ExpireRetracts, Forget, deciding, records, audit
<1>2. /\ HandKeeps(b) /\ (Ended(b) <=> Ended(b)') /\ (Swept(b) <=> Swept(b)')
      /\ (Passed(b) <=> Passed(b)') /\ Report(b)' = Report(b)
    BY <1>1 DEF HandKeeps, TakenBy, Ended, Swept, Passed, Report
<1>3. CASE Expire(a)
    <2>1. DaemonSame(b)
        BY <1>1, <1>3 DEF Expire, DaemonSame, audit
    <2> QED BY <1>1, <1>2, <2>1, SweepSame
<1>4. CASE ExpireRetracts(a)
    <2>1. Retract(a)
        BY <1>4 DEF ExpireRetracts
    <2>2. CASE b = a
        BY <1>1, <2>1, <2>2, RetractSweep
    <2>3. CASE b # a
        BY <1>1, <1>2, <2>1, <2>3, RetractBeside, SweepSame
    <2> QED BY <2>2, <2>3
<1>5. CASE Forget(a)
    <2>1. /\ decided[a].step = "delivered" /\ ~Unsettled(a) /\ decided' = [decided EXCEPT ![a] = Undecided]
          /\ UNCHANGED <<retracted, unheard>>
        BY <1>5 DEF Forget, audit
    <2>2. CASE b # a
        <3>1. DaemonSame(b)
            BY <1>1, <2>1, <2>2 DEF DaemonSame, Types, DaemonTypes
        <3> QED BY <1>1, <1>2, <3>1, SweepSame
    <2>3. CASE b = a
        <3>1. /\ ~TakenBy(a, decided[a].by) /\ Report(a) \notin reports
              /\ sweep # Due /\ a \notin sweep
            BY <2>1 DEF Unsettled, TakenBy, Report
        <3>2. ~Swept(a) \/ a \in unheard
            BY <2>1, <2>3, <3>1 DEF SweepOf
        <3>3. rows[a].state = "over" \/ Passed(a) \/ a \in unheard
            <4>1. CASE Up
                <5>1. (answer[a] = decided[a].by \/ a \in unheard) /\ decided[a].by \in Deciders
                    BY <2>1, <2>3, <3>1, <4>1, CoreShapes DEF UpOf
                <5> QED BY <2>3, <5>1 DEF RowOf
            <4>2. CASE ~Up
                BY <3>1, <4>2, StartsAssumption DEF Passed, Up, Types, DaemonTypes, Starts
            <4> QED BY <4>1, <4>2
        <3>4. decided'[a].step = "none"
            BY <2>1, CoreShapes DEF Types, DaemonTypes
        <3> QED BY <1>1, <1>2, <2>1, <2>3, <3>2, <3>3, <3>4 DEF SweepOf
    <2> QED BY <2>2, <2>3
<1> QED BY <1>3, <1>4, <1>5 DEF TimerActs

LEMMA TakeSweep ==
    ASSUME Types, Take, NEW b \in Asks, SweepOf(b)
    PROVE  SweepOf(b)'
<1>1. /\ UNCHANGED <<hook, rows, reports, sweep, starts>> /\ chain' = chain /\ retracted' = retracted
    BY TakeEffects
<1>2. /\ (Ended(b) <=> Ended(b)') /\ (Swept(b) <=> Swept(b)') /\ (Passed(b) <=> Passed(b)')
      /\ Report(b)' = Report(b)
    BY <1>1 DEF Ended, Swept, Passed, Report
<1>3. CASE IsQueued(b)
    <2>1. decided'[b].step = "delivered" /\ (TakenBy(b, decided[b].by)' \/ b \in unheard')
        BY <1>3, TakeEffects DEF TakenBy
    <2> QED BY <1>1, <1>2, <2>1 DEF SweepOf
<1>4. CASE ~IsQueued(b)
    <2>1. DaemonSame(b) /\ HandKeeps(b)
        BY <1>1, <1>4, TakeEffects DEF DaemonSame
    <2> QED BY <1>1, <1>2, <2>1, SweepSame
<1> QED BY <1>3, <1>4

LEMMA ApplySweep ==
    ASSUME Types, ApplyActs, NEW b \in Asks, SweepOf(b), CoreOf(b), RowOf(b)
    PROVE  SweepOf(b)'
<1>0. Report(b)' = Report(b)
    BY DEF Report
<1>1. ASSUME NEW c \in taken, ApplyClaims(c)
      PROVE  SweepOf(b)'
    <2>1. UNCHANGED <<hook, sweep, reports, starts, relay, chain, retracted>>
        BY <1>1 DEF ApplyClaims
    <2>2. DaemonSame(b) /\ (Ended(b) => Ended(b)')
        BY <1>1, <2>1 DEF ApplyClaims, Unreported, DaemonSame, Ended, relay
    <2>3. c.ask \in Asks /\ c.by \in Deciders
        BY DEF Types, DesktopTypes, Choice
    <2>4. rows' = rows \/ rows' = [rows EXCEPT ![c.ask] = [state |-> "over", by |-> c.by]]
        BY <1>1 DEF ApplyClaims, Opens
    <2>5. (rows[b].state = "over" => rows'[b].state = "over") /\ (Swept(b)' => Swept(b))
        BY <2>3, <2>4, NamesAssumption DEF Swept, Types, DesktopTypes
    <2>6. CASE HandKeeps(b)
        BY <1>0, <2>1, <2>2, <2>5, <2>6, SweepSame
    <2>7. CASE b = c.ask /\ Unreported(b)
        BY <2>1, <2>2, <2>5, <2>7, LostSweep
    <2> QED BY <1>1, <2>6, <2>7, HandOfClaims
<1>2. CASE ApplyResolves
    <2>1. /\ UNCHANGED <<rows, sweep, reports, starts, relay, audit>> /\ applying.step = "resolve"
          /\ applying.ask \in Asks /\ applying.by \in Deciders
        BY <1>2 DEF ApplyResolves, records, Types, Shapes, Idle
    <2>2. DaemonSame(b) /\ (Swept(b) <=> Swept(b)')
        BY <2>1 DEF DaemonSame, Swept, relay, audit
    <2>3. Ended(b) => Ended(b)'
        BY <1>2, <2>1 DEF ApplyResolves, Answered, Ended, Types, DesktopTypes
    <2>4. Swept(b) => HandKeeps(b)
        BY <1>2, <2>1, HandOfSteps, NamesAssumption DEF RowOf, Claims, Swept
    <2> QED BY <1>0, <2>1, <2>2, <2>3, <2>4, SweepSame
<1>3. CASE ApplyUnclaims
    <2>1. /\ UNCHANGED <<hook, sweep, reports, starts, relay, audit>> /\ applying.ask \in Asks
          /\ rows' = [rows EXCEPT ![applying.ask].by = None]
        BY <1>3 DEF ApplyUnclaims, Unclaimed, records, Types, Shapes, Idle
    <2>2. DaemonSame(b) /\ (Ended(b) => Ended(b)') /\ HandKeeps(b)
        BY <1>3, <2>1, HandOfSteps DEF DaemonSame, Ended, relay, audit
    <2>3. /\ b = applying.ask => rows'[b].by = None /\ rows'[b].state = rows[b].state
          /\ b # applying.ask => rows'[b] = rows[b]
        BY <2>1, RowFields DEF Types, DesktopTypes
    <2> QED BY <1>0, <2>1, <2>2, <2>3, SweepSame, NamesAssumption DEF Swept
<1>4. CASE ApplyReports
    <2>1. UNCHANGED <<hook, rows, sweep, reports, starts, chain>> /\ applying.ask \in Asks
        BY <1>4 DEF ApplyReports, records, Types, Shapes, Idle
    <2>2. CASE b = applying.ask /\ Retract(b)
        BY <2>1, <2>2, RetractSweep
    <2>3. CASE ~(b = applying.ask /\ Retract(b))
        <3>1. DaemonSame(b)
            BY <1>4, <2>3, ReportBeside
        <3>2. (Ended(b) <=> Ended(b)') /\ (Swept(b) <=> Swept(b)')
            BY <2>1 DEF Ended, Swept
        <3>3. CASE HandKeeps(b)
            BY <1>0, <2>1, <3>1, <3>2, <3>3, SweepSame
        <3>4. CASE b = applying.ask /\ Lost(b)
            BY <2>1, <3>1, <3>2, <3>4, LostSweep DEF Lost
        <3> QED BY <1>4, <2>3, <3>3, <3>4, HandOfSteps
    <2> QED BY <2>2, <2>3
<1> QED BY <1>1, <1>2, <1>3, <1>4 DEF ApplyActs

(* The boot: nothing was closed before it, it reads what is open and over,  *)
(* and reports what it closes.                                             *)
LEMMA BootSweep ==
    ASSUME Types, RowInv, NEW b \in Asks, SweepOf(b), starts'.desktop <= 1,
           DesktopRestarts \/ SweepReads \/ \E a \in Asks : SweepMarks(a)
    PROVE  SweepOf(b)'
<1>1. Due \notin SUBSET Asks /\ Due # {} /\ b \notin Due
    BY NamesAssumption DEF Due
<1>2. starts.desktop \in Nat
    BY StartsAssumption DEF Types, DaemonTypes, Starts
<1>3. CASE DesktopRestarts
    <2>1. starts'.desktop = starts.desktop + 1
        BY <1>3 DEF DesktopRestarts, Types, DaemonTypes, Starts
    <2>2. starts.desktop = 0
        BY <1>2, <2>1
    <2>3. UNCHANGED <<rows, decided, chain, retracted, unheard>> /\ sweep' = Due
        BY <1>3 DEF DesktopRestarts, relay, audit
    <2> QED BY <1>1, <2>2, <2>3 DEF SweepOf, Passed, Swept
<1>4. CASE SweepReads
    <2>1. sweep = Due /\ UNCHANGED <<hook, rows, decided, chain, retracted, unheard, starts>>
          /\ sweep' = {a \in Asks : rows[a].state = "open" /\ hook[a] \in {"over", "dead"}}
        BY <1>4 DEF SweepReads, relay, audit
    <2>2. starts.desktop = 1 /\ starts'.desktop = 1
        BY <1>1, <1>2, <2>1 DEF RowInv, Up
    <2>3. ~Swept(b) /\ ~Swept(b)'
        BY <2>1 DEF SweepOf, Passed, Swept
    <2>4. b \in sweep' => Ended(b)' /\ rows[b].state = "open"
        BY <2>1 DEF Ended
    <2> QED BY <2>1, <2>2, <2>3, <2>4 DEF SweepOf, Passed
<1>5. ASSUME NEW a \in Asks, SweepMarks(a)
      PROVE  SweepOf(b)'
    <2>1. /\ sweep # Due /\ a \in sweep /\ sweep' = sweep \ {a}
          /\ UNCHANGED <<hook, taken, applying, decided, chain, retracted, unheard, starts>>
        BY <1>5 DEF SweepMarks, deciding, relay, audit
    <2>2. sweep \in SUBSET Asks /\ sweep' # Due
        BY <1>1, <2>1 DEF Types, DesktopTypes
    <2>3. DaemonSame(b) /\ HandKeeps(b) /\ (Ended(b) <=> Ended(b)') /\ (Passed(b) => Passed(b)')
        BY <2>1, <2>2 DEF DaemonSame, HandKeeps, TakenBy, Ended, Passed
    <2>4. Report(b)' = Report(b) /\ (Report(b) \in reports => Report(b) \in reports')
        BY <1>5 DEF SweepMarks, Report
    <2>5. decided[b].step = "delivered" => decided[b].by \in Deciders
        BY CoreShapes
    <2>6. CASE b = a /\ Opens(a, "swept")
        <3>1. /\ rows[b].state = "open" /\ rows'[b].state = "over" /\ rows'[b].by = "swept"
            BY <2>6 DEF Opens, Types, DesktopTypes
        <3>2. Report(b) \in reports'
            BY <1>5, <2>6, <3>1 DEF SweepMarks, Sent, Report
        <3>3. Ended(b) /\ starts.desktop = 1 /\ ~Passed(b)
            BY <2>1, <2>6 DEF SweepOf, Passed
        <3>4. Passed(b)'
            BY <2>1, <2>2, <2>6, <3>3 DEF Passed
        <3>5. ~(decided[b].step = "none" /\ chain[b] # retracted[b]) \/ b \in unheard
            BY <3>1, <3>3 DEF SweepOf
        <3> QED BY <2>1, <2>3, <2>4, <3>1, <3>2, <3>3, <3>4, <3>5 DEF SweepOf, DaemonSame, Passed
    <2>7. CASE rows'[b] = rows[b]
        <3>1. Swept(b) <=> Swept(b)'
            BY <2>7 DEF Swept
        <3> QED BY <2>1, <2>3, <2>4, <2>5, <2>7, <3>1 DEF SweepOf, DaemonSame, HandKeeps
    <2>8. b # a \/ rows[a].state # "open" => rows'[b] = rows[b]
        BY <1>5 DEF SweepMarks, Opens, Types, DesktopTypes
    <2> QED BY <1>5, <2>6, <2>7, <2>8 DEF SweepMarks, Opens
<1> QED BY <1>3, <1>4, <1>5

OneBoot  == DaemonUp /\ starts.desktop <= 1
SweepInv == OneBoot => \A a \in Asks : SweepOf(a)

LEMMA SweepStep ==
    Types /\ RowInv /\ Core /\ UpInv /\ SweepInv /\ [Next]_vars => SweepInv'
<1> SUFFICES ASSUME Types, RowInv, Core, UpInv, SweepInv, [Next]_vars, OneBoot', NEW b \in Asks
             PROVE  SweepOf(b)'
    BY DEF SweepInv
<1>1. DaemonUp /\ ~DaemonRestarts
    BY DaemonStaysUp DEF OneBoot
<1>2. CASE DesktopRestarts
    <2>1. starts'.desktop = starts.desktop + 1 /\ starts.desktop \in Nat
        BY <1>2, StartsAssumption DEF DesktopRestarts, Types, DaemonTypes, Starts
    <2>2. OneBoot
        BY <1>1, <2>1 DEF OneBoot
    <2> QED BY <1>2, <2>2, BootSweep DEF SweepInv, OneBoot
<1>3. ASSUME ~DesktopRestarts
      PROVE  SweepOf(b)'
    <2>1. UNCHANGED starts
        BY <1>1, <1>3 DEF Next, vars, Ask, HookEnds, HangUp, FlipRow, WriteRow, Put, HostClaims, HostResolves,
           HostUnclaims, HostAnswers, Expire, ExpireRetracts, Forget, SweepMarks, RemoteQueues,
           RemoteUnclaims, AuditDecided, RemoteClaims, Resolve, ApplyClaims, OtherPoll, PollEnds, Take,
           ApplyResolves, ApplyUnclaims, ApplyReports, SweepReads
    <2>2. SweepOf(b) /\ CoreOf(b) /\ RowOf(b) /\ (Up => UpOf(b)) /\ starts.desktop <= 1
        BY <1>1, <2>1 DEF SweepInv, OneBoot, Core, RowInv, UpInv, BothUp
    <2>3. CASE UNCHANGED vars \/ OtherPoll \/ PollEnds
        <3>1. UNCHANGED <<hook, rows, taken, applying, reports, sweep, decided, chain, retracted, unheard>>
            BY <2>3 DEF vars, OtherPoll, PollEnds, deciding, records, relay, audit
        <3>2. /\ DaemonSame(b) /\ HandKeeps(b) /\ (Ended(b) <=> Ended(b)') /\ (Swept(b) <=> Swept(b)')
              /\ Report(b)' = Report(b)
            BY <3>1 DEF DaemonSame, HandKeeps, TakenBy, Ended, Swept, Report
        <3> QED BY <2>1, <2>2, <3>1, <3>2, SweepSame
    <2>4. ASSUME NEW a \in Asks, HookActs(a) \/ HostActs(a)
          PROVE  SweepOf(b)'
        BY <2>2, <2>4, DesktopSweep
    <2>5. ASSUME NEW a \in Asks, TimerActs(a)
          PROVE  SweepOf(b)'
        BY <2>2, <2>5, TimerSweep
    <2>6. ASSUME NEW d \in Deciders, CallActs(d)
          PROVE  SweepOf(b)'
        BY <2>2, <2>6, CallSweep
    <2>7. ASSUME NEW r \in reports, Resolve(r)
          PROVE  SweepOf(b)'
        BY <2>2, <2>7, ResolveSweep
    <2>8. CASE Take
        BY <2>2, <2>8, TakeSweep
    <2>9. CASE ApplyActs
        BY <2>2, <2>9, ApplySweep
    <2>10. CASE SweepReads \/ \E a \in Asks : SweepMarks(a)
        BY <2>2, <2>10, BootSweep DEF OneBoot
    <2> QED BY <1>1, <1>3, <2>3, <2>4, <2>5, <2>6, <2>7, <2>8, <2>9, <2>10, Groups DEF LoopActs, BootActs
<1> QED BY <1>2, <1>3

LEMMA SweepInit == Init => SweepInv
<1> SUFFICES ASSUME Init, NEW a \in Asks PROVE SweepOf(a)
    BY DEF SweepInv
<1>1. decided[a] = Undecided /\ chain[a] = {} /\ retracted[a] = {} /\ sweep = {} /\ rows[a].by = None
    BY DEF Init
<1> QED BY <1>1, NamesAssumption DEF SweepOf, Swept, Undecided

(* Nothing is claimed of an ask that the first boot after a crash closed,   *)
(* unless the decision or a report on it was lost and not made good.        *)
THEOREM SweptIsTakenBack == Spec => []SweptIsRetracted
<1>1. Spec => [](Types /\ RowInv /\ Core /\ UpInv /\ SweepInv)
    BY TypesInit, TypesStep, RowInit, RowStep, CoreInit, CoreStep, UpInit, UpStep, SweepInit, SweepStep,
       PTL DEF Spec
<1>2. Types /\ SweepInv => SweptIsRetracted
    <2> SUFFICES ASSUME Types, SweepInv, NEW a \in Asks, starts.daemon = 0, starts.desktop <= 1,
                        rows[a].by = "swept", ~Unsettled(a), a \notin unheard
                 PROVE  Claimed(a) = {}
        BY DEF SweptIsRetracted
    <2>1. SweepOf(a) /\ Swept(a)
        BY DEF SweepInv, OneBoot, DaemonUp, Swept
    <2>2. decided[a].step = "none"
        BY <2>1, CoreShapes DEF SweepOf, Unsettled, IsQueued, TakenBy, Report
    <2>3. chain[a] = retracted[a]
        BY <2>1, <2>2 DEF SweepOf
    <2> QED BY <2>3 DEF Claimed
<1> QED BY <1>1, <1>2, PTL
=============================================================================
