----------------------------- MODULE AskRelay ------------------------------
(***************************************************************************)
(* The desktop's permission asks, answered on the host or, through the      *)
(* local daemon, by a remote device.  The desktop writes a row for each ask *)
(* and mirrors it to the daemon; a remote decision claims the mirror, waits *)
(* in the relay until the desktop's long poll takes it, and is audited as   *)
(* it is queued.  The desktop claims its own row and answers its hook, or   *)
(* reports that it could not, and the daemon retracts what it audited.      *)
(*                                                                          *)
(* The decisions of one poll are applied in any order, one at a time.       *)
(* A row is found and claimed in one step.  A request and its handling are  *)
(* one step, and a lost answer is an outcome of it.  The hold and the       *)
(* mirror's timer end an ask at about the same time, in either order.  Only *)
(* remote decisions are followed to the chain: what the host decides and    *)
(* what times out is audited when the daemon happens to answer.             *)
(***************************************************************************)
EXTENDS Naturals

CONSTANTS
    Asks,         \* keys of desktop asks
    Deciders,     \* remote clients, each with one permission_decide at a time
    Host,         \* the operator at the desktop
    Gate,         \* the gate itself, which denies what nobody answered
    None,
    Faults,       \* what may be lost: the answer to a "put", to a "take", a
                  \* "report" on an ask
    OthersPoll,   \* whether asks beside these keep the poll going
    MaxStarts     \* bound on restarts of the desktop, and of the daemon

ASSUME NamesAssumption ==
    /\ Host # Gate /\ None \notin {Host, Gate} /\ "swept" \notin {Host, Gate, None}
    /\ {Host, Gate, None, "swept"} \cap Deciders = {} /\ {None, "due"} \cap Asks = {}
ASSUME OthersAssumption == OthersPoll \in BOOLEAN
ASSUME StartsAssumption == MaxStarts \in [desktop : Nat, daemon : Nat]

VARIABLES
    hook,         \* the hook's request
    answer,       \* who answered it
    rec,          \* the task that records and mirrors the ask
    rows,         \* the desktop's rows
    flips,        \* tasks that flip the row of an ended ask
    mirrored,     \* pending(): keys mirrored and still open
    loop,         \* relay_loop: waiting to be woken, or polling
    taken,        \* decisions it took and is to apply
    applying,     \* the one it is at, and how far it is
    host,         \* the operator's decide
    reports,      \* reports to the daemon, and how far it is with them
    sweep,        \* the boot sweep: due, or asks it found
    mirror,       \* the daemon's rows
    pending,      \* its open asks
    decided,      \* its remote decisions, one at most of an ask
    calls,        \* what each remote client is deciding
    timer,        \* an ask's timer
    chain,        \* whose decisions of an ask the chain claims
    retracted,    \* whose it took back
    unheard,      \* history: asks whose decision was lost on its way to the
                  \* desktop, or the report on it, and not taken back since
    starts        \* how often each was restarted

deciding == <<loop, taken, applying, host>>
records  == <<rec, flips, mirrored, sweep>>
relay    == <<mirror, pending, decided, calls, timer>>
audit    == <<chain, retracted, unheard>>
vars     == <<hook, answer, rows, deciding, records, reports, relay, audit, starts>>

Who    == Deciders \cup {Host, Gate}
Row    == [state : {"none", "open", "over"}, by : Who \cup {None, "swept"}]
Mirror == [state : {"none", "open", "over"}, by : Deciders \cup {None}]
Choice == [ask : Asks, by : Deciders]
Decided == [step : {"none", "queued", "delivered"}, by : Deciders \cup {None}, audited : BOOLEAN]
Apply   == [step : {"none", "resolve", "unclaim", "report", "close"},
            ask : Asks \cup {None}, by : Deciders \cup {None}]
Due    == {"due"}

TypeOK ==
    /\ hook \in [Asks -> {"none", "held", "answered", "over", "hungup", "dead"}]
    /\ answer \in [Asks -> Who \cup {None}]
    /\ rec \in [Asks -> {"none", "row", "put", "done"}]
    /\ rows \in [Asks -> Row]
    /\ flips \in SUBSET Asks /\ mirrored \in SUBSET Asks
    /\ loop \in {"waiting", "polling"}
    /\ taken \in SUBSET Choice /\ applying \in Apply
    /\ host \in [Asks -> {"none", "claimed", "over", "done"}]
    /\ reports \in SUBSET [ask : Asks, step : {"sent", "close"}]
    /\ sweep \in (SUBSET Asks) \cup {Due}
    /\ mirror \in [Asks -> Mirror] /\ pending \in SUBSET Asks
    /\ decided \in [Asks -> Decided]
    /\ calls \in [Deciders -> [step : {"idle", "claimed", "over", "queued"},
                               ask : Asks \cup {None}]]
    /\ timer \in [Asks -> {"none", "set", "retract", "over"}]
    /\ chain \in [Asks -> SUBSET Deciders] /\ retracted \in [Asks -> SUBSET Deciders]
    /\ unheard \in SUBSET Asks
    /\ starts \in [desktop : 0..MaxStarts.desktop, daemon : 0..MaxStarts.daemon]

Undecided == [step |-> "none", by |-> None, audited |-> FALSE]
Idle      == [step |-> "none", ask |-> None, by |-> None]

Init ==
    /\ hook = [a \in Asks |-> "none"] /\ answer = [a \in Asks |-> None]
    /\ rec = [a \in Asks |-> "none"]
    /\ rows = [a \in Asks |-> [state |-> "none", by |-> None]]
    /\ flips = {} /\ mirrored = {} /\ loop = "waiting" /\ taken = {} /\ applying = Idle
    /\ host = [a \in Asks |-> "none"] /\ reports = {} /\ sweep = {}
    /\ mirror = [a \in Asks |-> [state |-> "none", by |-> None]]
    /\ pending = {} /\ decided = [a \in Asks |-> Undecided]
    /\ calls = [d \in Deciders |-> [step |-> "idle", ask |-> None]]
    /\ timer = [a \in Asks |-> "none"]
    /\ chain = [a \in Asks |-> {}] /\ retracted = [a \in Asks |-> {}]
    /\ unheard = {} /\ starts = [desktop |-> 0, daemon |-> 0]

Sent(as) == [ask : as, step : {"sent"}]

-----------------------------------------------------------------------------
(* The hook on the desktop.                                                *)

Ask(a) ==
    /\ hook[a] = "none" /\ hook' = [hook EXCEPT ![a] = "held"]
    /\ rec' = [rec EXCEPT ![a] = "row"]
    /\ UNCHANGED <<answer, rows, deciding, flips, mirrored, sweep, reports, relay, audit, starts>>

(* An answer woke it, or the hold ran out and the gate denies.  A task     *)
(* flips its row, and another reports it if its mirror is still open.      *)
HookEnds(a) ==
    /\ hook[a] \in {"held", "answered"} /\ hook' = [hook EXCEPT ![a] = "over"]
    /\ answer' = IF hook[a] = "held" THEN [answer EXCEPT ![a] = Gate] ELSE answer
    /\ flips' = flips \cup {a} /\ mirrored' = mirrored \ {a}
    /\ reports' = reports \cup Sent(mirrored \cap {a})
    /\ UNCHANGED <<rows, deciding, rec, sweep, relay, audit, starts>>

(* The hook's connection drops, and its handler with it.                   *)
HangUp(a) ==
    /\ hook[a] = "held" /\ hook' = [hook EXCEPT ![a] = "hungup"]
    /\ UNCHANGED <<answer, rows, deciding, records, reports, relay, audit, starts>>

FlipRow(a) ==
    /\ a \in flips /\ flips' = flips \ {a}
    /\ rows' = IF rows[a].state = "open" THEN [rows EXCEPT ![a].state = "over"] ELSE rows
    /\ UNCHANGED <<hook, answer, deciding, rec, mirrored, sweep, reports, relay, audit, starts>>

(* The recording task: the row, then the mirror.                           *)
WriteRow(a) ==
    /\ rec[a] = "row" /\ rec' = [rec EXCEPT ![a] = "put"]
    /\ rows' = [rows EXCEPT ![a].state = "open"]
    /\ mirrored' = mirrored \cup {a}
    /\ UNCHANGED <<hook, answer, deciding, flips, sweep, reports, relay, audit, starts>>

(* The daemon keeps a row of its own open for as long as the ask.          *)
Mirrored(a) ==
    /\ mirror' = [mirror EXCEPT ![a].state = "open"]
    /\ pending' = pending \cup {a} /\ timer' = [timer EXCEPT ![a] = "set"]

(* Only a mirror the desktop knows of wakes its poll.                      *)
Put(a) ==
    /\ rec[a] = "put" /\ rec' = [rec EXCEPT ![a] = "done"]
    /\ \/ /\ Mirrored(a) /\ UNCHANGED mirrored
          /\ loop' = IF mirrored # {} THEN "polling" ELSE loop
       \/ /\ "put" \in Faults /\ mirrored' = mirrored \ {a} /\ UNCHANGED loop
          /\ Mirrored(a) \/ UNCHANGED <<mirror, pending, timer>>
    /\ UNCHANGED <<hook, answer, rows, taken, applying, host, flips, sweep>>
    /\ UNCHANGED <<reports, decided, calls, audit, starts>>

-----------------------------------------------------------------------------
(* Deciding on the desktop: the operator.                                  *)

Opens(a, who) ==
    /\ rows[a].state = "open"
    /\ rows' = [rows EXCEPT ![a] = [state |-> "over", by |-> who]]

Unclaimed(a) == rows' = [rows EXCEPT ![a].by = None]

Answered(a, who) ==
    /\ hook[a] = "held" /\ hook' = [hook EXCEPT ![a] = "answered"]
    /\ answer' = [answer EXCEPT ![a] = who]

HostIs(a, step) == host' = [host EXCEPT ![a] = step]

HostClaims(a) ==
    /\ host[a] = "none" /\ Opens(a, Host) /\ HostIs(a, "claimed")
    /\ UNCHANGED <<hook, answer, loop, taken, applying, records, reports, relay, audit, starts>>

HostResolves(a) ==
    /\ host[a] = "claimed"
    /\ \/ Answered(a, Host) /\ HostIs(a, "done")
       \/ hook[a] # "held" /\ HostIs(a, "over") /\ UNCHANGED <<hook, answer>>
    /\ UNCHANGED <<rows, loop, taken, applying, records, reports, relay, audit, starts>>

HostUnclaims(a) ==
    /\ host[a] = "over" /\ Unclaimed(a) /\ HostIs(a, "done")
    /\ UNCHANGED <<hook, answer, loop, taken, applying, records, reports, relay, audit, starts>>

(* The row is not there yet: the held request itself is answered.          *)
HostAnswers(a) ==
    /\ host[a] = "none" /\ rows[a].state # "open" /\ Answered(a, Host) /\ HostIs(a, "done")
    /\ UNCHANGED <<rows, loop, taken, applying, records, reports, relay, audit, starts>>

-----------------------------------------------------------------------------
(* The daemon.                                                             *)

IsQueued(a)     == decided[a].step = "queued"
CallIs(d, s, a) == calls' = [calls EXCEPT ![d] = [step |-> s, ask |-> a]]

(* A decision did not take effect: it is dropped, and what was audited of  *)
(* it is taken back.                                                       *)
Retract(a) ==
    /\ decided' = [decided EXCEPT ![a] = Undecided]
    /\ mirror' = IF decided[a].step # "none" THEN [mirror EXCEPT ![a].by = None] ELSE mirror
    /\ retracted' = IF decided[a].audited
                    THEN [retracted EXCEPT ![a] = @ \cup {decided[a].by}] ELSE retracted
    /\ unheard' = IF decided[a].step # "none" THEN unheard \ {a} ELSE unheard

(* A report is only logged when it fails, and not made again.               *)
Unreported(a) ==
    /\ "report" \in Faults
    /\ unheard' = IF decided[a].step = "delivered" THEN unheard \cup {a} ELSE unheard

Close(a) ==
    /\ pending' = pending \ {a}
    /\ mirror' = IF mirror[a].state = "open" THEN [mirror EXCEPT ![a].state = "over"] ELSE mirror

RemoteClaims(d, a) ==
    /\ calls[d].step = "idle" /\ mirror[a].state = "open"
    /\ mirror' = [mirror EXCEPT ![a] = [state |-> "over", by |-> d]]
    /\ CallIs(d, "claimed", a)
    /\ UNCHANGED <<hook, answer, rows, deciding, records, reports, pending, decided, timer, audit, starts>>

RemoteQueues(d) ==
    LET a == calls[d].ask IN
    /\ calls[d].step = "claimed"
    /\ \/ /\ a \in pending /\ pending' = pending \ {a} /\ CallIs(d, "queued", a)
          /\ decided' = [decided EXCEPT ![a] = [step |-> "queued", by |-> d, audited |-> FALSE]]
       \/ /\ a \notin pending /\ CallIs(d, "over", a) /\ UNCHANGED <<pending, decided>>
    /\ UNCHANGED <<hook, answer, rows, deciding, records, reports, mirror, timer, audit, starts>>

RemoteUnclaims(d) ==
    /\ calls[d].step = "over" /\ CallIs(d, "idle", None)
    /\ mirror' = [mirror EXCEPT ![calls[d].ask].by = None]
    /\ UNCHANGED <<hook, answer, rows, deciding, records, reports, pending, decided, timer, audit, starts>>

(* Mutant: it is claimed whatever became of it.                            *)
AuditDecidedAnyway(d) ==
    LET a == calls[d].ask IN
    /\ calls[d].step = "queued" /\ CallIs(d, "idle", None)
    /\ decided' = IF decided[a].step # "none" THEN [decided EXCEPT ![a].audited = TRUE] ELSE decided
    /\ chain' = [chain EXCEPT ![a] = @ \cup {d}]
    /\ UNCHANGED <<hook, answer, rows, deciding, records, reports, mirror, pending, timer, retracted, unheard, starts>>

(* A decision that was already retracted is not claimed.                   *)
AuditDecided(d) ==
    LET a == calls[d].ask IN
    /\ calls[d].step = "queued" /\ CallIs(d, "idle", None)
    /\ IF decided[a].step # "none"
       THEN /\ decided' = [decided EXCEPT ![a].audited = TRUE]
            /\ chain' = [chain EXCEPT ![a] = @ \cup {d}]
       ELSE UNCHANGED <<decided, chain>>
    /\ UNCHANGED <<hook, answer, rows, deciding, records, reports, mirror, pending, timer, retracted, unheard, starts>>

(* permission_relay_resolve: first retract, then close.                    *)
Resolve(r) ==
    /\ r \in reports
    /\ \/ /\ r.step = "sent" /\ Retract(r.ask)
          /\ reports' = (reports \ {r}) \cup {[r EXCEPT !.step = "close"]}
          /\ UNCHANGED pending
       \/ /\ r.step = "sent" /\ Unreported(r.ask) /\ reports' = reports \ {r}
          /\ UNCHANGED <<mirror, pending, decided, retracted>>
       \/ /\ r.step = "close" /\ Close(r.ask) /\ reports' = reports \ {r}
          /\ UNCHANGED <<decided, retracted, unheard>>
    /\ UNCHANGED <<hook, answer, rows, deciding, records, calls, timer, chain, starts>>

(* Mutant: the mirror is closed, and a queued decision left where it is.   *)
ExpireKeepsQueued(a) ==
    /\ timer[a] = "set"
    /\ timer' = [timer EXCEPT ![a] = "over"]
    /\ IF a \in pending THEN Close(a) ELSE UNCHANGED <<pending, mirror>>
    /\ UNCHANGED <<hook, answer, rows, deciding, records, reports, decided, calls, audit, starts>>

(* The ask's time is up: its mirror is closed, and a decision that was not *)
(* delivered when it looked is retracted.                                  *)
Expire(a) ==
    /\ timer[a] = "set"
    /\ timer' = [timer EXCEPT ![a] = IF IsQueued(a) THEN "retract" ELSE "over"]
    /\ IF a \in pending THEN Close(a) ELSE UNCHANGED <<pending, mirror>>
    /\ UNCHANGED <<hook, answer, rows, deciding, records, reports, decided, calls, audit, starts>>

ExpireRetracts(a) ==
    /\ timer[a] = "retract" /\ timer' = [timer EXCEPT ![a] = "over"]
    /\ Retract(a)
    /\ UNCHANGED <<hook, answer, rows, deciding, records, reports, pending, calls, chain, starts>>

Unsettled(a) ==
    \/ hook[a] \in {"held", "answered"} \/ sweep = Due \/ a \in sweep
    \/ applying.ask = a \/ \E c \in taken : c.ask = a
    \/ \E r \in reports : r.ask = a
    \/ \E d \in Deciders : calls[d].ask = a
    \/ IsQueued(a)

(* RELAY_ACK_GRACE is longer than whatever is still on its way.            *)
Forget(a) ==
    /\ timer[a] = "over" /\ decided[a].step = "delivered" /\ ~Unsettled(a)
    /\ decided' = [decided EXCEPT ![a] = Undecided]
    /\ UNCHANGED <<hook, answer, rows, deciding, records, reports, mirror, pending, calls, timer, audit, starts>>

-----------------------------------------------------------------------------
(* relay_loop on the desktop: it polls while a mirrored ask is open, and   *)
(* applies what it took one decision at a time.                            *)

OtherPoll ==
    /\ OthersPoll /\ loop = "waiting" /\ loop' = "polling"
    /\ UNCHANGED <<hook, answer, rows, taken, applying, host, records, reports, relay, audit, starts>>

PollEnds ==
    /\ loop = "polling" /\ taken = {} /\ applying = Idle /\ mirrored = {} /\ loop' = "waiting"
    /\ UNCHANGED <<hook, answer, rows, taken, applying, host, records, reports, relay, audit, starts>>

Take ==
    LET new == {a \in Asks : IsQueued(a)} IN
    /\ loop = "polling" /\ taken = {} /\ applying = Idle /\ new # {}
    /\ decided' = [a \in Asks |-> IF a \in new THEN [decided[a] EXCEPT !.step = "delivered"]
                                  ELSE decided[a]]
    /\ \/ taken' = {[ask |-> a, by |-> decided[a].by] : a \in new} /\ UNCHANGED unheard
       \/ "take" \in Faults /\ unheard' = unheard \cup new /\ UNCHANGED taken
    /\ UNCHANGED <<hook, answer, rows, loop, applying, host, records, reports>>
    /\ UNCHANGED <<mirror, pending, calls, timer, chain, retracted, starts>>

Goes(c, step) == applying' = [step |-> step, ask |-> c.ask, by |-> c.by]
Applied       == applying' = Idle

(* The row is claimed, was over, or the desktop's database is not there.    *)
ApplyClaims(c) ==
    /\ applying = Idle /\ c \in taken /\ taken' = taken \ {c}
    /\ mirrored' = mirrored \ {c.ask}
    /\ \/ Opens(c.ask, c.by) /\ Goes(c, "resolve") /\ UNCHANGED unheard
       \/ rows[c.ask].state # "open" /\ Goes(c, "report") /\ UNCHANGED <<rows, unheard>>
       \/ Unreported(c.ask) /\ UNCHANGED <<rows, applying>>
    /\ UNCHANGED <<hook, answer, loop, host, rec, flips, sweep, reports, relay, chain, retracted, starts>>

(* Mutant: the row keeps the name of a decision the hook did not get.      *)
ApplyResolvesKeepsRow ==
    /\ applying.step = "resolve"
    /\ \/ Answered(applying.ask, applying.by) /\ Applied
       \/ hook[applying.ask] # "held" /\ Goes(applying, "report") /\ UNCHANGED <<hook, answer>>
    /\ UNCHANGED <<rows, loop, taken, host, records, reports, relay, audit, starts>>

ApplyResolves ==
    /\ applying.step = "resolve"
    /\ \/ Answered(applying.ask, applying.by) /\ Applied
       \/ hook[applying.ask] # "held" /\ Goes(applying, "unclaim") /\ UNCHANGED <<hook, answer>>
    /\ UNCHANGED <<rows, loop, taken, host, records, reports, relay, audit, starts>>

ApplyUnclaims ==
    /\ applying.step = "unclaim" /\ Unclaimed(applying.ask) /\ Goes(applying, "report")
    /\ UNCHANGED <<hook, answer, loop, taken, host, records, reports, relay, audit, starts>>

ApplyReports ==
    /\ \/ applying.step = "report" /\ Retract(applying.ask) /\ Goes(applying, "close") /\ UNCHANGED pending
       \/ /\ applying.step = "report" /\ Unreported(applying.ask) /\ Applied
          /\ UNCHANGED <<mirror, pending, decided, retracted>>
       \/ /\ applying.step = "close" /\ Close(applying.ask) /\ Applied
          /\ UNCHANGED <<decided, retracted, unheard>>
    /\ UNCHANGED <<hook, answer, rows, loop, taken, host, records, reports, calls, timer, chain, starts>>

-----------------------------------------------------------------------------
(* Restarts.                                                               *)

DesktopRestarts ==
    /\ starts.desktop < MaxStarts.desktop
    /\ starts' = [starts EXCEPT !.desktop = @ + 1]
    /\ hook' = [a \in Asks |-> IF hook[a] \in {"none", "over"} THEN hook[a] ELSE "dead"]
    /\ rec' = [a \in Asks |-> IF rec[a] = "none" THEN "none" ELSE "done"]
    /\ host' = [a \in Asks |-> IF host[a] = "none" THEN "none" ELSE "done"]
    /\ flips' = {} /\ mirrored' = {} /\ loop' = "waiting" /\ taken' = {} /\ applying' = Idle
    /\ reports' = {r \in reports : r.step = "close"} /\ sweep' = Due
    /\ UNCHANGED <<answer, rows, relay, audit>>

(* What was open when it was started: an ask raised since has its recorder. *)
SweepReads ==
    /\ sweep = Due
    /\ sweep' = {a \in Asks : rows[a].state = "open" /\ hook[a] \in {"over", "dead"}}
    /\ UNCHANGED <<hook, answer, rows, deciding, rec, flips, mirrored, reports, relay, audit, starts>>

(* Mutant: the daemon is not told.                                         *)
SweepMarksOnly(a) ==
    /\ sweep # Due /\ a \in sweep /\ sweep' = sweep \ {a}
    /\ Opens(a, "swept") \/ (rows[a].state # "open" /\ UNCHANGED rows)
    /\ UNCHANGED <<hook, answer, deciding, rec, flips, mirrored, reports, relay, audit, starts>>

(* It is reported, six times at most.                                      *)
SweepMarks(a) ==
    /\ sweep # Due /\ a \in sweep /\ sweep' = sweep \ {a}
    /\ \/ Opens(a, "swept") /\ reports' = reports \cup Sent({a})
       \/ rows[a].state # "open" /\ UNCHANGED <<rows, reports>>
    /\ UNCHANGED <<hook, answer, deciding, rec, flips, mirrored, relay, audit, starts>>

(* The relay's memory is gone; the mirror rows it left open are closed.    *)
DaemonRestarts ==
    /\ starts.daemon < MaxStarts.daemon
    /\ starts' = [starts EXCEPT !.daemon = @ + 1]
    /\ pending' = {} /\ decided' = [a \in Asks |-> Undecided]
    /\ timer' = [a \in Asks |-> IF timer[a] = "none" THEN "none" ELSE "over"]
    /\ calls' = [d \in Deciders |-> [step |-> "idle", ask |-> None]]
    /\ mirror' = [a \in Asks |-> IF mirror[a].state = "open" THEN [mirror[a] EXCEPT !.state = "over"]
                                 ELSE mirror[a]]
    /\ reports' = {r \in reports : r.step = "sent"}
    /\ UNCHANGED <<hook, answer, rows, deciding, records, audit>>

-----------------------------------------------------------------------------
Next ==
    \/ \E a \in Asks :
        \/ Ask(a) \/ HookEnds(a) \/ HangUp(a) \/ FlipRow(a) \/ WriteRow(a) \/ Put(a)
        \/ HostClaims(a) \/ HostResolves(a) \/ HostUnclaims(a) \/ HostAnswers(a)
        \/ Expire(a) \/ ExpireRetracts(a) \/ Forget(a) \/ SweepMarks(a)
    \/ \E d \in Deciders :
        \/ RemoteQueues(d) \/ RemoteUnclaims(d) \/ AuditDecided(d)
        \/ \E a \in Asks : RemoteClaims(d, a)
    \/ \E r \in reports : Resolve(r)
    \/ \E c \in taken : ApplyClaims(c)
    \/ OtherPoll \/ PollEnds \/ Take \/ ApplyResolves \/ ApplyUnclaims \/ ApplyReports
    \/ DesktopRestarts \/ SweepReads \/ DaemonRestarts

Spec == Init /\ [][Next]_vars

(* The daemon's timers fire, and finish what they began.                   *)
FairSpec ==
    Spec /\ \A a \in Asks : WF_vars(Expire(a)) /\ WF_vars(ExpireRetracts(a))

-----------------------------------------------------------------------------
Claimed(a) == chain[a] \ retracted[a]

(* "The chain never claims a decision that didn't happen": once nothing of *)
(* an ask is on its way, what the chain claims is what the hook got.       *)
NeverClaimsOther ==
    \A a \in Asks : starts.desktop + starts.daemon = 0 /\ ~Unsettled(a) =>
        Claimed(a) \subseteq {answer[a]}

(* What holds of it though answers and reports are lost: a remote decision *)
(* the chain claims and did not take back is the one the hook got, however *)
(* the host, the gate, the timer, the poll and the reports met, and the    *)
(* mirror names who it was, unless the decision itself or the report on it *)
(* was lost and no later report took it back.                              *)
DecidedHappened ==
    \A a \in Asks : starts.desktop + starts.daemon = 0 /\ ~Unsettled(a) =>
        /\ a \notin unheard => Claimed(a) \subseteq {answer[a]}
        /\ Claimed(a) = {mirror[a].by} \ {None}

(* "A remote decision delivered just before a crash, never applied, is      *)
(* retracted": nothing is claimed of an ask that a boot closed, whichever   *)
(* of the daemon's steps the boot and its report fell between, unless a     *)
(* loss of it was never made good.                                         *)
SweptIsRetracted ==
    \A a \in Asks \ unheard : starts.daemon = 0 /\ starts.desktop <= 1 =>
        (rows[a].by = "swept" /\ ~Unsettled(a) => Claimed(a) = {})

(* "Never a decision nobody made": the desktop's row names who answered     *)
(* its hook, once whoever claimed it is through and was not cut short.     *)
RowIsTrue ==
    \A a \in Asks :
        \/ rows[a].by \in {None, "swept", answer[a]}
        \/ host[a] \in {"claimed", "over"}
        \/ applying.ask = a
        \/ starts.desktop > 0

(* A mirrored ask or a queued decision, which keeps the daemon awake, is    *)
(* let go, whether the desktop answers, polls, reports or is gone.         *)
RelayLetsGo ==
    \A a \in Asks : a \in pending \/ IsQueued(a) ~> a \notin pending /\ ~IsQueued(a)
=============================================================================
