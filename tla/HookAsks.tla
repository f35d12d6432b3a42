----------------------------- MODULE HookAsks ------------------------------
(***************************************************************************)
(* The permission asks of a principal child's terminals.  A PreToolUse hook *)
(* is parked while people may answer it; whoever takes it out of the held   *)
(* table owns how it ended, flips its row and has the outcome audited: a    *)
(* note for the broker, which appends it to the audit chain.  A child that  *)
(* restarts sweeps the rows its last life left open.                        *)
(*                                                                          *)
(* The asks that are held at once are one terminal's, and who may decide is *)
(* left to the access policy.  A row is written well before an end stops    *)
(* waiting for it (WRITE_WAIT).  A note lost with the child before it was   *)
(* queued and one lost right after look the same, so a task queues its note *)
(* as it ends.                                                              *)
(***************************************************************************)
EXTENDS Naturals, Sequences, FiniteSets

CONSTANTS
    Asks,         \* request ids
    Deciders,     \* calls of permission_decide or term_hooks_decide
    Allowing,     \* those that allow
    MaxHeld,      \* MAX_HELD
    Capacity,     \* CAPACITY of the outbox
    MaxStops,     \* bound on the restarts of the child
    Losses,       \* what may fail: "row", "flip", "append", "batch", "ack"
    None

ASSUME DecidersAssumption ==
    Allowing \subseteq Deciders /\ {None, "unaudited", "swept"} \cap Deciders = {}
ASSUME NamesAssumption == "due" \notin Asks /\ None \notin {"ended", "unaudited", "swept"}
ASSUME LimitsAssumption == MaxHeld \in Nat \ {0} /\ Capacity \in Nat \ {0} /\ MaxStops \in Nat

VARIABLES
    gate,         \* the hook's request, as Claude Code sees it
    held,         \* the held table
    sent,         \* the answer in a request's channel
    rows,         \* the permission rows
    writing,      \* the task that writes the row, and whether its flip failed
    ends,         \* the tasks that flip the row of an ended ask
    calls,        \* a decider's call
    sweep,        \* the boot sweep: due, or the rows it is still to mark
    life,         \* how often the child was started
    outbox,       \* notes for the broker
    pump,         \* the broker's batch, what it will acknowledge, and to whom
    chain         \* how many rows of a kind the chain has for an ask

hooks  == <<gate, held, sent>>
tasks  == <<writing, ends, calls, sweep>>
vars   == <<hooks, rows, tasks, life, outbox, pump, chain>>

Waiting == {"arrived", "held", "elapsed", "closed"}
Gates   == Waiting \cup {"none", "allowed", "denied", "lost"}
Kinds   == {"decided", "ended", "restart"}
Notes   == [ask : Asks, kind : Kinds]
Row     == [state : {"none", "open", "over"}, by : Deciders \cup {None, "unaudited", "swept"},
            life : Nat]
Due     == {"due"}

TypeOK ==
    /\ gate \in [Asks -> Gates] /\ held \in SUBSET Asks
    /\ sent \in [Asks -> {None, "allow", "deny"}]
    /\ rows \in [Asks -> Row]
    /\ writing \in [Asks -> {"none", "due", "done", "left"}]
    /\ ends \in SUBSET [ask : Asks, note : {None, "ended"}]
    /\ calls \in [Deciders -> [step : {"idle", "claimed", "over", "done"}, ask : Asks \cup {None}]]
    /\ sweep \in (SUBSET Asks) \cup {Due}
    /\ life \in 0..MaxStops
    /\ outbox \in Seq(Notes) /\ Len(outbox) <= Capacity
    /\ pump \in [notes : Seq(Notes), acks : SUBSET Asks, life : 0..MaxStops]
    /\ chain \in [Asks -> [Kinds -> Nat]]

Init ==
    /\ gate = [a \in Asks |-> "none"] /\ held = {}
    /\ sent = [a \in Asks |-> None]
    /\ rows = [a \in Asks |-> [state |-> "none", by |-> None, life |-> 0]]
    /\ writing = [a \in Asks |-> "none"] /\ ends = {}
    /\ calls = [d \in Deciders |-> [step |-> "idle", ask |-> None]]
    /\ sweep = {} /\ life = 0
    /\ outbox = <<>> /\ pump = [notes |-> <<>>, acks |-> {}, life |-> 0]
    /\ chain = [a \in Asks |-> [k \in Kinds |-> 0]]

Becomes(a, g) == gate' = [gate EXCEPT ![a] = g]
Note(a, k)    == [ask |-> a, kind |-> k]

(* Mutant: room is made one note too late.                                 *)
PushOver(note) ==
    outbox' = Append(IF Len(outbox) > Capacity THEN Tail(outbox) ELSE outbox, note)

(* A full queue drops its oldest note.                                     *)
Push(note) ==
    outbox' = Append(IF Len(outbox) >= Capacity THEN Tail(outbox) ELSE outbox, note)

(* Whoever takes a request out of the table concludes it.  A decision is   *)
(* audited by who made it, every other end by the end's own task.          *)
Takes(a)           == held' = held \ {a}
Concludes(a, note) == ends' = ends \cup {[ask |-> a, note |-> note]}
Answers(d)         == IF d \in Allowing THEN "allow" ELSE "deny"

-----------------------------------------------------------------------------
(* The hook's request.                                                     *)

(* The terminal's secret is good; whether its asks are held is read next.  *)
Arrive(a) ==
    /\ gate[a] = "none"
    /\ Becomes(a, "arrived")
    /\ UNCHANGED <<held, sent, rows, tasks, life, outbox, pump, chain>>

Park(a) ==
    /\ gate[a] = "arrived" /\ Cardinality(held) < MaxHeld
    /\ Becomes(a, "held") /\ held' = held \cup {a}
    /\ writing' = [writing EXCEPT ![a] = "due"]
    /\ UNCHANGED <<sent, rows, ends, calls, sweep, life, outbox, pump, chain>>

TableFull(a) ==
    /\ gate[a] = "arrived" /\ Cardinality(held) >= MaxHeld
    /\ Becomes(a, "denied") /\ Push(Note(a, "ended"))
    /\ UNCHANGED <<held, sent, rows, tasks, life, pump, chain>>

Reply(a) ==
    /\ gate[a] = "held"
    /\ \/ sent[a] # None /\ Becomes(a, IF sent[a] = "allow" THEN "allowed" ELSE "denied")
       \/ sent[a] = None /\ a \notin held /\ Becomes(a, "denied")
    /\ sent' = [sent EXCEPT ![a] = None]
    /\ UNCHANGED <<held, rows, tasks, life, outbox, pump, chain>>

(* The hold runs out while nothing was sent; only then is the receiver     *)
(* dropped, and after that the request is taken out of the table.          *)
HoldElapses(a) ==
    /\ gate[a] = "held" /\ sent[a] = None
    /\ Becomes(a, "elapsed")
    /\ UNCHANGED <<held, sent, rows, tasks, life, outbox, pump, chain>>

ReceiverDrops(a) ==
    /\ gate[a] = "elapsed"
    /\ Becomes(a, "closed") /\ sent' = [sent EXCEPT ![a] = None]
    /\ UNCHANGED <<held, rows, tasks, life, outbox, pump, chain>>

(* Mutant: the hold's end concludes an ask that was answered as it ran out. *)
ExpireConcludes(a) ==
    /\ gate[a] = "closed"
    /\ Becomes(a, "denied") /\ Takes(a) /\ Concludes(a, "ended")
    /\ UNCHANGED <<sent, rows, writing, calls, sweep, life, outbox, pump, chain>>

Expire(a) ==
    /\ gate[a] = "closed"
    /\ Becomes(a, "denied") /\ Takes(a)
    /\ IF a \in held THEN Concludes(a, "ended") ELSE UNCHANGED ends
    /\ UNCHANGED <<sent, rows, writing, calls, sweep, life, outbox, pump, chain>>

(* The hook's connection drops at one of its waits.                        *)
HangUp(a) ==
    /\ gate[a] \in {"arrived", "held"}
    /\ Becomes(a, "lost") /\ sent' = [sent EXCEPT ![a] = None] /\ Takes(a)
    /\ IF a \in held THEN Concludes(a, "ended") ELSE UNCHANGED ends
    /\ UNCHANGED <<rows, writing, calls, sweep, life, outbox, pump, chain>>

(* The terminal's PTY exits; an ask on its way may still be parked after.  *)
Revoke ==
    /\ held # {} /\ held' = {} /\ ends' = ends \cup [ask : held, note : {"ended"}]
    /\ UNCHANGED <<gate, sent, rows, writing, calls, sweep, life, outbox, pump, chain>>

-----------------------------------------------------------------------------
(* The row of an ask.                                                      *)

WriteRow(a) ==
    /\ writing[a] = "due"
    /\ writing' = [writing EXCEPT ![a] = "done"]
    /\ \/ rows' = [rows EXCEPT ![a] = [state |-> "open", by |-> None, life |-> life]]
       \/ "row" \in Losses /\ UNCHANGED rows
    /\ UNCHANGED <<hooks, ends, calls, sweep, life, outbox, pump, chain>>

Closed(a) == IF rows[a].state = "open" THEN [rows EXCEPT ![a].state = "over"] ELSE rows

(* Mutant: the row is flipped before it is written.                        *)
EndAtOnce(e) ==
    /\ e \in ends
    /\ ends' = ends \ {e} /\ rows' = Closed(e.ask)
    /\ IF e.note = None THEN UNCHANGED outbox ELSE Push(Note(e.ask, e.note))
    /\ UNCHANGED <<hooks, writing, calls, sweep, life, pump, chain>>

(* A flip that fails is not tried again: the row is left open.             *)
Flips(a) ==
    \/ rows' = Closed(a) /\ UNCHANGED writing
    \/ "flip" \in Losses /\ writing' = [writing EXCEPT ![a] = "left"] /\ UNCHANGED rows

(* The end of an ask waits until its row is written.                       *)
End(e) ==
    /\ e \in ends /\ writing[e.ask] = "done"
    /\ ends' = ends \ {e} /\ Flips(e.ask)
    /\ IF e.note = None THEN UNCHANGED outbox ELSE Push(Note(e.ask, e.note))
    /\ UNCHANGED <<hooks, calls, sweep, life, pump, chain>>

-----------------------------------------------------------------------------
(* Deciding.  An answer that is sent is taken as delivered, although the   *)
(* hold may have elapsed; one sent to a dropped receiver counts as a       *)
(* timeout.                                                                *)

CallIs(d, step, a) == calls' = [calls EXCEPT ![d] = [step |-> step, ask |-> a]]

Listens(a) == gate[a] \in {"held", "elapsed"}

(* Neither changes without the request being in the table.                 *)
Delivers(d, a) ==
    /\ a \in held /\ Listens(a) /\ Takes(a)
    /\ sent' = [sent EXCEPT ![a] = Answers(d)]
    /\ Concludes(a, None) /\ Push(Note(a, "decided"))

Misses(a) ==
    /\ UNCHANGED <<sent, outbox>> /\ Takes(a)
    /\ \/ a \notin held /\ UNCHANGED ends
       \/ a \in held /\ ~Listens(a) /\ Concludes(a, "ended")

Claim(d, a) ==
    /\ calls[d].step = "idle" /\ rows[a].state = "open"
    /\ rows' = [rows EXCEPT ![a] = [@ EXCEPT !.state = "over", !.by = d]]
    /\ CallIs(d, "claimed", a)
    /\ UNCHANGED <<hooks, writing, ends, sweep, life, outbox, pump, chain>>

Resolve(d) ==
    LET a == calls[d].ask IN
    /\ calls[d].step = "claimed"
    /\ \/ Delivers(d, a) /\ CallIs(d, "done", None)
       \/ Misses(a) /\ CallIs(d, "over", a)
    /\ UNCHANGED <<gate, rows, writing, sweep, life, pump, chain>>

(* The ask is over: its row stays so, but nobody decided it.               *)
Unclaim(d) ==
    /\ calls[d].step = "over"
    /\ rows' = [rows EXCEPT ![calls[d].ask].by = None]
    /\ CallIs(d, "done", None)
    /\ UNCHANGED <<hooks, writing, ends, sweep, life, outbox, pump, chain>>

(* term_hooks_decide with no open row: the request itself is the token.    *)
AnswerRaw(d, a) ==
    /\ calls[d].step = "idle" /\ rows[a].state # "open" /\ a \in held
    /\ CallIs(d, "done", None)
    /\ Delivers(d, a) \/ Misses(a)
    /\ UNCHANGED <<gate, rows, writing, sweep, life, pump, chain>>

-----------------------------------------------------------------------------
(* The child's lives.                                                      *)

Stop ==
    /\ life < MaxStops /\ life' = life + 1
    /\ gate' = [a \in Asks |-> IF gate[a] \in Waiting THEN "lost" ELSE gate[a]]
    /\ held' = {} /\ sent' = [a \in Asks |-> None]
    /\ writing' = [a \in Asks |-> "none"] /\ ends' = {}
    /\ calls' = [d \in Deciders |-> IF calls[d].step = "idle" THEN calls[d]
                                    ELSE [step |-> "done", ask |-> None]]
    /\ sweep' = Due /\ outbox' = <<>>
    /\ UNCHANGED <<rows, pump, chain>>

Orphaned(a) ==
    /\ rows[a].life < life
    /\ rows[a].state = "open" \/ rows[a].by = "unaudited"

SweepReads ==
    /\ sweep = Due /\ sweep' = {a \in Asks : Orphaned(a)}
    /\ UNCHANGED <<hooks, rows, writing, ends, calls, life, outbox, pump, chain>>

(* A row that was closed meanwhile is nobody's to audit.                   *)
SweepMarks(a) ==
    /\ sweep # Due /\ a \in sweep /\ sweep' = sweep \ {a}
    /\ \/ /\ rows[a].state = "open" \/ rows[a].by = "unaudited"
          /\ rows' = [rows EXCEPT ![a] = [@ EXCEPT !.state = "over", !.by = "unaudited"]]
          /\ Push(Note(a, "restart"))
       \/ /\ rows[a].state # "open" /\ rows[a].by # "unaudited"
          /\ UNCHANGED <<rows, outbox>>
    /\ UNCHANGED <<hooks, writing, ends, calls, life, pump, chain>>

-----------------------------------------------------------------------------
(* The broker's pump: everything queued, one note at a time, and an        *)
(* acknowledgment of the swept asks whose note is on the chain.            *)

Idle == pump.notes = <<>> /\ pump.acks = {}

Take ==
    /\ Idle /\ outbox # <<>> /\ outbox' = <<>>
    /\ pump' = [notes |-> outbox, acks |-> {}, life |-> life]
    /\ UNCHANGED <<hooks, rows, tasks, life, chain>>

(* The answer to the poll, or the batch with the broker's task, is lost.   *)
LoseBatch ==
    /\ "batch" \in Losses /\ ~Idle
    /\ pump' = [pump EXCEPT !.notes = <<>>, !.acks = {}]
    /\ UNCHANGED <<hooks, rows, tasks, life, outbox, chain>>

AppendNote ==
    LET note == Head(pump.notes) IN
    /\ pump.notes # <<>>
    /\ chain' = [chain EXCEPT ![note.ask][note.kind] = @ + 1]
    /\ pump' = [pump EXCEPT !.notes = Tail(@),
                            !.acks  = IF note.kind = "restart" THEN @ \cup {note.ask} ELSE @]
    /\ UNCHANGED <<hooks, rows, tasks, life, outbox>>

(* Mutant: a note that could not be appended is acknowledged.              *)
AppendFailsQuietly ==
    /\ "append" \in Losses /\ pump.notes # <<>>
    /\ pump' = [pump EXCEPT !.notes = Tail(@),
                            !.acks  = IF Head(pump.notes).kind = "restart"
                                      THEN @ \cup {Head(pump.notes).ask} ELSE @]
    /\ UNCHANGED <<hooks, rows, tasks, life, outbox, chain>>

AppendFails ==
    /\ "append" \in Losses /\ pump.notes # <<>>
    /\ pump' = [pump EXCEPT !.notes = Tail(@)]
    /\ UNCHANGED <<hooks, rows, tasks, life, outbox, chain>>

(* Only the life that was polled can be told, and it may miss it.          *)
Acknowledge ==
    /\ pump.notes = <<>> /\ pump.acks # {}
    /\ pump' = [pump EXCEPT !.acks = {}]
    /\ \/ /\ pump.life = life
          /\ rows' = [a \in Asks |-> IF a \in pump.acks /\ rows[a].by = "unaudited"
                                     THEN [rows[a] EXCEPT !.by = "swept"] ELSE rows[a]]
       \/ /\ "ack" \in Losses \/ pump.life # life
          /\ UNCHANGED rows
    /\ UNCHANGED <<hooks, tasks, life, outbox, chain>>

-----------------------------------------------------------------------------
Next ==
    \/ \E a \in Asks :
        \/ Arrive(a) \/ Park(a) \/ TableFull(a) \/ Reply(a) \/ HoldElapses(a)
        \/ ReceiverDrops(a) \/ Expire(a) \/ HangUp(a) \/ WriteRow(a) \/ SweepMarks(a)
        \/ \E d \in Deciders : Claim(d, a) \/ AnswerRaw(d, a)
    \/ \E e \in ends : End(e)
    \/ \E d \in Deciders : Resolve(d) \/ Unclaim(d)
    \/ Revoke \/ Stop \/ SweepReads
    \/ Take \/ LoseBatch \/ AppendNote \/ AppendFails \/ Acknowledge

Spec == Init /\ [][Next]_vars

-----------------------------------------------------------------------------
(* "A row is flipped and an outcome audited exactly once": whichever of the *)
(* decision, the hold, the exiting PTY and the dropped connection takes the *)
(* ask, and however late the others find out, one note says how it ended.  *)
Says(notes, a) == {i \in DOMAIN notes : notes[i].ask = a /\ notes[i].kind # "restart"}

AuditedOnce ==
    \A a \in Asks :
        Cardinality({e \in ends : e.ask = a /\ e.note # None})
            + Cardinality(Says(outbox, a)) + Cardinality(Says(pump.notes, a))
            + chain[a]["decided"] + chain[a]["ended"] <= 1

(* "A crash between the sweep and the audit cannot lose the expiry": a row *)
(* the sweep closed for good has its expiry on the chain, whatever batches, *)
(* appends, acknowledgments and lives were lost on the way.                *)
SweptIsAudited == \A a \in Asks : rows[a].by = "swept" => chain[a]["restart"] > 0

(* "An ask that ends instantly can neither leave a pending row behind nor   *)
(* resolve one that does not exist yet": a row that looks pending is still  *)
(* held, or somebody is about to flip it: its end, a sweep.  A row whose    *)
(* flip failed is the exception, until the child restarts.                 *)
Pending(a) == a \in held \/ (\E e \in ends : e.ask = a) \/ writing[a] = "left"

OpenIsAttended ==
    \A a \in Asks : rows[a].state = "open" =>
        \/ rows[a].life = life /\ Pending(a)
        \/ rows[a].life < life /\ (sweep = Due \/ a \in sweep)
=============================================================================
