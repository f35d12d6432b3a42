-------------------------- MODULE HookAsksProofs ---------------------------
(***************************************************************************)
(* Theorems about HookAsks: for every number of asks, deciders, restarts    *)
(* and losses, and every size of the held table and of the outbox.          *)
(***************************************************************************)
EXTENDS HookAsks, FiniteSetTheorems, SequenceTheorems, TLAPS

Hook(a) ==
    \/ Arrive(a) \/ Park(a) \/ TableFull(a) \/ Reply(a) \/ HoldElapses(a)
    \/ ReceiverDrops(a) \/ Expire(a) \/ HangUp(a)

(* Queueing a note keeps the outbox within its capacity.                   *)
LEMMA PushType ==
    ASSUME TypeOK, NEW note \in Notes, Push(note)
    PROVE  outbox' \in Seq(Notes) /\ Len(outbox') <= Capacity
<1>1. outbox \in Seq(Notes) /\ Len(outbox) <= Capacity /\ Capacity \in Nat \ {0}
    BY LimitsAssumption DEF TypeOK
<1>2. CASE Len(outbox) >= Capacity
    <2>1. outbox # <<>>
        BY <1>1, <1>2
    <2>2. Tail(outbox) \in Seq(Notes) /\ Len(Tail(outbox)) = Len(outbox) - 1
        BY <1>1, <2>1
    <2>3. outbox' = Append(Tail(outbox), note)
        BY <1>2 DEF Push
    <2> QED BY <1>1, <2>2, <2>3
<1>3. CASE ~(Len(outbox) >= Capacity)
    <2>1. outbox' = Append(outbox, note)
        BY <1>3 DEF Push
    <2> QED BY <1>1, <1>3, <2>1
<1> QED BY <1>2, <1>3

LEMMA NoteType == \A a \in Asks, k \in Kinds : Note(a, k) \in Notes
BY DEF Note, Notes

LEMMA HookTypes ==
    ASSUME TypeOK, NEW a \in Asks, Hook(a)
    PROVE  TypeOK'
<1> USE DEF TypeOK, Becomes, Takes, Concludes, tasks, Gates, Waiting
<1>1. CASE Arrive(a) BY <1>1 DEF Arrive
<1>2. CASE Park(a) BY <1>2 DEF Park
<1>3. CASE TableFull(a)
    <2>1. outbox' \in Seq(Notes) /\ Len(outbox') <= Capacity
        BY <1>3, PushType, NoteType DEF TableFull, Kinds
    <2> QED BY <1>3, <2>1 DEF TableFull
<1>4. CASE Reply(a) BY <1>4 DEF Reply
<1>5. CASE HoldElapses(a) BY <1>5 DEF HoldElapses
<1>6. CASE ReceiverDrops(a) BY <1>6 DEF ReceiverDrops
<1>7. CASE Expire(a) BY <1>7 DEF Expire
<1>8. CASE HangUp(a) BY <1>8 DEF HangUp
<1> QED BY <1>1, <1>2, <1>3, <1>4, <1>5, <1>6, <1>7, <1>8 DEF Hook

(* The rows, the ends and the deciders.                                    *)
Decide(d) ==
    \/ \E a \in Asks : Claim(d, a) \/ AnswerRaw(d, a)
    \/ Resolve(d) \/ Unclaim(d)

LEMMA RowChanges ==
    ASSUME NEW r \in Row
    PROVE  /\ [r EXCEPT !.state = "over"] \in Row
           /\ \A b \in Deciders \cup {None, "unaudited", "swept"} :
                 /\ [r EXCEPT !.by = b] \in Row
                 /\ [r EXCEPT !.state = "over", !.by = b] \in Row
BY DEF Row

LEMMA EndTypes ==
    ASSUME TypeOK, NEW e \in ends, End(e)
    PROVE  TypeOK'
<1>1. e.ask \in Asks /\ e.note \in {None, "ended"}
    BY DEF TypeOK
<1>2. outbox' \in Seq(Notes) /\ Len(outbox') <= Capacity
    <2>1. CASE e.note = None
        BY <2>1 DEF End, TypeOK
    <2>2. CASE e.note # None
        <3>1. Note(e.ask, e.note) \in Notes
            BY <1>1, <2>2, NoteType DEF Kinds
        <3>2. Push(Note(e.ask, e.note))
            BY <2>2 DEF End
        <3> QED BY <3>1, <3>2, PushType
    <2> QED BY <2>1, <2>2
<1>3. Closed(e.ask) \in [Asks -> Row]
    <2>1. CASE rows[e.ask].state = "open"
        <3>1. rows[e.ask] \in Row
            BY <1>1 DEF TypeOK
        <3>2. [rows[e.ask] EXCEPT !.state = "over"] \in Row
            BY <3>1, RowChanges
        <3> QED BY <2>1, <3>2 DEF Closed, TypeOK
    <2>2. CASE rows[e.ask].state # "open"
        BY <2>2 DEF Closed, TypeOK
    <2> QED BY <2>1, <2>2
<1>4. rows' \in [Asks -> Row] /\ writing' \in [Asks -> {"none", "due", "done", "left"}]
    BY <1>1, <1>3 DEF End, Flips, TypeOK
<1> QED BY <1>2, <1>4 DEF End, TypeOK, hooks

Calling == [step : {"idle", "claimed", "over", "done"}, ask : Asks \cup {None}]

LEMMA DecideTypes ==
    ASSUME TypeOK, NEW d \in Deciders, Decide(d)
    PROVE  TypeOK'
<1>1. ASSUME NEW a \in Asks, Claim(d, a)
      PROVE  TypeOK'
    <2>1. rows' \in [Asks -> Row]
        <3>1. rows[a] \in Row
            BY DEF TypeOK
        <3>2. [rows[a] EXCEPT !.state = "over", !.by = d] \in Row
            BY <3>1, RowChanges
        <3> QED BY <1>1, <3>2 DEF Claim, TypeOK
    <2> QED BY <1>1, <2>1 DEF Claim, TypeOK, CallIs, hooks
<1>2. ASSUME NEW a, Delivers(d, a) \/ Misses(a)
      PROVE  /\ held' \in SUBSET Asks /\ sent' \in [Asks -> {None, "allow", "deny"}]
             /\ ends' \in SUBSET [ask : Asks, note : {None, "ended"}]
             /\ outbox' \in Seq(Notes) /\ Len(outbox') <= Capacity
    <2>1. CASE Delivers(d, a)
        <3>1. a \in Asks
            BY <2>1 DEF Delivers, TypeOK
        <3>2. outbox' \in Seq(Notes) /\ Len(outbox') <= Capacity
            BY <2>1, <3>1, PushType, NoteType DEF Delivers, Kinds
        <3> QED BY <2>1, <3>1, <3>2 DEF Delivers, TypeOK, Takes, Concludes, Answers
    <2>2. CASE Misses(a)
        BY <2>2 DEF Misses, TypeOK, Takes, Concludes
    <2> QED BY <1>2, <2>1, <2>2
<1>3. ASSUME NEW a \in Asks, AnswerRaw(d, a)
      PROVE  TypeOK'
    BY <1>2, <1>3 DEF AnswerRaw, TypeOK, CallIs
<1>4. CASE Resolve(d)
    <2>1. calls[d].ask \in Asks \cup {None}
        BY DEF TypeOK
    <2>2. Delivers(d, calls[d].ask) \/ Misses(calls[d].ask)
        BY <1>4 DEF Resolve
    <2>3. calls' \in [Deciders -> [step : {"idle", "claimed", "over", "done"},
                                   ask : Asks \cup {None}]]
        <3>1. CallIs(d, "done", None) \/ CallIs(d, "over", calls[d].ask)
            BY <1>4 DEF Resolve
        <3>2. \A s \in {"done", "over"}, x \in Asks \cup {None} :
                 CallIs(d, s, x) => calls' \in [Deciders -> Calling]
            BY DEF TypeOK, CallIs, Calling
        <3> QED BY <2>1, <3>1, <3>2 DEF Calling
    <2>4. UNCHANGED <<gate, rows, writing, sweep, life, pump, chain>>
        BY <1>4 DEF Resolve
    <2> QED BY <1>2, <2>2, <2>3, <2>4 DEF TypeOK
<1>5. CASE Unclaim(d)
    <2> DEFINE a == calls[d].ask
    <2>1. rows' \in [Asks -> Row]
        <3>1. CASE a \in Asks
            <4>1. [rows[a] EXCEPT !.by = None] \in Row
                BY <3>1, RowChanges DEF TypeOK
            <4> QED BY <1>5, <4>1 DEF Unclaim, TypeOK
        <3>2. CASE a \notin Asks
            BY <1>5, <3>2 DEF Unclaim, TypeOK
        <3> QED BY <3>1, <3>2
    <2> QED BY <1>5, <2>1 DEF Unclaim, TypeOK, CallIs, hooks
<1> QED BY <1>1, <1>3, <1>4, <1>5 DEF Decide

-----------------------------------------------------------------------------
Sweeps == Stop \/ SweepReads \/ \E a \in Asks : SweepMarks(a)
Pumps  == Take \/ LoseBatch \/ AppendNote \/ AppendFails \/ Acknowledge

LEMMA SweepTypes ==
    ASSUME TypeOK, Sweeps
    PROVE  TypeOK'
<1>1. CASE Stop
    <2>1. gate' \in [Asks -> Gates]
        BY <1>1 DEF Stop, TypeOK, Gates, Waiting
    <2>2. calls' \in [Deciders -> [step : {"idle", "claimed", "over", "done"},
                                   ask : Asks \cup {None}]]
        BY <1>1 DEF Stop, TypeOK
    <2>3. life' \in 0..MaxStops
        BY <1>1, LimitsAssumption DEF Stop, TypeOK
    <2>4. outbox' \in Seq(Notes) /\ Len(outbox') <= Capacity
        BY <1>1, LimitsAssumption DEF Stop
    <2>5. sweep' \in (SUBSET Asks) \cup {Due}
        BY <1>1 DEF Stop
    <2>6. UNCHANGED <<rows, pump, chain>>
        BY <1>1 DEF Stop
    <2>7. /\ held' = {} /\ sent' = [a \in Asks |-> None]
          /\ writing' = [a \in Asks |-> "none"] /\ ends' = {}
        BY <1>1 DEF Stop
    <2> QED BY <2>1, <2>2, <2>3, <2>4, <2>5, <2>6, <2>7 DEF TypeOK
<1>2. CASE SweepReads
    BY <1>2 DEF SweepReads, TypeOK, hooks
<1>3. ASSUME NEW a \in Asks, SweepMarks(a)
      PROVE  TypeOK'
    <2>1. rows' \in [Asks -> Row]
        <3>1. [rows[a] EXCEPT !.state = "over", !.by = "unaudited"] \in Row
            BY RowChanges DEF TypeOK
        <3> QED BY <1>3, <3>1 DEF SweepMarks, TypeOK
    <2>2. outbox' \in Seq(Notes) /\ Len(outbox') <= Capacity
        <3>1. Push(Note(a, "restart")) \/ UNCHANGED outbox
            BY <1>3 DEF SweepMarks
        <3> QED BY <3>1, PushType, NoteType DEF Kinds, TypeOK
    <2>3. sweep' \in (SUBSET Asks) \cup {Due}
        BY <1>3 DEF SweepMarks, TypeOK
    <2> QED BY <1>3, <2>1, <2>2, <2>3 DEF SweepMarks, TypeOK, hooks
<1> QED BY <1>1, <1>2, <1>3 DEF Sweeps

Batch == [notes : Seq(Notes), acks : SUBSET Asks, life : 0..MaxStops]

LEMMA PumpTypes ==
    ASSUME TypeOK, Pumps
    PROVE  TypeOK'
<1>1. CASE Take
    BY <1>1, LimitsAssumption DEF Take, TypeOK, hooks, tasks
<1>2. CASE LoseBatch
    <2>1. pump' \in Batch
        <3>1. pump \in Batch /\ <<>> \in Seq(Notes) /\ {} \in SUBSET Asks
            BY DEF TypeOK, Batch
        <3> QED BY <1>2, <3>1 DEF LoseBatch, Batch
    <2> QED BY <1>2, <2>1 DEF LoseBatch, TypeOK, Batch, hooks, tasks
<1>3. CASE AppendNote
    <2> DEFINE note == Head(pump.notes)
    <2>1. pump.notes \in Seq(Notes) /\ pump.notes # <<>> /\ pump \in Batch
        BY <1>3 DEF AppendNote, TypeOK, Batch
    <2>2. note \in Notes /\ Tail(pump.notes) \in Seq(Notes)
        BY <2>1
    <2>3. note.ask \in Asks /\ note.kind \in Kinds
        BY <2>2 DEF Notes
    <2>4. chain' \in [Asks -> [Kinds -> Nat]]
        BY <1>3, <2>3 DEF AppendNote, TypeOK
    <2>5. pump' \in Batch
        BY <1>3, <2>1, <2>2, <2>3 DEF AppendNote, Batch
    <2> QED BY <1>3, <2>4, <2>5 DEF AppendNote, TypeOK, Batch, hooks, tasks
<1>4. CASE AppendFails
    <2>1. pump.notes \in Seq(Notes) /\ pump.notes # <<>> /\ pump \in Batch
        BY <1>4 DEF AppendFails, TypeOK, Batch
    <2>2. Tail(pump.notes) \in Seq(Notes)
        BY <2>1
    <2>3. pump' \in Batch
        BY <1>4, <2>1, <2>2 DEF AppendFails, Batch
    <2> QED BY <1>4, <2>3 DEF AppendFails, TypeOK, Batch, hooks, tasks
<1>5. CASE Acknowledge
    <2>1. rows' \in [Asks -> Row]
        <3>1. \A a \in Asks : [rows[a] EXCEPT !.by = "swept"] \in Row
            BY RowChanges DEF TypeOK
        <3>2. rows \in [Asks -> Row]
            BY DEF TypeOK
        <3>3. \/ rows' = [a \in Asks |-> IF a \in pump.acks /\ rows[a].by = "unaudited"
                                         THEN [rows[a] EXCEPT !.by = "swept"] ELSE rows[a]]
              \/ rows' = rows
            BY <1>5 DEF Acknowledge
        <3> QED BY <3>1, <3>2, <3>3
    <2>2. pump' \in Batch
        BY <1>5 DEF Acknowledge, TypeOK, Batch
    <2> QED BY <1>5, <2>1, <2>2 DEF Acknowledge, TypeOK, Batch, hooks, tasks
<1> QED BY <1>1, <1>2, <1>3, <1>4, <1>5 DEF Pumps

(* Every step is one of these groups'.                                     *)
LEMMA Groups ==
    Next <=> \/ \E a \in Asks : Hook(a) \/ WriteRow(a)
             \/ \E e \in ends : End(e)
             \/ \E d \in Deciders : Decide(d)
             \/ Revoke \/ Sweeps \/ Pumps
BY Zenon DEF Next, Hook, Decide, Sweeps, Pumps

LEMMA TypeStep ==
    ASSUME TypeOK, [Next]_vars
    PROVE  TypeOK'
<1>1. ASSUME NEW a \in Asks, WriteRow(a)
      PROVE  TypeOK'
    <2>1. [state |-> "open", by |-> None, life |-> life] \in Row
        BY LimitsAssumption DEF TypeOK, Row
    <2>2. rows' \in [Asks -> Row]
        BY <1>1, <2>1 DEF WriteRow, TypeOK
    <2> QED BY <1>1, <2>2 DEF WriteRow, TypeOK, hooks
<1>2. CASE Revoke
    BY <1>2 DEF Revoke, TypeOK
<1>3. CASE UNCHANGED vars
    BY <1>3 DEF vars, hooks, tasks, TypeOK
<1> QED BY <1>1, <1>2, <1>3, Groups, HookTypes, EndTypes, DecideTypes, SweepTypes, PumpTypes

LEMMA TypeInit == Init => TypeOK
<1> SUFFICES ASSUME Init PROVE TypeOK
    OBVIOUS
<1>1. [state |-> "none", by |-> None, life |-> 0] \in Row
    BY DEF Row
<1> QED BY <1>1, LimitsAssumption DEF Init, TypeOK, Gates, Waiting

(* Type correctness: an outbox never overflows, a task and a call are of   *)
(* known asks, and a row names a decider or the sweep.                     *)
THEOREM AskTypeCorrect == Spec => []TypeOK
<1>1. TypeOK /\ [Next]_vars => TypeOK'
    BY TypeStep
<1> QED BY <1>1, TypeInit, PTL DEF Spec

-----------------------------------------------------------------------------
(* What the broker acknowledges is on the chain, which never shrinks.      *)
AcksOnChain == \A a \in Asks :
    /\ a \in pump.acks => chain[a]["restart"] > 0
    /\ rows[a].by = "swept" => chain[a]["restart"] > 0

ByChanges == \A a \in Asks : rows'[a].by = "swept" => rows[a].by = "swept"

LEMMA CloseKeepsBy ==
    ASSUME TypeOK, NEW x \in Asks
    PROVE  \A a \in Asks : Closed(x)[a].by = rows[a].by
<1>1. [rows[x] EXCEPT !.state = "over"].by = rows[x].by
    BY DEF TypeOK, Row
<1> QED BY <1>1 DEF Closed, TypeOK

LEMMA ChainStep ==
    ASSUME TypeOK, AcksOnChain, [Next]_vars
    PROVE  AcksOnChain'
<1>1. ASSUME ByChanges, UNCHANGED <<pump, chain>>
      PROVE  AcksOnChain'
    BY <1>1 DEF ByChanges, AcksOnChain
<1>2. ASSUME NEW a \in Asks, Hook(a)
      PROVE  UNCHANGED <<rows, pump, chain>>
    BY <1>2 DEF Hook, Arrive, Park, TableFull, Reply, HoldElapses, ReceiverDrops, Expire, HangUp
<1>3. ASSUME NEW a \in Asks, WriteRow(a)
      PROVE  ByChanges /\ UNCHANGED <<pump, chain>>
    <2>1. UNCHANGED <<pump, chain>>
        BY <1>3 DEF WriteRow
    <2>2. \/ rows' = [rows EXCEPT ![a] = [state |-> "open", by |-> None, life |-> life]]
          \/ UNCHANGED rows
        BY <1>3 DEF WriteRow
    <2>3. rows \in [Asks -> Row] /\ None # "swept"
        BY NamesAssumption DEF TypeOK
    <2> QED BY <2>1, <2>2, <2>3 DEF ByChanges
<1>4. ASSUME NEW e \in ends, End(e)
      PROVE  ByChanges /\ UNCHANGED <<pump, chain>>
    <2>1. e.ask \in Asks
        BY DEF TypeOK
    <2>2. UNCHANGED <<pump, chain>> /\ (rows' = Closed(e.ask) \/ rows' = rows)
        BY <1>4 DEF End, Flips
    <2>3. \A a \in Asks : rows'[a].by = rows[a].by
        BY <2>1, <2>2, CloseKeepsBy
    <2> QED BY <2>2, <2>3 DEF ByChanges
<1>5. ASSUME NEW d \in Deciders, Decide(d)
      PROVE  ByChanges /\ UNCHANGED <<pump, chain>>
    <2>1. ASSUME NEW a \in Asks, Claim(d, a)
          PROVE  ByChanges
        BY <2>1, DecidersAssumption DEF Claim, ByChanges, TypeOK
    <2>2. ASSUME NEW a \in Asks, AnswerRaw(d, a)
          PROVE  UNCHANGED rows
        BY <2>2 DEF AnswerRaw
    <2>3. ASSUME Resolve(d)
          PROVE  UNCHANGED rows
        BY <2>3 DEF Resolve
    <2>4. ASSUME Unclaim(d)
          PROVE  ByChanges
        BY <2>4, NamesAssumption DEF Unclaim, ByChanges, TypeOK
    <2>5. UNCHANGED <<pump, chain>>
        BY <1>5 DEF Decide, Claim, AnswerRaw, Resolve, Unclaim
    <2> QED BY <1>5, <2>1, <2>2, <2>3, <2>4, <2>5 DEF Decide, ByChanges
<1>6. ASSUME Sweeps
      PROVE  ByChanges /\ UNCHANGED <<pump, chain>>
    <2>1. UNCHANGED <<pump, chain>>
        BY <1>6 DEF Sweeps, Stop, SweepReads, SweepMarks
    <2>2. CASE Stop \/ SweepReads
        BY <2>1, <2>2 DEF Stop, SweepReads, ByChanges
    <2>3. ASSUME NEW a \in Asks, SweepMarks(a)
          PROVE  ByChanges
        <3>1. rows' = [rows EXCEPT ![a] = [@ EXCEPT !.state = "over", !.by = "unaudited"]] \/ rows' = rows
            BY <2>3 DEF SweepMarks
        <3>2. rows[a] \in Row
            BY DEF TypeOK
        <3>3. [rows[a] EXCEPT !.state = "over", !.by = "unaudited"].by = "unaudited"
            BY <3>2 DEF Row
        <3> QED BY <3>1, <3>3 DEF ByChanges, TypeOK
    <2> QED BY <1>6, <2>1, <2>2, <2>3 DEF Sweeps
<1>7. CASE Pumps
    <2>1. pump \in Batch
        BY DEF TypeOK, Batch
    <2>2. CASE Take
        BY <2>2 DEF Take, AcksOnChain
    <2>3. CASE LoseBatch
        BY <2>1, <2>3 DEF LoseBatch, AcksOnChain, Batch
    <2>4. CASE AppendFails
        BY <2>1, <2>4 DEF AppendFails, AcksOnChain, Batch
    <2>5. CASE Acknowledge
        BY <2>1, <2>5 DEF Acknowledge, AcksOnChain, Batch, TypeOK
    <2>6. CASE AppendNote
        <3> DEFINE note == Head(pump.notes)
        <3>1. note \in Notes
            BY <2>1, <2>6 DEF AppendNote, Batch
        <3>2. note.ask \in Asks /\ note.kind \in Kinds
            BY <3>1 DEF Notes
        <3>3. \A a \in Asks : chain'[a]["restart"] >= chain[a]["restart"]
            BY <2>6, <3>2 DEF AppendNote, TypeOK, Kinds
        <3>4. note.kind = "restart" => chain'[note.ask]["restart"] > 0
            BY <2>6, <3>2 DEF AppendNote, TypeOK, Kinds
        <3>5. \A a \in pump'.acks : a \in pump.acks \/ (note.kind = "restart" /\ a = note.ask)
            BY <2>1, <2>6 DEF AppendNote, Batch
        <3>6. UNCHANGED rows /\ \A a \in Asks : chain'[a]["restart"] \in Nat /\ chain[a]["restart"] \in Nat
            BY <2>6, <3>2 DEF AppendNote, TypeOK, Kinds
        <3> QED BY <3>3, <3>4, <3>5, <3>6 DEF AcksOnChain
    <2> QED BY <1>7, <2>2, <2>3, <2>4, <2>5, <2>6 DEF Pumps
<1>8. CASE Revoke
    BY <1>8 DEF Revoke, AcksOnChain
<1>9. CASE UNCHANGED vars
    BY <1>9 DEF vars, AcksOnChain
<1> QED BY <1>1, <1>2, <1>3, <1>4, <1>5, <1>6, <1>7, <1>8, <1>9, Groups DEF ByChanges

(* An expiry cannot be lost: a row that the sweep closed for good has its  *)
(* note on the chain, however many batches, acknowledgments and lives were  *)
(* lost before.                                                            *)
THEOREM SweepsAreAudited == Spec => []SweptIsAudited
<1>1. Init => AcksOnChain
    BY NamesAssumption DEF Init, AcksOnChain
<1>2. TypeOK /\ AcksOnChain /\ [Next]_vars => AcksOnChain'
    BY ChainStep
<1>3. AcksOnChain => SweptIsAudited
    BY DEF AcksOnChain, SweptIsAudited
<1> QED BY <1>1, <1>2, <1>3, AskTypeCorrect, PTL DEF Spec

-----------------------------------------------------------------------------
(* A row is written while its ask is held or about to be ended, and by the *)
(* child's present life.                                                   *)
Attended(a) == a \in held \/ \E e \in ends : e.ask = a

Attention == \A a \in Asks :
    /\ writing[a] = "due" => Attended(a)
    /\ rows[a].life <= life
    /\ rows[a].state = "open" => \/ rows[a].life = life /\ (Attended(a) \/ writing[a] = "left")
                                 \/ rows[a].life < life /\ (sweep = Due \/ a \in sweep)

(* Steps that only pass asks from the held table on to the ends.           *)
KeepAttended == \A a \in Asks : Attended(a) => Attended(a)'

LEMMA Passing ==
    ASSUME Attention, KeepAttended, UNCHANGED <<rows, writing, life, sweep>>
    PROVE  Attention'
BY DEF Attention, KeepAttended

LEMMA Handover ==
    ASSUME NEW a, held' = held \ {a}, ends \subseteq ends',
           a \in held => \E e \in ends' : e.ask = a
    PROVE  KeepAttended
BY DEF KeepAttended, Attended

LEMMA HookAttends ==
    ASSUME TypeOK, Attention, NEW a \in Asks, Hook(a)
    PROVE  Attention'
<1>1. CASE Park(a)
    <2>1. held' = held \cup {a} /\ UNCHANGED <<ends, rows, sweep, life>>
        BY <1>1 DEF Park
    <2>2. \A b \in Asks : b # a => writing'[b] = writing[b]
        BY <1>1 DEF Park, TypeOK
    <2> QED BY <2>1, <2>2 DEF Attention, Attended
<1>2. CASE Expire(a) \/ HangUp(a)
    <2>1. held' = held \ {a}
        BY <1>2 DEF Expire, HangUp, Takes
    <2>2. IF a \in held THEN ends' = ends \cup {[ask |-> a, note |-> "ended"]} ELSE ends' = ends
        BY <1>2 DEF Expire, HangUp, Concludes
    <2>3. KeepAttended
        <3>1. [ask |-> a, note |-> "ended"].ask = a
            OBVIOUS
        <3>2. ends \subseteq ends' /\ (a \in held => [ask |-> a, note |-> "ended"] \in ends')
            BY <2>2
        <3>3. a \in held => \E e \in ends' : e.ask = a
            BY <3>1, <3>2
        <3> QED BY <2>1, <3>2, <3>3, Handover
    <2>4. UNCHANGED <<rows, writing, life, sweep>>
        BY <1>2 DEF Expire, HangUp
    <2> QED BY <2>3, <2>4, Passing
<1>3. CASE Arrive(a) \/ TableFull(a) \/ Reply(a) \/ HoldElapses(a) \/ ReceiverDrops(a)
    BY <1>3 DEF Arrive, TableFull, Reply, HoldElapses, ReceiverDrops, tasks, Attention, Attended
<1> QED BY <1>1, <1>2, <1>3 DEF Hook

LEMMA RowChangesState ==
    ASSUME NEW r \in Row
    PROVE  /\ [r EXCEPT !.state = "over"].state = "over"
           /\ [r EXCEPT !.state = "over"].life = r.life
           /\ \A b : /\ [r EXCEPT !.by = b].state = r.state
                     /\ [r EXCEPT !.by = b].life = r.life
                     /\ [r EXCEPT !.state = "over", !.by = b].state = "over"
                     /\ [r EXCEPT !.state = "over", !.by = b].life = r.life
BY DEF Row

(* Steps that at most close rows leave every open row attended.            *)
Closings == \A a \in Asks :
    /\ rows'[a].life = rows[a].life
    /\ rows'[a].state = "open" => rows[a].state = "open"

LEMMA ClosingAttends ==
    ASSUME Attention, Closings, KeepAttended, UNCHANGED <<writing, life, sweep>>
    PROVE  Attention'
BY DEF Attention, Closings, KeepAttended

LEMMA EndAttends ==
    ASSUME TypeOK, Attention, NEW e \in ends, End(e)
    PROVE  Attention'
<1>1. e.ask \in Asks /\ writing[e.ask] = "done" /\ ends' = ends \ {e} /\ Flips(e.ask)
    BY DEF End, TypeOK
<1>2. UNCHANGED <<held, life, sweep>>
    BY DEF End, hooks
<1>3. \A a \in Asks : a # e.ask /\ Attended(a) => Attended(a)'
    BY <1>1, <1>2 DEF Attended
<1>4. ASSUME rows' = Closed(e.ask), writing' = writing
      PROVE  Attention'
    <2>1. rows[e.ask] \in Row
        BY <1>1 DEF TypeOK
    <2>2. /\ [rows[e.ask] EXCEPT !.state = "over"].state = "over"
          /\ [rows[e.ask] EXCEPT !.state = "over"].life = rows[e.ask].life
        BY <2>1, RowChangesState
    <2>3. rows'[e.ask].state # "open" /\ Closings
        BY <1>1, <1>4, <2>2 DEF Closed, Closings, TypeOK
    <2> QED BY <1>1, <1>2, <1>3, <1>4, <2>3 DEF Attention, Closings
<1>5. ASSUME writing' = [writing EXCEPT ![e.ask] = "left"], rows' = rows
      PROVE  Attention'
    <2>1. writing'[e.ask] = "left" /\ \A a \in Asks : a # e.ask => writing'[a] = writing[a]
        BY <1>1, <1>5 DEF TypeOK
    <2> QED BY <1>2, <1>3, <1>5, <2>1 DEF Attention
<1> QED BY <1>1, <1>4, <1>5 DEF Flips

LEMMA DecideAttends ==
    ASSUME TypeOK, Attention, NEW d \in Deciders, Decide(d)
    PROVE  Attention'
<1>1. UNCHANGED <<writing, life, sweep>>
    BY DEF Decide, Claim, AnswerRaw, Resolve, Unclaim
<1>2. KeepAttended
    <2>1. ASSUME NEW a, Delivers(d, a) \/ Misses(a)
          PROVE  KeepAttended
        <3>1. /\ held' = held \ {a}
              /\ \/ a \notin held /\ ends' = ends
                 \/ \E n : ends' = ends \cup {[ask |-> a, note |-> n]}
            BY <2>1 DEF Delivers, Misses, Takes, Concludes
        <3>2. ends \subseteq ends'
            BY <3>1
        <3>3. a \in held => \E e \in ends' : e.ask = a
            <4>1. \A n : [ask |-> a, note |-> n].ask = a
                OBVIOUS
            <4> QED BY <3>1, <4>1
        <3> QED BY <3>1, <3>2, <3>3, Handover
    <2>2. ASSUME UNCHANGED <<held, ends>>
          PROVE  KeepAttended
        BY <2>2 DEF KeepAttended, Attended
    <2> QED BY <2>1, <2>2 DEF Decide, Claim, AnswerRaw, Resolve, Unclaim, hooks
<1>3. Closings
    <2>1. ASSUME NEW a \in Asks, Claim(d, a)
          PROVE  Closings
        <3>1. rows' = [rows EXCEPT ![a] = [@ EXCEPT !.state = "over", !.by = d]] /\ rows[a] \in Row
            BY <2>1 DEF Claim, TypeOK
        <3> QED BY <3>1, RowChangesState DEF Closings, TypeOK
    <2>2. ASSUME UNCHANGED rows
          PROVE  Closings
        BY <2>2 DEF Closings
    <2>3. ASSUME Unclaim(d)
          PROVE  Closings
        <3> DEFINE a == calls[d].ask
        <3>1. rows' = [rows EXCEPT ![a].by = None]
            BY <2>3 DEF Unclaim
        <3>2. a \in Asks => rows[a] \in Row
            BY DEF TypeOK
        <3> QED BY <3>1, <3>2, RowChangesState DEF Closings, TypeOK
    <2> QED BY <2>1, <2>2, <2>3 DEF Decide, AnswerRaw, Resolve
<1> QED BY <1>1, <1>2, <1>3, ClosingAttends

LEMMA SweepAttends ==
    ASSUME TypeOK, Attention, Sweeps
    PROVE  Attention'
<1>1. CASE Stop
    BY <1>1, LimitsAssumption DEF Stop, Attention, Attended, TypeOK, Row
<1>2. CASE SweepReads
    <2>1. sweep' = {a \in Asks : Orphaned(a)} /\ UNCHANGED <<held, ends, rows, writing, life>>
        BY <1>2 DEF SweepReads, hooks
    <2> QED BY <2>1 DEF Attention, Attended, Orphaned
<1>3. ASSUME NEW a \in Asks, SweepMarks(a)
      PROVE  Attention'
    <2>1. sweep # Due /\ sweep' = sweep \ {a} /\ UNCHANGED <<held, ends, writing, life>>
        BY <1>3 DEF SweepMarks, hooks
    <2>2. rows'[a].state # "open" /\ Closings
        <3>1. rows[a] \in Row
            BY DEF TypeOK
        <3>2. \/ rows' = [rows EXCEPT ![a] = [@ EXCEPT !.state = "over", !.by = "unaudited"]]
              \/ rows' = rows /\ rows[a].state # "open"
            BY <1>3 DEF SweepMarks
        <3>3. CASE rows' = [rows EXCEPT ![a] = [@ EXCEPT !.state = "over", !.by = "unaudited"]]
            <4>1. rows'[a].state = "over" /\ rows'[a].life = rows[a].life
                BY <3>1, <3>3, RowChangesState DEF TypeOK
            <4>2. \A b \in Asks : b # a => rows'[b] = rows[b]
                BY <3>3 DEF TypeOK
            <4> QED BY <4>1, <4>2 DEF Closings
        <3> QED BY <3>2, <3>3 DEF Closings
    <2> QED BY <2>1, <2>2 DEF Attention, Attended, Closings
<1> QED BY <1>1, <1>2, <1>3 DEF Sweeps

LEMMA AttendStep ==
    ASSUME TypeOK, Attention, [Next]_vars
    PROVE  Attention'
<1>1. ASSUME NEW a \in Asks, WriteRow(a)
      PROVE  Attention'
    <2>1. UNCHANGED <<held, ends, life, sweep>>
        BY <1>1 DEF WriteRow, hooks
    <2>2. \A b \in Asks : b # a => writing'[b] = writing[b] /\ rows'[b] = rows[b]
        BY <1>1 DEF WriteRow, TypeOK
    <2>3. /\ writing[a] = "due" /\ writing'[a] = "done"
          /\ rows'[a] = rows[a] \/ (rows'[a].life = life /\ rows'[a].state = "open")
        BY <1>1 DEF WriteRow, TypeOK
    <2> QED BY <2>1, <2>2, <2>3 DEF Attention, Attended, TypeOK
<1>2. CASE Revoke
    <2>1. ends' = ends \cup [ask : held, note : {"ended"}] /\ UNCHANGED <<rows, writing, life, sweep>>
        BY <1>2 DEF Revoke
    <2>2. \A a \in held : [ask |-> a, note |-> "ended"] \in ends'
        BY <2>1
    <2>3. KeepAttended
        BY <2>1, <2>2 DEF KeepAttended, Attended
    <2> QED BY <2>1, <2>3, Passing
<1>3. CASE Pumps
    <2>1. UNCHANGED <<held, ends, writing, life, sweep>>
        BY <1>3 DEF Pumps, Take, LoseBatch, AppendNote, AppendFails, Acknowledge, hooks, tasks
    <2>2. Closings
        <3>1. CASE Acknowledge
            <4>1. \A a \in Asks : rows[a] \in Row
                BY DEF TypeOK
            <4>2. \A a \in Asks : [rows[a] EXCEPT !.by = "swept"].state = rows[a].state
                              /\ [rows[a] EXCEPT !.by = "swept"].life = rows[a].life
                BY <4>1, RowChangesState
            <4>3. \A a \in Asks : rows'[a] \in {rows[a], [rows[a] EXCEPT !.by = "swept"]}
                BY <3>1 DEF Acknowledge
            <4> QED BY <4>2, <4>3 DEF Closings
        <3>2. CASE UNCHANGED rows
            BY <3>2 DEF Closings
        <3> QED BY <1>3, <3>1, <3>2 DEF Pumps, Take, LoseBatch, AppendNote, AppendFails
    <2>3. KeepAttended
        BY <2>1 DEF KeepAttended, Attended
    <2> QED BY <2>1, <2>2, <2>3, ClosingAttends
<1>4. CASE UNCHANGED vars
    BY <1>4 DEF vars, hooks, tasks, Attention, Attended
<1> QED BY <1>1, <1>2, <1>3, <1>4, Groups, HookAttends, EndAttends, DecideAttends, SweepAttends

(* Whichever way an ask ends, and however fast, a row that is open is still*)
(* held, or its end or a sweep is due, or its flip failed in this life.    *)
THEOREM OpenRowsAreAttended == Spec => []OpenIsAttended
<1>1. Init => Attention
    BY DEF Init, Attention
<1>2. TypeOK /\ Attention /\ [Next]_vars => Attention'
    BY AttendStep
<1>3. Attention => OpenIsAttended
    BY DEF Attention, Attended, Pending, OpenIsAttended
<1> QED BY <1>1, <1>2, <1>3, AskTypeCorrect, PTL DEF Spec

-----------------------------------------------------------------------------
(* Counting the notes of an ask.                                           *)
Counts(n, a) == IF n.ask = a /\ n.kind # "restart" THEN 1 ELSE 0
EndsOf(a)    == {e \in ends : e.ask = a /\ e.note # None}
Told(a)      == Cardinality(EndsOf(a)) + Cardinality(Says(outbox, a))
                    + Cardinality(Says(pump.notes, a)) + chain[a]["decided"] + chain[a]["ended"]

LEMMA SaysFinite ==
    ASSUME NEW s \in Seq(Notes), NEW a
    PROVE  IsFiniteSet(Says(s, a)) /\ Cardinality(Says(s, a)) \in Nat
<1>1. DOMAIN s = 1..Len(s) /\ Len(s) \in Nat
    OBVIOUS
<1>2. IsFiniteSet(1..Len(s))
    BY <1>1, FS_Interval
<1>3. Says(s, a) \in SUBSET (1..Len(s))
    BY <1>1 DEF Says
<1> QED BY <1>2, <1>3, FS_Subset, FS_CardinalityType

LEMMA SaysNothing == \A a : Cardinality(Says(<<>>, a)) = 0
<1>1. \A a : Says(<<>>, a) = {}
    BY DEF Says
<1> QED BY <1>1, FS_EmptySet

LEMMA SaysAppend ==
    ASSUME NEW s \in Seq(Notes), NEW n \in Notes, NEW a
    PROVE  Cardinality(Says(Append(s, n), a)) = Cardinality(Says(s, a)) + Counts(n, a)
<1>1. /\ Len(s) \in Nat /\ DOMAIN s = 1..Len(s) /\ DOMAIN Append(s, n) = 1..(Len(s) + 1)
      /\ \A i \in 1..Len(s) : Append(s, n)[i] = s[i]
      /\ Append(s, n)[Len(s) + 1] = n
    OBVIOUS
<1>2. CASE n.ask = a /\ n.kind # "restart"
    <2>1. Says(Append(s, n), a) = Says(s, a) \cup {Len(s) + 1}
        BY <1>1, <1>2 DEF Says
    <2>2. Len(s) + 1 \notin Says(s, a)
        BY <1>1 DEF Says
    <2> QED BY <1>2, <2>1, <2>2, SaysFinite, FS_AddElement DEF Counts
<1>3. CASE ~(n.ask = a /\ n.kind # "restart")
    <2>1. Says(Append(s, n), a) = Says(s, a)
        BY <1>1, <1>3 DEF Says
    <2> QED BY <1>3, <2>1, SaysFinite DEF Counts
<1> QED BY <1>2, <1>3

LEMMA SaysTail ==
    ASSUME NEW s \in Seq(Notes), s # <<>>, NEW a
    PROVE  Cardinality(Says(Tail(s), a)) + Counts(Head(s), a) <= Cardinality(Says(s, a))
<1> DEFINE later == Says(s, a) \ {1}
           shift == [i \in Says(Tail(s), a) |-> i + 1]
<1>1. /\ Len(s) \in Nat \ {0} /\ DOMAIN s = 1..Len(s) /\ Tail(s) \in Seq(Notes)
      /\ DOMAIN Tail(s) = 1..(Len(s) - 1) /\ Head(s) = s[1]
      /\ \A i \in 1..(Len(s) - 1) : Tail(s)[i] = s[i + 1]
    OBVIOUS
<1>2. IsFiniteSet(Says(s, a)) /\ Cardinality(Says(s, a)) \in Nat
    BY SaysFinite
<1>3. /\ IsFiniteSet(later)
      /\ Cardinality(later) = IF 1 \in Says(s, a) THEN Cardinality(Says(s, a)) - 1
                              ELSE Cardinality(Says(s, a))
    BY <1>2, FS_RemoveElement
<1>4. shift \in Injection(Says(Tail(s), a), later)
    <2>1. \A i \in Says(Tail(s), a) : i \in Nat /\ i # 0 /\ i + 1 \in later
        BY <1>1 DEF Says
    <2>2. shift \in [Says(Tail(s), a) -> later]
        BY <2>1
    <2>3. \A i, j \in Says(Tail(s), a) : shift[i] = shift[j] => i = j
        BY <2>1
    <2> QED BY <2>2, <2>3 DEF Injection, IsInjective
<1>5. Cardinality(Says(Tail(s), a)) <= Cardinality(later)
    BY <1>3, <1>4, FS_Injection
<1>6. 1 \in Says(s, a) <=> Counts(Head(s), a) = 1
    BY <1>1 DEF Says, Counts
<1>7. Counts(Head(s), a) \in {0, 1}
    BY DEF Counts
<1>8. Cardinality(Says(Tail(s), a)) \in Nat
    BY <1>1, SaysFinite
<1> QED BY <1>2, <1>3, <1>5, <1>6, <1>7, <1>8

LEMMA PushSays ==
    ASSUME TypeOK, NEW n \in Notes, Push(n), NEW a
    PROVE  Cardinality(Says(outbox', a)) <= Cardinality(Says(outbox, a)) + Counts(n, a)
<1>1. outbox \in Seq(Notes) /\ Capacity \in Nat \ {0}
    BY LimitsAssumption DEF TypeOK
<1>2. CASE Len(outbox) >= Capacity
    <2>1. outbox # <<>> /\ Tail(outbox) \in Seq(Notes) /\ Head(outbox) \in Notes
        BY <1>1, <1>2
    <2>2. Cardinality(Says(outbox', a)) = Cardinality(Says(Tail(outbox), a)) + Counts(n, a)
        BY <1>2, <2>1, SaysAppend DEF Push
    <2>3. Cardinality(Says(Tail(outbox), a)) + Counts(Head(outbox), a) <= Cardinality(Says(outbox, a))
        BY <1>1, <2>1, SaysTail
    <2>4. Counts(Head(outbox), a) \in {0, 1} /\ Counts(n, a) \in {0, 1}
        BY DEF Counts
    <2>5. Cardinality(Says(Tail(outbox), a)) \in Nat /\ Cardinality(Says(outbox, a)) \in Nat
        BY <1>1, <2>1, SaysFinite
    <2> QED BY <2>2, <2>3, <2>4, <2>5
<1>3. CASE ~(Len(outbox) >= Capacity)
    <2>1. Cardinality(Says(outbox', a)) = Cardinality(Says(outbox, a)) + Counts(n, a)
        BY <1>1, <1>3, SaysAppend DEF Push
    <2> QED BY <1>1, <2>1, SaysFinite DEF Counts
<1> QED BY <1>2, <1>3

(* An ask's ends that tell are one task at most.                           *)
LEMMA EndsCount ==
    ASSUME TypeOK, NEW a
    PROVE  /\ IsFiniteSet(EndsOf(a)) /\ Cardinality(EndsOf(a)) \in {0, 1}
           /\ EndsOf(a) = {} <=> Cardinality(EndsOf(a)) = 0
<1>1. EndsOf(a) \in SUBSET {[ask |-> a, note |-> "ended"]}
    BY DEF EndsOf, TypeOK
<1>2. EndsOf(a) = {} \/ EndsOf(a) = {[ask |-> a, note |-> "ended"]}
    BY <1>1
<1>3. CASE EndsOf(a) = {}
    BY <1>3, FS_EmptySet
<1>4. CASE EndsOf(a) = {[ask |-> a, note |-> "ended"]}
    <2>1. EndsOf(a) # {}
        BY <1>4
    <2>2. IsFiniteSet(EndsOf(a)) /\ Cardinality(EndsOf(a)) = 1
        BY <1>4, FS_Singleton
    <2> QED BY <2>1, <2>2
<1> QED BY <1>2, <1>3, <1>4

LEMMA ToldType ==
    ASSUME TypeOK, NEW a \in Asks
    PROVE  /\ Cardinality(EndsOf(a)) \in Nat /\ Cardinality(Says(outbox, a)) \in Nat
           /\ Cardinality(Says(pump.notes, a)) \in Nat
           /\ chain[a]["decided"] \in Nat /\ chain[a]["ended"] \in Nat /\ Told(a) \in Nat
<1>1. outbox \in Seq(Notes) /\ pump.notes \in Seq(Notes)
    BY DEF TypeOK
<1>2. chain[a]["decided"] \in Nat /\ chain[a]["ended"] \in Nat
    BY DEF TypeOK, Kinds
<1>3. /\ Cardinality(EndsOf(a)) \in Nat /\ Cardinality(Says(outbox, a)) \in Nat
      /\ Cardinality(Says(pump.notes, a)) \in Nat
    BY <1>1, SaysFinite, EndsCount
<1> QED BY <1>2, <1>3 DEF Told

CountTypes == \A a \in Asks :
    /\ Cardinality(EndsOf(a)) \in {0, 1} /\ Cardinality(Says(outbox, a)) \in Nat
    /\ Cardinality(Says(pump.notes, a)) \in Nat
    /\ chain[a]["decided"] \in Nat /\ chain[a]["ended"] \in Nat /\ Told(a) \in Nat

LEMMA CountsAre == TypeOK => CountTypes
BY ToldType, EndsCount DEF CountTypes

LEMMA CountsAreNext == TypeOK' => CountTypes'
BY CountsAre, PTL

(* Nothing is told of an ask that is still on its way or held, and once of *)
(* every other.                                                            *)
Fresh == {"none", "arrived"}

Once == \A a \in Asks :
    /\ Told(a) <= 1
    /\ a \in held => Told(a) = 0
    /\ gate[a] \in Fresh => Told(a) = 0 /\ a \notin held

(* A step that tells of the asks in T, and of no other.                    *)
LEMMA TellingStep ==
    ASSUME TypeOK, TypeOK', Once, NEW T \in SUBSET Asks,
           \A b \in Asks \ T : Told(b)' <= Told(b),
           \A b \in T : Told(b)' <= 1 /\ b \notin held' /\ gate'[b] \notin Fresh,
           held' \subseteq held,
           \A b \in Asks : gate'[b] \in Fresh => gate[b] \in Fresh
    PROVE  Once'
<1>1. \A b \in Asks : Told(b) \in Nat /\ Told(b)' \in Nat
    BY CountsAre, CountsAreNext DEF CountTypes
<1>2. ASSUME NEW b \in Asks \ T
      PROVE  /\ Told(b)' <= 1
             /\ b \in held' => Told(b)' = 0
             /\ gate'[b] \in Fresh => Told(b)' = 0 /\ b \notin held'
    BY <1>1, <1>2 DEF Once
<1>3. ASSUME NEW b \in T
      PROVE  /\ Told(b)' <= 1
             /\ b \in held' => Told(b)' = 0
             /\ gate'[b] \in Fresh => Told(b)' = 0 /\ b \notin held'
    BY <1>3
<1> QED BY <1>2, <1>3 DEF Once

(* A step that leaves the tasks and the broker's side alone, but for a     *)
(* note it may queue.                                                      *)
Quiet == UNCHANGED <<ends, outbox, pump, chain>>

LEMMA QuietTells ==
    ASSUME Quiet, NEW a
    PROVE  Told(a)' = Told(a)
BY DEF Quiet, Told, EndsOf, Says

LEMMA PushTells ==
    ASSUME TypeOK, NEW n \in Notes, Push(n), UNCHANGED <<pump, chain>>,
           NEW a \in Asks, Cardinality(EndsOf(a))' = Cardinality(EndsOf(a))
    PROVE  Told(a)' <= Told(a) + Counts(n, a)
<1>1. Cardinality(Says(outbox, a))' <= Cardinality(Says(outbox, a)) + Counts(n, a)
    BY PushSays DEF Says
<1>2. Cardinality(Says(pump.notes, a))' = Cardinality(Says(pump.notes, a))
    BY DEF Says
<1>3. outbox' \in Seq(Notes)
    BY PushType
<1>4. Cardinality(Says(outbox, a))' \in Nat
    BY <1>3, SaysFinite DEF Says
<1> QED BY <1>1, <1>2, <1>4, ToldType DEF Told, Counts

(* An ask of which nothing was told, when its end becomes due.             *)
LEMMA DueTells ==
    ASSUME TypeOK, TypeOK', NEW a \in Asks, Told(a) = 0, UNCHANGED <<outbox, pump, chain>>
    PROVE  Told(a)' <= 1
<1>1. Cardinality(EndsOf(a))' \in {0, 1}
    BY CountsAreNext DEF CountTypes
<1>2. /\ Cardinality(Says(outbox, a))' = Cardinality(Says(outbox, a))
      /\ Cardinality(Says(pump.notes, a))' = Cardinality(Says(pump.notes, a))
    BY DEF Says
<1>3. /\ Cardinality(Says(outbox, a)) = 0 /\ Cardinality(Says(pump.notes, a)) = 0
      /\ chain[a]["decided"] + chain[a]["ended"] = 0
    BY CountsAre DEF CountTypes, Told
<1> QED BY <1>1, <1>2, <1>3, ToldType DEF Told

(* The end of another ask becomes due.                                     *)
LEMMA OtherDue ==
    ASSUME NEW x, NEW n, ends' = ends \cup {[ask |-> x, note |-> n]},
           NEW a, a # x \/ n = None
    PROVE  EndsOf(a)' = EndsOf(a)
<1>1. [ask |-> x, note |-> n].ask = x /\ [ask |-> x, note |-> n].note = n
    OBVIOUS
<1> QED BY <1>1 DEF EndsOf

LEMMA DueKeepsOthers ==
    ASSUME NEW x, NEW n, ends' = ends \cup {[ask |-> x, note |-> n]},
           UNCHANGED <<outbox, pump, chain>>,
           NEW a, a # x \/ n = None
    PROVE  Told(a)' = Told(a)
<1>1. EndsOf(a)' = EndsOf(a)
    BY OtherDue
<1> QED BY <1>1 DEF Told, Says

(* The hook's requests.                                                    *)
LEMMA HookTells ==
    ASSUME TypeOK, TypeOK', Once, NEW a \in Asks, Hook(a)
    PROVE  Once'
<1>1. CASE Arrive(a) \/ Reply(a) \/ HoldElapses(a) \/ ReceiverDrops(a)
    <2>1. Quiet /\ held' = held
        BY <1>1 DEF Arrive, Reply, HoldElapses, ReceiverDrops, Quiet, tasks
    <2>2. \A b \in Asks : gate'[b] \in Fresh => gate[b] \in Fresh
        BY <1>1 DEF Arrive, Reply, HoldElapses, ReceiverDrops, Becomes, Fresh, TypeOK
    <2>3. \A b \in Asks : Told(b)' <= Told(b)
        BY <2>1, QuietTells, CountsAre DEF CountTypes
    <2> QED BY <2>1, <2>2, <2>3, TellingStep, {} \in SUBSET Asks
<1>2. CASE Park(a)
    <2>1. Quiet /\ held' = held \cup {a}
        BY <1>2 DEF Park, Quiet
    <2>2. gate[a] \in Fresh /\ gate'[a] \notin Fresh /\ \A b \in Asks : b # a => gate'[b] = gate[b]
        BY <1>2 DEF Park, Becomes, Fresh, TypeOK
    <2>3. \A b \in Asks : Told(b)' = Told(b)
        BY <2>1, QuietTells
    <2>4. Told(a) = 0
        BY <2>2 DEF Once
    <2>5. ASSUME NEW b \in Asks
          PROVE  /\ Told(b)' <= 1 /\ (b \in held' => Told(b)' = 0)
                 /\ gate'[b] \in Fresh => Told(b)' = 0 /\ b \notin held'
        BY <2>1, <2>2, <2>3, <2>4 DEF Once
    <2> QED BY <2>5 DEF Once
<1>3. CASE TableFull(a)
    <2>1. Push(Note(a, "ended")) /\ UNCHANGED <<held, ends, pump, chain>>
        BY <1>3 DEF TableFull, tasks
    <2>2. Note(a, "ended") \in Notes /\ \A b \in Asks : b # a => Counts(Note(a, "ended"), b) = 0
        BY NoteType DEF Counts, Note, Kinds
    <2>3. \A b \in Asks : Cardinality(EndsOf(b))' = Cardinality(EndsOf(b))
        BY <2>1 DEF EndsOf
    <2>4. \A b \in Asks : Told(b)' <= Told(b) + Counts(Note(a, "ended"), b)
        BY <2>1, <2>2, <2>3, PushTells
    <2>5. gate[a] \in Fresh /\ gate'[a] \notin Fresh /\ \A b \in Asks : b # a => gate'[b] = gate[b]
        BY <1>3 DEF TableFull, Becomes, Fresh, TypeOK
    <2>6. Told(a) = 0 /\ a \notin held
        BY <2>5 DEF Once
    <2>7. \A b \in Asks : Told(b) \in Nat /\ Told(b)' \in Nat
        BY CountsAre, CountsAreNext DEF CountTypes
    <2>8. Told(a)' <= 1
        BY <2>4, <2>6, <2>7 DEF Counts
    <2>9. \A b \in Asks \ {a} : Told(b)' <= Told(b)
        BY <2>2, <2>4, <2>7
    <2> QED BY <2>1, <2>5, <2>6, <2>8, <2>9, TellingStep, {a} \in SUBSET Asks
<1>4. CASE Expire(a) \/ HangUp(a)
    <2>1. held' = held \ {a} /\ UNCHANGED <<outbox, pump, chain>>
        BY <1>4 DEF Expire, HangUp, Takes
    <2>2. gate'[a] \notin Fresh /\ \A b \in Asks : b # a => gate'[b] = gate[b]
        BY <1>4 DEF Expire, HangUp, Becomes, Fresh, TypeOK
    <2>3. CASE a \in held
        <3>1. ends' = ends \cup {[ask |-> a, note |-> "ended"]}
            BY <1>4, <2>3 DEF Expire, HangUp, Concludes
        <3>2. Told(a)' <= 1
            BY <2>1, <2>3, DueTells DEF Once
        <3>3. \A b \in Asks \ {a} : Told(b)' <= Told(b)
            BY <2>1, <3>1, DueKeepsOthers, CountsAre DEF CountTypes
        <3> QED BY <2>1, <2>2, <3>2, <3>3, TellingStep, {a} \in SUBSET Asks
    <2>4. CASE a \notin held
        <3>1. Quiet
            BY <1>4, <2>1, <2>4 DEF Expire, HangUp, Quiet
        <3>2. \A b \in Asks : Told(b)' <= Told(b)
            BY <3>1, QuietTells, CountsAre DEF CountTypes
        <3> QED BY <2>1, <2>2, <3>2, TellingStep, {} \in SUBSET Asks
    <2> QED BY <2>3, <2>4
<1> QED BY <1>1, <1>2, <1>3, <1>4 DEF Hook

LEMMA EndTells ==
    ASSUME TypeOK, TypeOK', Once, NEW e \in ends, End(e)
    PROVE  Once'
<1>1. e.ask \in Asks /\ e.note \in {None, "ended"} /\ ends' = ends \ {e} /\ None # "ended"
    BY NamesAssumption DEF TypeOK, End
<1>2. UNCHANGED <<held, gate, pump, chain>>
    BY DEF End, hooks
<1>3. \A b \in Asks : Told(b)' <= Told(b)
    <2>1. CASE e.note = None
        <3>1. \A b \in Asks : EndsOf(b)' = EndsOf(b)
            BY <1>1, <2>1 DEF EndsOf
        <3>2. outbox' = outbox
            BY <2>1 DEF End
        <3> QED BY <1>2, <3>1, <3>2, CountsAre DEF CountTypes, Told, Says
    <2>2. CASE e.note = "ended"
        <3> DEFINE n == Note(e.ask, e.note)
        <3>1. Push(n) /\ n \in Notes
            BY <1>1, <2>2, NoteType DEF End, Kinds
        <3>2. ASSUME NEW b \in Asks, b # e.ask
              PROVE  Told(b)' <= Told(b)
            <4>1. EndsOf(b)' = EndsOf(b)
                BY <1>1, <3>2 DEF EndsOf
            <4>2. Counts(n, b) = 0
                BY <3>2 DEF Counts, Note
            <4> QED BY <1>2, <3>1, <4>1, <4>2, PushTells, CountsAre, CountsAreNext DEF CountTypes
        <3>3. Told(e.ask)' <= Told(e.ask)
            <4> DEFINE a == e.ask
            <4>1. e \in EndsOf(a)
                BY <1>1, <2>2 DEF EndsOf
            <4>2. EndsOf(a)' = EndsOf(a) \ {e}
                BY <1>1 DEF EndsOf
            <4>3. Cardinality(EndsOf(a)) = 1 /\ EndsOf(a) \ {e} = {}
                <5>1. EndsOf(a) \in SUBSET {[ask |-> a, note |-> "ended"]}
                    BY DEF EndsOf, TypeOK
                <5>2. EndsOf(a) = {e}
                    BY <4>1, <5>1
                <5> QED BY <5>2, FS_Singleton
            <4>4. Cardinality(EndsOf(a))' = 0
                BY <4>2, <4>3, FS_EmptySet
            <4>5. Cardinality(Says(outbox, a))' <= Cardinality(Says(outbox, a)) + 1
                <5>1. Counts(n, a) = 1
                    BY <2>2 DEF Counts, Note
                <5> QED BY <3>1, <5>1, PushSays DEF Says
            <4>6. Cardinality(Says(pump.notes, a))' = Cardinality(Says(pump.notes, a))
                BY <1>2 DEF Says
            <4> QED BY <1>1, <1>2, <4>3, <4>4, <4>5, <4>6, CountsAre, CountsAreNext DEF CountTypes, Told
        <3> QED BY <3>2, <3>3
    <2> QED BY <1>1, <2>1, <2>2
<1> QED BY <1>2, <1>3, TellingStep, {} \in SUBSET Asks

LEMMA DecideTells ==
    ASSUME TypeOK, TypeOK', Once, NEW d \in Deciders, Decide(d)
    PROVE  Once'
<1>1. UNCHANGED <<gate, pump, chain>>
    BY DEF Decide, Claim, AnswerRaw, Resolve, Unclaim, hooks
<1>2. ASSUME NEW a, Delivers(d, a)
      PROVE  Once'
    <2> DEFINE n == Note(a, "decided")
    <2>1. /\ a \in held /\ a \in Asks /\ held' = held \ {a}
          /\ ends' = ends \cup {[ask |-> a, note |-> None]} /\ Push(n)
        BY <1>2 DEF Delivers, Takes, Concludes, TypeOK
    <2>2. n \in Notes /\ n.ask = a
        BY <2>1, NoteType DEF Kinds, Note
    <2>3. \A b \in Asks : EndsOf(b)' = EndsOf(b)
        BY <2>1, OtherDue
    <2>4. \A b \in Asks : Told(b)' <= Told(b) + Counts(n, b)
        BY <1>1, <2>1, <2>2, <2>3, PushTells
    <2>5. Told(a) = 0 /\ gate[a] \notin Fresh
        BY <2>1 DEF Once
    <2>6. /\ \A b \in Asks : Told(b) \in Nat /\ Told(b)' \in Nat /\ Counts(n, b) \in {0, 1}
          /\ \A b \in Asks \ {a} : Counts(n, b) = 0
        BY <2>2, CountsAre, CountsAreNext DEF CountTypes, Counts
    <2>7. Told(a)' <= 1 /\ \A b \in Asks \ {a} : Told(b)' <= Told(b)
        BY <2>1, <2>4, <2>5, <2>6
    <2> QED BY <1>1, <2>1, <2>5, <2>7, TellingStep, {a} \in SUBSET Asks
<1>3. ASSUME NEW a, Misses(a)
      PROVE  Once'
    <2>1. held' = held \ {a} /\ outbox' = outbox
        BY <1>3 DEF Misses, Takes
    <2>2. CASE ends' = ends
        <3>1. \A b \in Asks : Told(b)' <= Told(b)
            BY <1>1, <2>1, <2>2, QuietTells, CountsAre DEF CountTypes, Quiet
        <3> QED BY <1>1, <2>1, <3>1, TellingStep, {} \in SUBSET Asks
    <2>3. CASE a \in held /\ ends' = ends \cup {[ask |-> a, note |-> "ended"]}
        <3>1. a \in Asks /\ Told(a) = 0 /\ gate[a] \notin Fresh
            BY <2>3 DEF Once, TypeOK
        <3>2. Told(a)' <= 1
            BY <1>1, <2>1, <3>1, DueTells
        <3>3. \A b \in Asks \ {a} : Told(b)' <= Told(b)
            BY <1>1, <2>1, <2>3, DueKeepsOthers, CountsAre DEF CountTypes
        <3> QED BY <1>1, <2>1, <3>1, <3>2, <3>3, TellingStep, {a} \in SUBSET Asks
    <2> QED BY <1>3, <2>2, <2>3 DEF Misses, Concludes
<1>4. ASSUME UNCHANGED <<held, ends, outbox>>
      PROVE  Once'
    <2>1. \A b \in Asks : Told(b)' <= Told(b)
        BY <1>1, <1>4, QuietTells, CountsAre DEF CountTypes, Quiet
    <2> QED BY <1>1, <1>4, <2>1, TellingStep, {} \in SUBSET Asks
<1> QED BY <1>2, <1>3, <1>4 DEF Decide, Claim, AnswerRaw, Resolve, Unclaim, hooks

LEMMA SweepTells ==
    ASSUME TypeOK, TypeOK', Once, Sweeps
    PROVE  Once'
<1>1. \A b \in Asks : gate'[b] \in Fresh => gate[b] \in Fresh
    <2>1. CASE Stop
        <3>1. \A b \in Asks : gate'[b] = IF gate[b] \in Waiting THEN "lost" ELSE gate[b]
            BY <2>1 DEF Stop
        <3> QED BY <3>1 DEF Fresh
    <2>2. CASE gate' = gate
        BY <2>2
    <2> QED BY <2>1, <2>2 DEF Sweeps, SweepReads, SweepMarks, hooks
<1>2. held' \subseteq held
    BY DEF Sweeps, Stop, SweepReads, SweepMarks, hooks
<1>3. \A b \in Asks : Told(b)' <= Told(b)
    <2>1. CASE Stop
        <3>1. ends' = {} /\ outbox' = <<>> /\ UNCHANGED <<pump, chain>>
            BY <2>1 DEF Stop
        <3>2. ASSUME NEW b \in Asks
              PROVE  Told(b)' <= Told(b)
            <4>1. EndsOf(b)' = {}
                BY <3>1 DEF EndsOf
            <4>2. Cardinality(EndsOf(b))' = 0
                BY <4>1, FS_EmptySet
            <4>3. Cardinality(Says(outbox, b))' = 0
                BY <3>1, SaysNothing DEF Says
            <4>4. Cardinality(Says(pump.notes, b))' = Cardinality(Says(pump.notes, b))
                BY <3>1 DEF Says
            <4> QED BY <3>1, <4>2, <4>3, <4>4, CountsAre DEF CountTypes, Told
        <3> QED BY <3>2
    <2>2. CASE SweepReads
        BY <2>2, QuietTells, CountsAre DEF SweepReads, Quiet, CountTypes
    <2>3. ASSUME NEW a \in Asks, SweepMarks(a)
          PROVE  \A b \in Asks : Told(b)' <= Told(b)
        <3> DEFINE n == Note(a, "restart")
        <3>1. UNCHANGED <<ends, pump, chain>> /\ (Push(n) \/ outbox' = outbox)
            BY <2>3 DEF SweepMarks
        <3>2. CASE outbox' = outbox
            BY <3>1, <3>2, QuietTells, CountsAre DEF Quiet, CountTypes
        <3>3. CASE Push(n)
            <4>1. n \in Notes /\ \A b : Counts(n, b) = 0
                BY NoteType DEF Kinds, Note, Counts
            <4>2. \A b \in Asks : EndsOf(b)' = EndsOf(b)
                BY <3>1 DEF EndsOf
            <4>3. \A b \in Asks : Told(b)' <= Told(b) + Counts(n, b)
                BY <3>1, <3>3, <4>1, <4>2, PushTells
            <4> QED BY <4>1, <4>3, CountsAre, CountsAreNext DEF CountTypes
        <3> QED BY <3>1, <3>2, <3>3
    <2> QED BY <2>1, <2>2, <2>3 DEF Sweeps
<1> QED BY <1>1, <1>2, <1>3, TellingStep, {} \in SUBSET Asks

LEMMA PumpTells ==
    ASSUME TypeOK, TypeOK', Once, Pumps
    PROVE  Once'
<1>1. UNCHANGED <<gate, held, ends>>
    BY DEF Pumps, Take, LoseBatch, AppendNote, AppendFails, Acknowledge, hooks, tasks
<1>2. pump \in Batch /\ pump.notes \in Seq(Notes)
    BY DEF TypeOK, Batch
<1>3. \A b \in Asks : EndsOf(b)' = EndsOf(b)
    BY <1>1 DEF EndsOf
<1>4. ASSUME UNCHANGED <<outbox, chain>>, NEW b \in Asks,
             Cardinality(Says(pump.notes, b))' <= Cardinality(Says(pump.notes, b))
      PROVE  Told(b)' <= Told(b)
    <2>1. Cardinality(Says(outbox, b))' = Cardinality(Says(outbox, b))
        BY <1>4 DEF Says
    <2> QED BY <1>3, <1>4, <2>1, CountsAre, CountsAreNext DEF CountTypes, Told
<1>5. \A b \in Asks : Told(b)' <= Told(b)
    <2>1. CASE Take
        <3>1. pump.notes = <<>> /\ pump'.notes = outbox /\ outbox' = <<>> /\ chain' = chain
            BY <2>1 DEF Take, Idle
        <3>2. \A b \in Asks : /\ Cardinality(Says(pump.notes, b)) = 0
                              /\ Cardinality(Says(outbox, b))' = 0
                              /\ Cardinality(Says(pump.notes, b))' = Cardinality(Says(outbox, b))
            BY <3>1, SaysNothing DEF Says
        <3> QED BY <1>3, <3>1, <3>2, CountsAre DEF CountTypes, Told
    <2>2. CASE LoseBatch
        <3>1. pump'.notes = <<>> /\ UNCHANGED <<outbox, chain>>
            BY <1>2, <2>2 DEF LoseBatch, Batch
        <3>2. \A b \in Asks : Cardinality(Says(pump.notes, b))' = 0
            BY <3>1, SaysNothing DEF Says
        <3> QED BY <1>4, <3>1, <3>2, CountsAre DEF CountTypes
    <2>3. CASE AppendFails
        <3>1. pump'.notes = Tail(pump.notes) /\ pump.notes # <<>> /\ UNCHANGED <<outbox, chain>>
            BY <1>2, <2>3 DEF AppendFails, Batch
        <3>2. ASSUME NEW b \in Asks
              PROVE  Cardinality(Says(pump.notes, b))' + Counts(Head(pump.notes), b)
                        <= Cardinality(Says(pump.notes, b))
            <4>1. Cardinality(Says(Tail(pump.notes), b)) + Counts(Head(pump.notes), b)
                     <= Cardinality(Says(pump.notes, b))
                BY <1>2, <3>1, SaysTail
            <4>2. Says(pump.notes, b)' = Says(Tail(pump.notes), b)
                BY <3>1 DEF Says
            <4> QED BY <4>1, <4>2
        <3>3. \A b \in Asks : Cardinality(Says(pump.notes, b))' <= Cardinality(Says(pump.notes, b))
            BY <3>2, CountsAre, CountsAreNext DEF CountTypes, Counts
        <3> QED BY <1>4, <3>1, <3>3
    <2>4. CASE Acknowledge
        <3>1. pump'.notes = pump.notes /\ UNCHANGED <<outbox, chain>>
            BY <1>2, <2>4 DEF Acknowledge, Batch
        <3>2. \A b \in Asks : Cardinality(Says(pump.notes, b))' = Cardinality(Says(pump.notes, b))
            BY <3>1 DEF Says
        <3> QED BY <1>4, <3>1, <3>2, CountsAre DEF CountTypes
    <2>5. CASE AppendNote
        <3> DEFINE n == Head(pump.notes)
        <3>1. pump'.notes = Tail(pump.notes) /\ pump.notes # <<>> /\ UNCHANGED outbox
            BY <1>2, <2>5 DEF AppendNote, Batch
        <3>2. ASSUME NEW b \in Asks
              PROVE  Cardinality(Says(pump.notes, b))' + Counts(n, b)
                        <= Cardinality(Says(pump.notes, b))
            <4>1. Cardinality(Says(Tail(pump.notes), b)) + Counts(Head(pump.notes), b)
                     <= Cardinality(Says(pump.notes, b))
                BY <1>2, <3>1, SaysTail
            <4>2. Says(pump.notes, b)' = Says(Tail(pump.notes), b)
                BY <3>1 DEF Says
            <4> QED BY <4>1, <4>2
        <3>3. n.ask \in Asks /\ n.kind \in Kinds
            <4>1. n \in Notes
                BY <1>2, <3>1
            <4> QED BY <4>1 DEF Notes
        <3>4. \A b \in Asks : chain'[b]["decided"] + chain'[b]["ended"]
                                 = chain[b]["decided"] + chain[b]["ended"] + Counts(n, b)
            <4>1. chain' = [chain EXCEPT ![n.ask][n.kind] = @ + 1]
                BY <2>5 DEF AppendNote
            <4> HIDE DEF n
            <4>2. \A b \in Asks : b # n.ask => chain'[b] = chain[b]
                BY <3>3, <4>1 DEF TypeOK
            <4>3. \A k \in Kinds : chain'[n.ask][k] = IF k = n.kind THEN chain[n.ask][k] + 1
                                                     ELSE chain[n.ask][k]
                BY <3>3, <4>1 DEF TypeOK
            <4>4. \A b \in Asks, k \in Kinds : chain[b][k] \in Nat
                BY DEF TypeOK
            <4> QED BY <3>3, <4>2, <4>3, <4>4 DEF Kinds, Counts
        <3>5. \A b \in Asks : Cardinality(Says(outbox, b))' = Cardinality(Says(outbox, b))
            BY <3>1 DEF Says
        <3> QED BY <1>3, <3>2, <3>4, <3>5, CountsAre, CountsAreNext DEF CountTypes, Told, Counts
    <2> QED BY <2>1, <2>2, <2>3, <2>4, <2>5 DEF Pumps
<1> QED BY <1>1, <1>5, TellingStep, {} \in SUBSET Asks

LEMMA OnceStep ==
    ASSUME TypeOK, TypeOK', Once, [Next]_vars
    PROVE  Once'
<1>1. ASSUME Quiet, UNCHANGED <<gate, held>>
      PROVE  Once'
    <2>1. \A b \in Asks : Told(b)' <= Told(b)
        BY <1>1, QuietTells, CountsAre DEF CountTypes
    <2> QED BY <1>1, <2>1, TellingStep, {} \in SUBSET Asks
<1>2. ASSUME NEW a \in Asks, WriteRow(a)
      PROVE  Once'
    BY <1>1, <1>2 DEF WriteRow, hooks, Quiet
<1>3. CASE Revoke
    <2>1. /\ held' = {} /\ ends' = ends \cup [ask : held, note : {"ended"}]
          /\ UNCHANGED <<gate, outbox, pump, chain>> /\ held \in SUBSET Asks
        BY <1>3 DEF Revoke, TypeOK
    <2>2. \A b \in held : Told(b)' <= 1 /\ gate[b] \notin Fresh
        BY <2>1, DueTells DEF Once
    <2>3. ASSUME NEW b \in Asks \ held
          PROVE  Told(b)' <= Told(b)
        <3>1. EndsOf(b)' = EndsOf(b)
            BY <2>1, <2>3 DEF EndsOf
        <3> QED BY <2>1, <3>1, CountsAre DEF CountTypes, Told, Says
    <2> QED BY <2>1, <2>2, <2>3, TellingStep
<1>4. CASE UNCHANGED vars
    BY <1>1, <1>4 DEF vars, hooks, tasks, Quiet
<1> QED BY <1>2, <1>3, <1>4, Groups, HookTells, EndTells, DecideTells, SweepTells, PumpTells

(* An outcome is audited once at most: of the decision, the hold, the PTY's *)
(* exit and the dropped connection, the one that took the ask tells of it,  *)
(* and no batch, restart or full outbox makes it two.                      *)
THEOREM OutcomesAreAuditedOnce == Spec => []AuditedOnce
<1>1. Init => Once
    <2> SUFFICES ASSUME Init PROVE Once
        OBVIOUS
    <2>1. ends = {} /\ outbox = <<>> /\ pump.notes = <<>> /\ held = {}
        BY DEF Init
    <2>2. \A a \in Asks : EndsOf(a) = {} /\ chain[a]["decided"] = 0 /\ chain[a]["ended"] = 0
        BY DEF Init, EndsOf, Kinds
    <2>3. \A a \in Asks : Told(a) = 0
        <3>1. \A a : Cardinality(Says(outbox, a)) = 0 /\ Cardinality(Says(pump.notes, a)) = 0
            BY <2>1, SaysNothing
        <3>2. \A a \in Asks : Cardinality(EndsOf(a)) = 0
            BY <2>2, FS_EmptySet
        <3> QED BY <2>2, <3>1, <3>2 DEF Told
    <2> QED BY <2>1, <2>3 DEF Once
<1>2. TypeOK /\ TypeOK' /\ Once /\ [Next]_vars => Once'
    BY OnceStep
<1>3. Once => AuditedOnce
    BY DEF Once, AuditedOnce, Told, EndsOf
<1> QED BY <1>1, <1>2, <1>3, AskTypeCorrect, PTL DEF Spec
=============================================================================
