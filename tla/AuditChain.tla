----------------------------- MODULE AuditChain -----------------------------
(***************************************************************************)
(* The audit hash chain: rows appended inside the callers' transactions    *)
(* by a server that remembers the head it last committed, and by the root  *)
(* CLI; the reseal-aware walk; breaks found, recorded and resealed; rows   *)
(* lost or altered behind the server's back; crashes and restarts.         *)
(*                                                                         *)
(* A hash is the number of its row, never given twice: a row links to the  *)
(* row before it because nothing but the chain computes hashes.  A row is  *)
(* intact when the hash of its contents (body) is the one it stores.       *)
(***************************************************************************)
EXTENDS Naturals, FiniteSets, Sequences

CONSTANTS
    None,         \* no head, no break, no transaction
    MaxEvents,    \* bound on rows appended for events
    MaxLosses,    \* bound on losses and alterations of rows
    MaxCrashes,   \* bound on crashes
    Losses,       \* how rows are lost: "tail", "row", "altered"; or a commit
                  \* the server hears of before it is made, "hook"
    CliRaces      \* may the root CLI record and reseal while the server verifies?

ASSUME BoundsAssumption ==
    /\ MaxEvents \in Nat /\ MaxLosses \in Nat /\ MaxCrashes \in Nat
    /\ Losses \subseteq {"tail", "row", "altered", "hook"} /\ CliRaces \in BOOLEAN

VARIABLES
    log, stamp,     \* audit_events by seq; the last hash given
    mind,           \* the server's Chain: its known head and State
    tx,             \* the append whose caller has not committed yet
    late,           \* heads committed, their callers yet to say so
    visit,          \* verify_boot or reseal in progress, and flush_lock
    flushing,       \* background flushes spawned
    serving,        \* has the server's boot verified the chain?
    open,           \* breaks the server has seen that stand unacknowledged
    reseals, events, losses, crashes

disk  == <<log, stamp>>
tally == <<reseals, events, losses, crashes>>
vars  == <<disk, mind, tx, late, visit, flushing, serving, open, tally>>

Heads    == [seq : Nat, hash : Nat]
Breaks   == [at : Nat, class : {"gap", "row", "head_missing", "head_changed", "recorded"},
             proof : Nat \X Nat]
Plain    == [kind : {"event"}, brk : {None}, by : {0}]
            \cup [kind : {"chain_broken"}, brk : Breaks, by : {0}]
Entries  == Plain \cup [kind : {"resealed"}, brk : Breaks, by : Nat]
Rows     == [kind : {"created", "event", "chain_broken", "resealed"}, hash : Nat, body : Nat,
             brk : Breaks \cup {None}, by : Nat]
Txs      == [entries : Seq(Plain), change : BOOLEAN, told : BOOLEAN]
Minds    == [known : Heads \cup {None}, degraded : Breaks \cup {None},
             unrecorded : SUBSET Breaks, checked : Nat]
Visits   == [at : {"none", "flush", "check", "again", "walk", "adopt", "record", "reseal"},
             why : {"verify", "reseal"}, seen : SUBSET Breaks, noted : BOOLEAN,
             head : Heads \cup {None}]

ASSUME NoneAssumption == None \notin Heads \cup Breaks \cup Txs

-----------------------------------------------------------------------------
(* The chain.                                                              *)

Top(L) == CHOOSE n \in DOMAIN L : \A m \in DOMAIN L : m <= n

HeadOf(L) == [seq |-> Top(L), hash |-> L[Top(L)].hash]

Entry(kind, brk, by) == [kind |-> kind, brk |-> brk, by |-> by]

(* insert_row, once for each of entries: rows 1.. after the head.          *)
Extended(L, s, entries) ==
    [n \in DOMAIN L \cup {Top(L) + i : i \in DOMAIN entries} |->
        IF n \in DOMAIN L THEN L[n]
        ELSE LET e == entries[n - Top(L)]
             IN  [kind |-> e.kind, brk |-> e.brk, by |-> e.by,
                  hash |-> s + n - Top(L), body |-> s + n - Top(L)]]

(* A break is evidenced by what the rows hold, not by its seq alone.       *)
Broken(at, class, x, y) == [at |-> at, class |-> class, proof |-> <<x, y>>]

HeadClass(b) == b.class \in {"head_missing", "head_changed"}

(* inspect_row, gap_break; a walk re-anchors on what the next row says came before.   *)
Intact(L, n) == L[n].body = L[n].hash

Before(L, n) == CHOOSE m \in DOMAIN L :
                    m < n /\ \A k \in DOMAIN L : k < n => k <= m

Found(L) ==
    {Broken(Before(L, n) + 1, "gap", L[n].hash, L[n].body) :
        n \in {n \in DOMAIN L : n > 1 /\ n - 1 \notin DOMAIN L}}
    \cup {Broken(n, "row", L[n].hash, L[n].body) : n \in {n \in DOMAIN L : ~Intact(L, n)}}

(* A chain_broken row attests to a break at or before it; a head break's   *)
(* row may land before the seq it names.                                   *)
Recordings(L) ==
    {n \in DOMAIN L : /\ L[n].kind = "chain_broken" /\ Intact(L, n)
                      /\ (L[n].brk.at <= n \/ HeadClass(L[n].brk))}

Recorded(L, n) == Broken(L[n].brk.at, "recorded", L[n].hash, n)

(* Recorded breaks the walk cannot see: each is a break of its own, and    *)
(* its first recording stands for it.                                      *)
Unseen(L) ==
    {Recorded(L, n) : n \in {n \in Recordings(L) :
        /\ (HeadClass(L[n].brk) \/ \A b \in Found(L) : b.at # L[n].brk.at)
        /\ \A m \in Recordings(L) : m < n => L[m].brk # L[n].brk}}

(* A reseal acknowledges exactly its break, and only while the recording   *)
(* it names stands before it.                                              *)
Acked(L) ==
    {L[n].brk : n \in {n \in DOMAIN L :
        /\ L[n].kind = "resealed" /\ Intact(L, n)
        /\ \E m \in Recordings(L) :
              /\ m < n /\ L[m].hash = L[n].by
              /\ \/ L[n].brk.at < n
                 \/ L[n].brk.class = "recorded" /\ HeadClass(L[m].brk)}}

Unacked(L) == (Found(L) \cup Unseen(L)) \ Acked(L)

(* By seq, what the walk found before what was recorded.                   *)
Rank(b) == IF b.class = "recorded" THEN b.proof[2] ELSE 0

Outstanding(L) ==
    {b \in Unacked(L) : \A c \in Unacked(L) :
        b.at < c.at \/ (b.at = c.at /\ Rank(b) <= Rank(c))}

RecordedBy(L, b) ==
    {n \in Recordings(L) : IF b.class = "recorded" THEN b = Recorded(L, n) ELSE L[n].brk = b}

(* is_recorded: the recording must link to a row that is still there.      *)
IsRecorded(L, b) ==
    \E n \in DOMAIN L : /\ L[n].kind = "chain_broken" /\ L[n].brk = b /\ Intact(L, n)
                       /\ n - 1 \in DOMAIN L

-----------------------------------------------------------------------------
(* The server's view of it.                                                *)

Mind(known, degraded, unrecorded, checked) ==
    [known |-> known, degraded |-> degraded, unrecorded |-> unrecorded, checked |-> checked]

NewMind == Mind(None, None, {}, 0)

First(B) == {b \in B : \A c \in B : b.at <= c.at}

(* known_head_break: no break, or one.                                     *)
HeadBreaks(k, L, forward) ==
    IF k = None \/ k = HeadOf(L) THEN {}
    ELSE IF k.seq \notin DOMAIN L
    THEN {Broken(IF Top(L) + 1 <= k.seq THEN Top(L) + 1 ELSE k.seq, "head_missing", k.hash, 0)}
    ELSE IF L[k.seq].hash # k.hash
    THEN {Broken(k.seq, "head_changed", k.hash, L[k.seq].hash)}
    ELSE IF forward THEN First({b \in Found(L) : b.at > k.seq}) ELSE {}

(* note_break: the first break stays the reported one; a head break moves  *)
(* the known head to the one there is.                                     *)
Noted(m, B, L) ==
    IF B = {} THEN m
    ELSE LET b == CHOOSE b \in B : TRUE
         IN  Mind(IF HeadClass(b) THEN HeadOf(L) ELSE m.known,
                  IF m.degraded = None THEN b ELSE m.degraded,
                  m.unrecorded \cup {c \in {b} : ~IsRecorded(L, c)},
                  m.checked)

(* Mutant: adopt reports what the walk saw, and nothing else.              *)
AdoptedBlindly(m, seen, noted, head) ==
    LET unrecorded == m.unrecorded \cup {b \in seen : ~noted}
    IN  {Mind(IF d = None THEN head ELSE m.known, d, unrecorded, m.checked) :
            d \in IF seen # {} THEN seen ELSE {None}}

(* adopt: a verdict never drops a break still unrecorded.  Which of those  *)
(* came first is left open.                                                *)
Adopted(m, seen, noted, head) ==
    LET unrecorded == m.unrecorded \cup {b \in seen : ~noted}
        reported   == IF seen # {} THEN seen
                      ELSE IF unrecorded # {} THEN unrecorded ELSE {None}
    IN  {Mind(IF d = None THEN head ELSE m.known, d, unrecorded, m.checked) : d \in reported}

IsNoted(L) == \A b \in Outstanding(L) : RecordedBy(L, b) # {}

(* recheck_after_reseal: once for each new audit.resealed row after the    *)
(* reported break.                                                         *)
Reseals(m, L) == {n \in DOMAIN L : n > m.degraded.at /\ L[n].kind = "resealed"}

Rechecked(m, L) ==
    IF m.degraded = None THEN {m}
    ELSE IF ~\E n \in Reseals(m, L) : n > m.checked THEN {m}
    ELSE LET h == Noted(m, HeadBreaks(m.known, L, FALSE), L)
             n == CHOOSE n \in Reseals(m, L) : \A k \in Reseals(m, L) : k <= n
         IN  Adopted(Mind(h.known, h.degraded, h.unrecorded, n),
                     Outstanding(L), IsNoted(L), HeadOf(L))

(* committed: never backwards.                                             *)
Remembering(m, h) ==
    IF m.known = None \/ h.seq > m.known.seq
    THEN Mind(h, m.degraded, m.unrecorded, m.checked) ELSE m

(* The breaks of m that log L does not hold yet, in some order.            *)
ToRecord(m, L) == {b \in m.unrecorded : ~IsRecorded(L, b)}

Orders(S) == {f \in [1..Cardinality(S) -> S] : \A i, j \in DOMAIN f : f[i] = f[j] => i = j}

Recording(order) == [i \in DOMAIN order |-> Entry("chain_broken", order[i], 0)]

(* A break stands until a reseal acknowledges it: what the walk finds at   *)
(* its seq now, or else its recording, the one there is or the one to come.*)
SeenAt(b, L) == {c \in Found(L) : c.at = b.at /\ ~HeadClass(b)}

Attested(b, m, L) ==
    \/ \E n \in Recordings(L) : L[n].brk = b /\ Recorded(L, n) \in Unacked(L)
    \/ b \in ToRecord(m, L) /\ (HeadClass(b) \/ b.at <= Top(L) + 1)

Stands(b, m, L) ==
    \/ b \in Unacked(L)
    \/ ~SeenAt(b, L) \subseteq Acked(L)
    \/ SeenAt(b, L) = {} /\ Attested(b, m, L)

(* The breaks seen so far, less those that no longer stand.                *)
Standing(m, L) ==
    {b \in open \cup m.unrecorded \cup ({m.degraded} \ {None}) : Stands(b, m, L)}

Sees == open' = Standing(mind', log')

-----------------------------------------------------------------------------
NoVisit == [at |-> "none", why |-> "verify", seen |-> {}, noted |-> FALSE, head |-> None]

At(stage) == [at |-> stage, why |-> visit.why, seen |-> {}, noted |-> FALSE, head |-> None]

Starting(why) == [at |-> "flush", why |-> why, seen |-> {}, noted |-> FALSE, head |-> None]

Init ==
    /\ log = [n \in {1} |-> [kind |-> "created", hash |-> 1, body |-> 1, brk |-> None, by |-> 0]]
    /\ stamp = 1
    /\ mind = NewMind
    /\ tx = None /\ late = {} /\ visit = NoVisit
    /\ flushing = FALSE /\ serving = FALSE
    /\ open = {}
    /\ reseals = 0 /\ events = 0 /\ losses = 0 /\ crashes = 0

Writes(entries) == log' = Extended(log, stamp, entries) /\ stamp' = stamp + Len(entries)

-----------------------------------------------------------------------------
(* Appends, inside the caller's transaction.                               *)

(* Mutant: the refusal is all.                                             *)
RefusedQuietly(m) ==
    /\ mind' = m
    /\ UNCHANGED <<tx, flushing>>

(* The caller rolls back, and the break is recorded on its own.            *)
Refused(m) ==
    /\ mind' = m
    /\ flushing' = (flushing \/ m.unrecorded # {})
    /\ UNCHANGED tx

(* Mutant: what a transaction writes is taken as recorded.                 *)
InsertedForgets(m, change) ==
    \E order \in Orders(IF m.degraded = None THEN {} ELSE ToRecord(m, log)) :
        /\ mind' = Mind(m.known, m.degraded, {}, m.checked)
        /\ tx' = [entries |-> Append(Recording(order), Entry("event", None, 0)),
                  change |-> change, told |-> FALSE]
        /\ UNCHANGED flushing

(* The rows of the breaks not recorded yet, then the event.  They stay     *)
(* unrecorded: the caller may still roll back.                             *)
Inserted(m, change) ==
    \E order \in Orders(IF m.degraded = None THEN {} ELSE ToRecord(m, log)) :
        LET entries == Append(Recording(order), Entry("event", None, 0)) IN
        /\ mind' = m
        /\ flushing' = (flushing \/ order # <<>>)
        /\ tx' = [entries |-> entries, change |-> change, told |-> FALSE]

AppendEvent(change) ==
    /\ serving /\ tx = None
    /\ \E m0 \in Rechecked(mind, log) :
         LET m == Noted(m0, HeadBreaks(m0.known, log, TRUE), log) IN
         IF m.degraded # None /\ change THEN Refused(m) ELSE Inserted(m, change)
    /\ UNCHANGED <<disk, late, visit, serving, reseals, events, losses, crashes>>
    /\ Sees

(* An authentication row: SQLite's commit hook tells of the new head, and  *)
(* the commit is made after that, or fails.                                *)
CommitHook ==
    /\ tx # None /\ ~tx.change /\ ~tx.told
    /\ "hook" \in Losses /\ losses < MaxLosses /\ losses' = losses + 1
    /\ mind' = Remembering(mind, HeadOf(Extended(log, stamp, tx.entries)))
    /\ tx' = [tx EXCEPT !.told = TRUE]
    /\ UNCHANGED <<disk, late, visit, flushing, serving, reseals, events, crashes>>
    /\ Sees

Commit ==
    /\ tx # None /\ events < MaxEvents
    /\ Writes(tx.entries)
    /\ late' = IF tx.told THEN late ELSE late \cup {HeadOf(log')}
    /\ tx' = None
    /\ events' = events + 1
    /\ UNCHANGED <<mind, visit, flushing, serving, reseals, losses, crashes>>
    /\ Sees

(* The hash the server was told of is nobody else's.                       *)
Rollback ==
    /\ tx # None
    /\ tx' = None
    /\ stamp' = IF tx.told THEN stamp + Len(tx.entries) ELSE stamp
    /\ UNCHANGED <<log, mind, late, visit, flushing, serving, open, tally>>

Committed(h) ==
    /\ h \in late
    /\ late' = late \ {h}
    /\ mind' = Remembering(mind, h)
    /\ UNCHANGED <<disk, tx, visit, flushing, serving, tally>>
    /\ Sees

-----------------------------------------------------------------------------
(* Mutant: nobody looks whether the chain holds them.                      *)
FlushAll ==
    IF mind.unrecorded = {} THEN UNCHANGED <<disk, mind>>
    ELSE /\ tx = None
         /\ \E order \in Orders(mind.unrecorded) : Writes(Recording(order))
         /\ mind' = Mind(Remembering(mind, HeadOf(log')).known, mind.degraded, {}, mind.checked)

(* flush_locked, in a transaction of its own.                              *)
FlushLocked ==
    IF mind.unrecorded = {} THEN UNCHANGED <<disk, mind>>
    ELSE /\ tx = None
         /\ \E order \in Orders(ToRecord(mind, log)) :
              /\ Writes(Recording(order))
              /\ LET m == IF order = <<>> THEN mind ELSE Remembering(mind, HeadOf(log'))
                 IN  mind' = Mind(m.known, m.degraded, {}, m.checked)

(* spawn_flush, once it has flush_lock.  It is tried once: what it fails   *)
(* to record waits for the next append, walk or reseal.                    *)
Flush ==
    /\ flushing /\ visit.at \in {"none", "reseal"}
    /\ FlushLocked \/ UNCHANGED <<disk, mind>>
    /\ flushing' = FALSE
    /\ UNCHANGED <<tx, late, visit, serving, tally>>
    /\ Sees

FlushRecords == Flush /\ FlushLocked

-----------------------------------------------------------------------------
(* verify_boot: each statement reads the log for itself.                   *)

Boot ==
    /\ ~serving /\ visit.at = "none"
    /\ visit' = Starting("verify")
    /\ UNCHANGED <<disk, mind, tx, late, flushing, serving, open, tally>>

(* access_audit_verify, an export, or a reseal by the operator's bearer,   *)
(* which alone goes on after the verification.                             *)
Visit ==
    /\ serving /\ visit.at = "none"
    /\ visit' = Starting("reseal")
    /\ UNCHANGED <<disk, mind, tx, late, flushing, serving, open, tally>>

VisitFlushes ==
    /\ visit.at \in {"flush", "again"}
    /\ FlushLocked
    /\ visit' = At(IF visit.at = "flush" THEN "check" ELSE "walk")
    /\ UNCHANGED <<tx, late, flushing, serving, tally>>
    /\ Sees

VisitChecks ==
    LET B == HeadBreaks(mind.known, log, FALSE) IN
    /\ visit.at = "check"
    /\ mind' = Noted(mind, B, log)
    /\ visit' = At(IF B = {} THEN "walk" ELSE "again")
    /\ UNCHANGED <<disk, tx, late, flushing, serving, tally>>
    /\ Sees

VisitWalks ==
    /\ visit.at = "walk"
    /\ visit' = [at |-> "adopt", why |-> visit.why, seen |-> Outstanding(log),
                 noted |-> IsNoted(log), head |-> HeadOf(log)]
    /\ UNCHANGED <<disk, mind, tx, late, flushing, serving, open, tally>>

VisitAdopts ==
    /\ visit.at = "adopt"
    /\ mind' \in Adopted(mind, visit.seen, visit.noted, visit.head)
    /\ visit' = At("record")
    /\ UNCHANGED <<disk, tx, late, flushing, serving, tally>>
    /\ Sees

VisitEnds ==
    /\ visit.at = "record"
    /\ FlushLocked
    /\ \/ visit' = NoVisit
       \/ visit.why = "reseal" /\ visit' = At("reseal")
    /\ serving' = TRUE
    /\ UNCHANGED <<tx, late, flushing, tally>>
    /\ Sees

(* One of its statements failed, or its caller is gone.                    *)
VisitFails ==
    /\ serving /\ visit.at # "none"
    /\ visit' = NoVisit
    /\ UNCHANGED <<disk, mind, tx, late, flushing, serving, open, tally>>

-----------------------------------------------------------------------------
(* reseal.                                                                 *)

(* Mutant: the reseal is written before the recording it names.            *)
AcknowledgesFirst(b) ==
    LET by == RecordedBy(log, b) IN
    Writes(IF by # {}
           THEN <<Entry("resealed", b, log[CHOOSE n \in by : \A k \in by : n <= k].hash)>>
           ELSE <<Entry("resealed", b, stamp + 2), Entry("chain_broken", b, 0)>>)

(* The audit.resealed row names the break's recording, written here if     *)
(* another writer's walk raced it.                                         *)
Acknowledges(b) ==
    LET by == RecordedBy(log, b) IN
    Writes(IF by # {}
           THEN <<Entry("resealed", b, log[CHOOSE n \in by : \A k \in by : n <= k].hash)>>
           ELSE <<Entry("chain_broken", b, 0), Entry("resealed", b, stamp + 1)>>)

(* By the operator's bearer, in the server: a conflict unless the break    *)
(* outstanding is the one acknowledged; then verify_boot again.            *)
Reseal ==
    /\ visit.at = "reseal" /\ tx = None
    /\ \/ /\ \E b \in Outstanding(log) : Acknowledges(b)
          /\ mind' = Remembering(mind, HeadOf(log'))
          /\ reseals' = reseals + 1
          /\ visit' = Starting("verify")
       \/ /\ UNCHANGED <<disk, mind, reseals>>
          /\ visit' = NoVisit
    /\ UNCHANGED <<tx, late, flushing, serving, events, losses, crashes>>
    /\ Sees

(* The root CLI, a process with a fresh view of the chain: its verify_boot *)
(* records the outstanding break, ...                                      *)
CliTurn == tx = None /\ (CliRaces \/ visit.at = "none")

CliRecords ==
    /\ CliTurn
    /\ \E b \in Outstanding(log) :
         /\ RecordedBy(log, b) = {} /\ ~IsRecorded(log, b)
         /\ Writes(<<Entry("chain_broken", b, 0)>>)
    /\ UNCHANGED <<mind, tx, late, visit, flushing, serving, tally>>
    /\ Sees

(* ... `audit reseal` acknowledges it, ...                                 *)
CliReseals ==
    /\ CliTurn
    /\ \E b \in Outstanding(log) : Acknowledges(b)
    /\ reseals' = reseals + 1
    /\ UNCHANGED <<mind, tx, late, visit, flushing, serving, events, losses, crashes>>
    /\ Sees

(* ... and its account commands append to whatever head there is.          *)
CliAppends ==
    /\ tx = None /\ events < MaxEvents
    /\ Writes(<<Entry("event", None, 0)>>)
    /\ events' = events + 1
    /\ UNCHANGED <<mind, tx, late, visit, flushing, serving, reseals, losses, crashes>>
    /\ Sees

-----------------------------------------------------------------------------
(* What happens to the server and its file.                                *)

Loses(how, L) ==
    /\ how \in Losses /\ tx = None /\ losses < MaxLosses
    /\ log' = L
    /\ losses' = losses + 1
    /\ UNCHANGED <<stamp, mind, tx, late, visit, flushing, serving, reseals, events, crashes>>
    /\ Sees

(* The newest rows are gone, or one further back; row 1 stays.             *)
LoseTail ==
    \E n \in DOMAIN log \ {1} :
        Loses("tail", [k \in {k \in DOMAIN log : k < n} |-> log[k]])

LoseRow ==
    \E n \in DOMAIN log \ {1, Top(log)} :
        Loses("row", [k \in DOMAIN log \ {n} |-> log[k]])

Forged(r) == [kind |-> r.kind, hash |-> r.hash, body |-> 0, brk |-> r.brk, by |-> r.by]

AlterRow ==
    \E n \in DOMAIN log \ {1} :
        Loses("altered", [k \in DOMAIN log |-> IF k = n THEN Forged(log[k]) ELSE log[k]])

Crash ==
    /\ (serving \/ visit.at # "none") /\ crashes < MaxCrashes
    /\ mind' = NewMind /\ tx' = None /\ late' = {} /\ visit' = NoVisit
    /\ flushing' = FALSE /\ serving' = FALSE
    /\ crashes' = crashes + 1
    /\ UNCHANGED <<disk, reseals, events, losses>>
    /\ Sees

-----------------------------------------------------------------------------
VisitStep == VisitFlushes \/ VisitChecks \/ VisitWalks \/ VisitAdopts \/ VisitEnds \/ Reseal

Next ==
    \/ \E change \in BOOLEAN : AppendEvent(change)
    \/ CommitHook \/ Commit \/ Rollback \/ (\E h \in late : Committed(h))
    \/ Flush \/ Boot \/ Visit \/ VisitStep \/ VisitFails
    \/ CliRecords \/ CliReseals \/ CliAppends
    \/ LoseTail \/ LoseRow \/ AlterRow \/ Crash

Spec == Init /\ [][Next]_vars

(* Transactions end, a writer waits out another one (busy_timeout) and     *)
(* flush_lock is handed out in turn.  Clients keep asking for access       *)
(* changes, and a flush that is tried again and again is made in the end.  *)
(* (What happens while nothing is unrecorded does not matter here.)        *)
Owes == mind.unrecorded # {}

FairSpec ==
    /\ Spec
    /\ WF_vars(Rollback \/ Commit) /\ SF_vars(FlushRecords)
    /\ SF_vars(Owes /\ VisitStep) /\ SF_vars(Owes /\ AppendEvent(TRUE))

(* Besides, the server boots, callers say what they committed, and clients *)
(* and visits go on whether anything is unrecorded or not.                 *)
BusySpec ==
    /\ FairSpec
    /\ WF_vars(Boot) /\ WF_vars(\E h \in late : Committed(h))
    /\ SF_vars(VisitStep) /\ SF_vars(AppendEvent(TRUE))

-----------------------------------------------------------------------------
RowOK(r, s) ==
    /\ r \in Rows /\ r.by < r.hash /\ r.hash <= s
    /\ r.kind \in {"chain_broken", "resealed"} => r.brk \in Breaks

LogOK(L, s) ==
    /\ 1 \in DOMAIN L /\ DOMAIN L \subseteq 1..s
    /\ L = [n \in DOMAIN L |-> L[n]] /\ \A n \in DOMAIN L : RowOK(L[n], s)

TypeOK ==
    /\ stamp \in Nat /\ LogOK(log, stamp)
    /\ mind \in Minds /\ IsFiniteSet(mind.unrecorded)
    /\ tx \in Txs \cup {None} /\ late \subseteq Heads
    /\ visit \in Visits /\ IsFiniteSet(visit.seen)
    /\ flushing \in BOOLEAN /\ serving \in BOOLEAN /\ open \subseteq Breaks
    /\ \A c \in {reseals, events, losses, crashes} : c \in Nat

(* "`unrecorded` non-empty => `degraded` is `Some`" (review M-3): whatever *)
(* walk, append or reseal of another break comes between, the server       *)
(* reports a break as long as one it found is not in the chain.            *)
UnrecordedIsReported == mind.unrecorded # {} => mind.degraded # None

(* A break is recorded once, however many walks, appends, restarts and     *)
(* other writers find it; unless the row its recording links to is gone.   *)
RecordedOnce ==
    \A n, m \in Recordings(log) :
        n < m /\ log[n].brk = log[m].brk => n - 1 \notin DOMAIN log

(* The server refuses access changes while a break it has seen stands, and *)
(* only a reseal, lost rows or a crash before the break was recorded take  *)
(* one away.  It is a promise about one loss of rows: see the README.      *)
Alarm == INSTANCE AuditAlarm WITH
    alarm <- open # {}, admitting <- tx # None /\ tx.change, trouble <- losses + crashes

RefusesWhileBroken == Alarm!Spec

(* A break found is recorded in the end, however often a flush of it fails *)
(* or a caller that would record it rolls back.                            *)
BreaksAreRecorded == []<>(mind.unrecorded = {})

(* "A T1 broker that is degraded notices a root-CLI reseal on its next     *)
(* append and resumes".                                                    *)
Resealed ==
    serving /\ mind.degraded # None /\ mind.unrecorded = {} /\ Unacked(log) = {}

ResealIsNoticed == Resealed ~> ~Resealed
=============================================================================
