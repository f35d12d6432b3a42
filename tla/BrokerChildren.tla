--------------------------- MODULE BrokerChildren ---------------------------
(***************************************************************************)
(* The T1 broker's principal children (topology B): one slot per principal *)
(* with an async mutex (Children), the requests that launch a child, find  *)
(* it refusing and invalidate it, the loop that stops the children of      *)
(* disabled principals, the broker's shutdown and crash, and the child's   *)
(* own data-dir lock (DataDirLock), drain and watch on its parent.         *)
(*                                                                         *)
(* A process is a slot here.  Endpoints carry a fresh random token, so no  *)
(* two processes share one; a slot is used again once nothing refers to it.*)
(***************************************************************************)
EXTENDS Naturals, FiniteSets

CONSTANTS
    Principals,       \* accounts
    Procs,            \* slots for child processes
    ChildOf,          \* the principal a process slot is for
    Requests,         \* slots for concurrent callers of endpoint/running_endpoint
    None,             \* no process / no principal
    NoLock, Loop,     \* the mutex is free / held by the 15 s loop
    HandlersMayDrop,  \* may the HTTP server drop a request's future?
    KillsMayStick,    \* may a SIGKILLed process outlive KILL_WAIT?
    MayCrash,         \* may the broker die without running any code?
    MayShutDown       \* may the broker be told to stop?

ASSUME ChildOfAssumption == ChildOf \in [Procs -> Principals]
ASSUME NamesAssumption ==
    /\ None \notin Procs \cup Principals
    /\ NoLock \notin Requests /\ Loop \notin Requests /\ NoLock # Loop
ASSUME FlagsAssumption ==
    /\ HandlersMayDrop \in BOOLEAN /\ KillsMayStick \in BOOLEAN
    /\ MayCrash \in BOOLEAN /\ MayShutDown \in BOOLEAN

VARIABLES
    disabled,      \* accounts.disabled_at is set
    \* Children
    slot, busy,    \* the Live entry of each slot, who holds its mutex
    \* one request: progress, target, endpoint, its second attempt, RunningOnly
    at, for, via, again, only,
    \* the loop: progress, slots still to look at, running children found,
    \* the principal being stopped and its process
    lat, left, found, stopping, victim,
    \* shutdown: progress, slots stop_all has yet to visit, processes it took
    phase, unseen, taken,
    \* the processes: state, data-dir lock, open ikenga.db, pending signals,
    \* whether the broker that spawned them is gone, and whether it was when
    \* they first asked for their parent
    proc, flock, dbOpen, termed, killed, orphan, blind

account == <<disabled>>
children == <<slot, busy>>
request == <<at, for, via, again, only>>
looping == <<lat, left, found, stopping, victim>>
ending  == <<phase, unseen, taken>>
system  == <<proc, flock, dbOpen, termed, killed, orphan, blind>>
vars    == <<account, children, request, looping, ending, system>>

Holding == {"launching", "aborting", "killing"}
Waiting == {"endpoint", "connect", "invalidate"}

TypeOK ==
    /\ disabled \subseteq Principals
    /\ slot \in [Principals -> Procs \cup {None}]
    /\ busy \in [Principals -> Requests \cup {NoLock, Loop}]
    /\ at \in [Requests -> {"idle"} \cup Waiting \cup Holding]
    /\ for \in [Requests -> Principals]
    /\ via \in [Requests -> Procs \cup {None}]
    /\ again \subseteq Requests
    /\ only \subseteq Requests
    /\ lat \in {"sleep", "scan", "check", "stop", "draining", "killing"}
    /\ left \subseteq Principals
    /\ found \subseteq Principals
    /\ stopping \in Principals \cup {None}
    /\ victim \in Procs \cup {None}
    /\ phase \in {"serving", "taking", "draining"}
    /\ unseen \subseteq Principals
    /\ taken \subseteq Procs
    /\ proc \in [Procs -> {"none", "boot", "up", "drain", "unlocked"}]
    /\ flock \in [Principals -> Procs \cup {None}]
    /\ dbOpen \subseteq Procs
    /\ termed \subseteq Procs
    /\ killed \subseteq Procs
    /\ orphan \subseteq Procs
    /\ blind \subseteq Procs
    /\ \A r \in Requests :
         at[r] \in Holding \cup {"connect", "invalidate"} => via[r] \in Procs
    /\ lat \in {"stop", "draining", "killing"} => stopping \in Principals
    /\ lat \in {"draining", "killing"} => victim \in Procs

Alive(c) == proc[c] # "none"

(* Nothing remembers process slot c: it can stand for a new process.       *)
Unused(c) ==
    /\ proc[c] = "none"
    /\ \A p \in Principals : slot[p] # c
    /\ \A r \in Requests : via[r] # c
    /\ victim # c
    /\ c \notin taken

Init ==
    /\ disabled = {}
    /\ slot = [p \in Principals |-> None]
    /\ busy = [p \in Principals |-> NoLock]
    /\ at = [r \in Requests |-> "idle"]
    /\ for \in [Requests -> Principals]
    /\ via = [r \in Requests |-> None]
    /\ again = {} /\ only = {}
    /\ lat = "sleep" /\ left = {} /\ found = {}
    /\ stopping = None /\ victim = None
    /\ phase = "serving" /\ unseen = {} /\ taken = {}
    /\ proc = [c \in Procs |-> "none"]
    /\ flock = [p \in Principals |-> None]
    /\ dbOpen = {} /\ termed = {} /\ killed = {} /\ orphan = {}
    /\ blind = {}

-----------------------------------------------------------------------------
(* A request: send_to_child, ws_proxy's and OwnerCalls' two attempts.      *)

(* It has no more to do.                                                   *)
Answer(r) ==
    /\ at' = [at EXCEPT ![r] = "idle"]
    /\ via' = [via EXCEPT ![r] = None]
    /\ again' = again \ {r}
    /\ only' = only \ {r}
    /\ UNCHANGED for

GoTo(r, stage, c) ==
    /\ at' = [at EXCEPT ![r] = stage]
    /\ via' = [via EXCEPT ![r] = c]

(* A request of an enabled principal, with Reach::Launch or RunningOnly.   *)
Request(r, p) ==
    /\ at[r] = "idle" /\ p \notin disabled
    /\ at' = [at EXCEPT ![r] = "endpoint"]
    /\ for' = [for EXCEPT ![r] = p]
    /\ only' \in {only, only \cup {r}}
    /\ UNCHANGED <<account, children, via, again, looping, ending, system>>

(* endpoint, running_endpoint: the process in the slot has not exited.     *)
Found(r) ==
    LET p == for[r] IN
    /\ at[r] = "endpoint" /\ busy[p] = NoLock
    /\ slot[p] # None /\ Alive(slot[p])
    /\ GoTo(r, "connect", slot[p])
    /\ UNCHANGED <<account, children, for, again, only, looping, ending, system>>

(* running_endpoint: none is running, answered not found.                  *)
NotRunning(r) ==
    LET p == for[r] IN
    /\ at[r] = "endpoint" /\ r \in only /\ busy[p] = NoLock
    /\ slot[p] # None => ~Alive(slot[p])
    /\ Answer(r)
    /\ UNCHANGED <<account, children, looping, ending, system>>

(* endpoint: forget the exited child and spawn one, holding the slot.      *)
Launch(r) ==
    LET p == for[r] IN
    /\ at[r] = "endpoint" /\ r \notin only /\ busy[p] = NoLock
    /\ slot[p] # None => ~Alive(slot[p])
    /\ slot' = [slot EXCEPT ![p] = None]
    /\ \E c \in Procs :
         /\ ChildOf[c] = p /\ Unused(c)
         /\ GoTo(r, "launching", c)
         /\ proc' = [proc EXCEPT ![c] = "boot"]
    /\ busy' = [busy EXCEPT ![p] = r]
    /\ UNCHANGED <<account, for, again, only, looping, ending,
                   flock, dbOpen, termed, killed, orphan, blind>>

(* endpoint: the KEK, the account's secrets or the spawn failed.           *)
LaunchFails(r) ==
    LET p == for[r] IN
    /\ at[r] = "endpoint" /\ r \notin only /\ busy[p] = NoLock
    /\ slot[p] # None => ~Alive(slot[p])
    /\ slot' = [slot EXCEPT ![p] = None]
    /\ Answer(r)
    /\ UNCHANGED <<account, busy, looping, ending, system>>

(* wait_for_port: daemon.json names the child, which is listening.         *)
LaunchReady(r) ==
    LET p == for[r] IN
    /\ at[r] = "launching" /\ proc[via[r]] = "up"
    /\ slot' = [slot EXCEPT ![p] = via[r]]
    /\ busy' = [busy EXCEPT ![p] = NoLock]
    /\ GoTo(r, "connect", via[r])
    /\ UNCHANGED <<account, for, again, only, looping, ending, system>>

(* wait_for_port: it exited first.                                         *)
LaunchExited(r) ==
    LET p == for[r] IN
    /\ at[r] = "launching" /\ ~Alive(via[r])
    /\ busy' = [busy EXCEPT ![p] = NoLock]
    /\ Answer(r)
    /\ UNCHANGED <<account, slot, looping, ending, system>>

(* Mutant: no READY_TIMEOUT.                                               *)
LaunchWaits(r) == at[r] = "launching" /\ FALSE /\ UNCHANGED vars

(* wait_for_port: READY_TIMEOUT; kill_and_reap sends SIGKILL.              *)
LaunchTimesOut(r) ==
    /\ at[r] = "launching" /\ Alive(via[r])
    /\ GoTo(r, "aborting", via[r])
    /\ killed' = killed \cup {via[r]}
    /\ UNCHANGED <<account, children, for, again, only, looping, ending,
                   proc, flock, dbOpen, termed, orphan, blind>>

(* kill_and_reap returns: the process was reaped, or KILL_WAIT ran out.    *)
Reaped(c) == ~Alive(c) \/ KillsMayStick

Aborted(r) ==
    LET p == for[r] IN
    /\ at[r] = "aborting" /\ Reaped(via[r])
    /\ busy' = [busy EXCEPT ![p] = NoLock]
    /\ Answer(r)
    /\ UNCHANGED <<account, slot, looping, ending, system>>

(* The child answered, or the connection broke after it was made.          *)
Served(r) ==
    /\ at[r] = "connect"
    /\ Answer(r)
    /\ UNCHANGED <<account, children, looping, ending, system>>

(* is_connect: nothing listens there, the child did not accept within the  *)
(* connect_timeout, or the broker had no descriptor left.  Invalidate, on  *)
(* the first attempt only.  (ws_proxy invalidates a refusing child only.)  *)
Refused(r) ==
    /\ at[r] = "connect"
    /\ IF r \in again
       THEN Answer(r)
       ELSE GoTo(r, "invalidate", via[r]) /\ UNCHANGED <<for, again, only>>
    /\ UNCHANGED <<account, children, looping, ending, system>>

(* Mutant: the slot is let go before the process is reaped.                *)
KillUnlocked(r) ==
    LET p == for[r] IN
    /\ slot' = [slot EXCEPT ![p] = None]
    /\ GoTo(r, "endpoint", None) /\ again' = again \cup {r}
    /\ killed' = IF Alive(slot[p]) THEN killed \cup {slot[p]} ELSE killed
    /\ UNCHANGED <<account, busy, for, only, looping, ending,
                   proc, flock, dbOpen, termed, orphan, blind>>

(* invalidate: kill the process in the slot ...                            *)
Kill(r) ==
    LET p == for[r] IN
    /\ slot' = [slot EXCEPT ![p] = None]
    /\ busy' = [busy EXCEPT ![p] = r]
    /\ GoTo(r, "killing", slot[p])
    /\ killed' = IF Alive(slot[p]) THEN killed \cup {slot[p]} ELSE killed
    /\ UNCHANGED <<account, for, again, only, looping, ending,
                   proc, flock, dbOpen, termed, orphan, blind>>

(* Mutant: whatever the slot holds now.                                    *)
InvalidateAny(r) ==
    /\ at[r] = "invalidate" /\ busy[for[r]] = NoLock
    /\ slot[for[r]] # None
    /\ Kill(r)

(* ... if it is still the one that could not be reached.                   *)
Invalidate(r) ==
    /\ at[r] = "invalidate" /\ busy[for[r]] = NoLock
    /\ slot[for[r]] = via[r]
    /\ Kill(r)

(* invalidate: another request already replaced it.                        *)
InvalidateStale(r) ==
    /\ at[r] = "invalidate" /\ busy[for[r]] = NoLock
    /\ slot[for[r]] # via[r]
    /\ GoTo(r, "endpoint", None)
    /\ again' = again \cup {r}
    /\ UNCHANGED <<account, children, for, only, looping, ending, system>>

Killed(r) ==
    LET p == for[r] IN
    /\ at[r] = "killing" /\ Reaped(via[r])
    /\ busy' = [busy EXCEPT ![p] = NoLock]
    /\ GoTo(r, "endpoint", None)
    /\ again' = again \cup {r}
    /\ UNCHANGED <<account, slot, for, only, looping, ending, system>>

(* The client went away: the future is dropped at its await, with the slot *)
(* guard it holds; kill_on_drop kills a process it was still launching.    *)
Drop(r) ==
    LET p == for[r]
    IN
    /\ HandlersMayDrop /\ at[r] # "idle"
    /\ busy' = IF at[r] \in Holding THEN [busy EXCEPT ![p] = NoLock] ELSE busy
    /\ killed' = IF at[r] = "launching" /\ Alive(via[r])
                 THEN killed \cup {via[r]} ELSE killed
    /\ Answer(r)
    /\ UNCHANGED <<account, slot, looping, ending,
                   proc, flock, dbOpen, termed, orphan, blind>>

-----------------------------------------------------------------------------
(* The account and the loop that stops a disabled principal's child.       *)

Disable(p) ==
    /\ disabled' = disabled \cup {p}
    /\ p \notin disabled
    /\ UNCHANGED <<children, request, looping, ending, system>>

Enable(p) ==
    /\ disabled' = disabled \ {p}
    /\ p \in disabled
    /\ UNCHANGED <<children, request, looping, ending, system>>

LoopTick ==
    /\ lat = "sleep"
    /\ lat' = "scan" /\ left' = Principals /\ found' = {}
    /\ UNCHANGED <<account, children, request, stopping, victim, ending, system>>

(* running(): one slot after the other, forgetting exited children.        *)
LoopLook(p) ==
    /\ lat = "scan" /\ p \in left /\ busy[p] = NoLock
    /\ left' = left \ {p}
    /\ IF slot[p] # None /\ Alive(slot[p])
       THEN found' = found \cup {p} /\ UNCHANGED slot
       ELSE slot' = [slot EXCEPT ![p] = None] /\ UNCHANGED found
    /\ UNCHANGED <<account, busy, request, lat, stopping, victim, ending, system>>

LoopScanned ==
    /\ lat = "scan" /\ left = {}
    /\ lat' = IF found = {} THEN "sleep" ELSE "check"
    /\ UNCHANGED <<account, children, request, left, found, stopping, victim,
                   ending, system>>

(* After the last of the principals found, the loop sleeps.                *)
LoopNext(p) ==
    /\ found' = found \ {p}
    /\ lat' = IF found = {p} THEN "sleep" ELSE "check"
    /\ stopping' = None /\ victim' = None

(* Its account is enabled, or could not be read.                           *)
LoopSpare(p) ==
    /\ lat = "check" /\ p \in found /\ p \notin disabled
    /\ LoopNext(p)
    /\ UNCHANGED <<account, children, request, left, ending, system>>

LoopCondemn(p) ==
    /\ lat = "check" /\ p \in found /\ p \in disabled
    /\ lat' = "stop" /\ stopping' = p
    /\ UNCHANGED <<account, children, request, left, found, victim, ending, system>>

(* Mutant: the entry is dropped, the process goes on.                      *)
LoopStopLeaks ==
    LET p == stopping IN
    /\ lat = "stop" /\ busy[p] = NoLock /\ slot[p] # None
    /\ slot' = [slot EXCEPT ![p] = None]
    /\ LoopNext(p)
    /\ UNCHANGED <<account, busy, request, left, ending, system>>

(* stop: SIGTERM, holding the slot ...                                     *)
LoopStop ==
    LET p == stopping IN
    /\ lat = "stop" /\ busy[p] = NoLock /\ slot[p] # None
    /\ lat' = "draining" /\ victim' = slot[p]
    /\ slot' = [slot EXCEPT ![p] = None]
    /\ busy' = [busy EXCEPT ![p] = Loop]
    /\ termed' = IF Alive(slot[p]) THEN termed \cup {slot[p]} ELSE termed
    /\ UNCHANGED <<account, request, left, found, stopping, ending,
                   proc, flock, dbOpen, killed, orphan, blind>>

LoopNothingToStop ==
    /\ lat = "stop" /\ busy[stopping] = NoLock /\ slot[stopping] = None
    /\ LoopNext(stopping)
    /\ UNCHANGED <<account, children, request, left, ending, system>>

(* ... SIGKILL after STOP_GRACE ...                                        *)
LoopGrace ==
    /\ lat = "draining" /\ Alive(victim)
    /\ lat' = "killing"
    /\ killed' = killed \cup {victim}
    /\ UNCHANGED <<account, children, request, left, found, stopping, victim,
                   ending, proc, flock, dbOpen, termed, orphan, blind>>

(* ... until it is reaped.                                                 *)
LoopStopped ==
    /\ \/ lat = "draining" /\ ~Alive(victim)
       \/ lat = "killing" /\ Reaped(victim)
    /\ busy' = [busy EXCEPT ![stopping] = NoLock]
    /\ LoopNext(stopping)
    /\ UNCHANGED <<account, slot, request, left, ending, system>>

-----------------------------------------------------------------------------
(* The broker stops or dies, and a new one starts.                         *)

ShutDown ==
    /\ MayShutDown /\ phase = "serving"
    /\ phase' = "taking" /\ unseen' = Principals
    /\ UNCHANGED <<account, children, request, looping, taken, system>>

(* Mutant: an empty slot is taken too.                                     *)
StopTakeEmpty(p) ==
    /\ phase = "taking" /\ p \in unseen /\ busy[p] = NoLock
    /\ unseen' = unseen \ {p}
    /\ taken' = taken \cup {slot[p]}
    /\ slot' = [slot EXCEPT ![p] = None]
    /\ UNCHANGED <<account, busy, request, looping, phase, system>>

(* stop_all takes each slot's child; the futures that signal them are not  *)
(* polled before join_all.                                                 *)
StopTake(p) ==
    /\ phase = "taking" /\ p \in unseen /\ busy[p] = NoLock
    /\ unseen' = unseen \ {p}
    /\ taken' = IF slot[p] = None THEN taken ELSE taken \cup {slot[p]}
    /\ slot' = [slot EXCEPT ![p] = None]
    /\ UNCHANGED <<account, busy, request, looping, phase, system>>

StopSignal ==
    /\ phase = "taking" /\ unseen = {}
    /\ phase' = "draining"
    /\ termed' = termed \cup {c \in taken : Alive(c)}
    /\ UNCHANGED <<account, children, request, looping, unseen, taken,
                   proc, flock, dbOpen, killed, orphan, blind>>

StopGrace(c) ==
    /\ phase = "draining" /\ c \in taken /\ Alive(c)
    /\ killed' = killed \cup {c}
    /\ UNCHANGED <<account, children, request, looping, ending,
                   proc, flock, dbOpen, termed, orphan, blind>>

(* The broker's memory is gone, and the next broker starts with none.      *)
Forget ==
    /\ slot' = [p \in Principals |-> None]
    /\ busy' = [p \in Principals |-> NoLock]
    /\ at' = [r \in Requests |-> "idle"]
    /\ via' = [r \in Requests |-> None]
    /\ again' = {} /\ only' = {}
    /\ lat' = "sleep" /\ left' = {} /\ found' = {}
    /\ stopping' = None /\ victim' = None
    /\ phase' = "serving" /\ unseen' = {} /\ taken' = {}
    /\ orphan' = {c \in Procs : Alive(c)}
    /\ UNCHANGED <<account, for, proc, flock, dbOpen, termed, blind>>

(* stop_all is over; the runtime drops what is left, with kill_on_drop.    *)
StopDone ==
    /\ phase = "draining"
    /\ \A c \in taken : Alive(c) => c \in killed /\ KillsMayStick
    /\ killed' = killed \cup
         {c \in Procs : Alive(c) /\ (slot[ChildOf[c]] = c
                                    \/ \E r \in Requests : at[r] \in Holding /\ via[r] = c)}
    /\ Forget

Crash ==
    /\ MayCrash
    /\ \E c \in Procs : Alive(c)
    /\ Forget /\ UNCHANGED killed

-----------------------------------------------------------------------------
(* A child process.                                                        *)

Broker == <<account, children, request, looping, ending>>

Gone(c) ==
    /\ proc' = [proc EXCEPT ![c] = "none"]
    /\ dbOpen' = dbOpen \ {c}
    /\ flock' = [p \in Principals |-> IF flock[p] = c THEN None ELSE flock[p]]
    /\ termed' = termed \ {c} /\ killed' = killed \ {c} /\ orphan' = orphan \ {c}
    /\ blind' = blind \ {c}

(* principal_child_boot: the lock, then ikenga.db and the listener, then    *)
(* parent_gone's first getppid.                                            *)
Boot(c) ==
    /\ proc[c] = "boot" /\ flock[ChildOf[c]] = None
    /\ proc' = [proc EXCEPT ![c] = "up"]
    /\ flock' = [flock EXCEPT ![ChildOf[c]] = c]
    /\ dbOpen' = dbOpen \cup {c}
    /\ blind' = IF c \in orphan THEN blind \cup {c} ELSE blind
    /\ UNCHANGED <<Broker, termed, killed, orphan>>

BootRefused(c) ==
    /\ proc[c] = "boot" /\ flock[ChildOf[c]] # None
    /\ Gone(c)
    /\ UNCHANGED Broker

(* Mutant: the lock goes before the drain.                                 *)
DrainUnlocks(c) ==
    /\ proc[c] = "up"
    /\ proc' = [proc EXCEPT ![c] = "drain"]
    /\ flock' = [p \in Principals |-> IF flock[p] = c THEN None ELSE flock[p]]
    /\ UNCHANGED <<Broker, dbOpen, termed, killed, orphan, blind>>

(* Idle, signalled or orphaned: it stops listening and drains.             *)
Drain(c) ==
    /\ proc[c] = "up"
    /\ proc' = [proc EXCEPT ![c] = "drain"]
    /\ UNCHANGED <<Broker, flock, dbOpen, termed, killed, orphan, blind>>

(* Drained: drop(mode.lock), whether or not the detached sweep is using    *)
(* ikenga.db.                                                              *)
Unlock(c) ==
    /\ proc[c] = "drain"
    /\ proc' = [proc EXCEPT ![c] = "unlocked"]
    /\ flock' = [p \in Principals |-> IF flock[p] = c THEN None ELSE flock[p]]
    /\ dbOpen' \in {dbOpen, dbOpen \ {c}}
    /\ UNCHANGED <<Broker, termed, killed, orphan, blind>>

(* main returns, or the process is killed or crashes.                      *)
Exit(c) ==
    /\ proc[c] \in {"up", "drain", "unlocked", "boot"}
    /\ Gone(c)
    /\ UNCHANGED Broker

-----------------------------------------------------------------------------
SlotStep(r) ==
    \/ Found(r) \/ NotRunning(r) \/ Launch(r) \/ LaunchFails(r)
    \/ LaunchReady(r) \/ LaunchExited(r) \/ LaunchTimesOut(r) \/ Aborted(r)
    \/ Invalidate(r) \/ InvalidateStale(r) \/ Killed(r)

RequestStep(r) == SlotStep(r) \/ Served(r) \/ Refused(r)

LoopStep ==
    \/ LoopTick \/ (\E p \in Principals : LoopLook(p)) \/ LoopScanned
    \/ (\E p \in Principals : LoopSpare(p) \/ LoopCondemn(p))
    \/ LoopStop \/ LoopNothingToStop \/ LoopGrace \/ LoopStopped

StopStep ==
    \/ ShutDown \/ (\E p \in Principals : StopTake(p)) \/ StopSignal
    \/ (\E c \in Procs : StopGrace(c)) \/ StopDone \/ Crash

ProcStep(c) == Boot(c) \/ BootRefused(c) \/ Drain(c) \/ Unlock(c) \/ Exit(c)

Next ==
    \/ \E r \in Requests : (\E p \in Principals : Request(r, p))
                           \/ RequestStep(r) \/ Drop(r)
    \/ \E p \in Principals : Disable(p) \/ Enable(p)
    \/ LoopStep
    \/ StopStep
    \/ \E c \in Procs : ProcStep(c)

Spec == Init /\ [][Next]_vars

(* A request's timeouts and awaits end, and tokio's mutex is first come,   *)
(* first served; but send() has no timeout for the answer of a child that  *)
(* listens.  The loop's timer fires; a child told to stop, killed or       *)
(* orphaned leaves (an orphan by its parent watch, a blind one by its idle *)
(* timeout).  Nothing makes a child finish booting.                        *)
Proceeds(r) ==
    \/ SlotStep(r)
    \/ at[r] = "connect" /\ proc[via[r]] # "up" /\ (Served(r) \/ Refused(r))

Leaves(c) ==
    \/ c \in termed \cup orphan /\ Drain(c)
    \/ Unlock(c)
    \/ (c \in killed \/ proc[c] = "unlocked" \/ (c \in orphan /\ proc[c] = "boot"))
       /\ Exit(c)

FairSpec ==
    /\ Spec
    /\ \A r \in Requests : SF_vars(Proceeds(r))
    /\ \A p \in Principals : SF_vars(LoopLook(p)) /\ SF_vars(StopTake(p))
    /\ WF_vars(LoopTick \/ LoopScanned) /\ SF_vars(LoopStop) /\ WF_vars(LoopGrace)
    /\ SF_vars(LoopNothingToStop) /\ WF_vars(LoopStopped)
    /\ \A p \in Principals : WF_vars(LoopSpare(p)) /\ WF_vars(LoopCondemn(p))
    /\ WF_vars(StopSignal) /\ WF_vars(StopDone)
    /\ \A c \in Procs : WF_vars(Leaves(c)) /\ WF_vars(StopGrace(c))

-----------------------------------------------------------------------------
(* I-3: no two processes ever have the same ikenga.db open.                *)
OneOpener ==
    \A c, d \in dbOpen : ChildOf[c] = ChildOf[d] => c = d

(* What the lock gives of I-3, whatever is dropped, killed, crashed or     *)
(* restarted: at most one process of a principal that serves or drains has *)
(* ikenga.db open; any other is past drop(mode.lock), with its sweep.      *)
OneServesDb ==
    \A c, d \in dbOpen :
        ChildOf[c] = ChildOf[d] /\ c # d => "unlocked" \in {proc[c], proc[d]}

(* children.rs: "killed and reaped before a replacement launches, so the   *)
(* replacement never races the old one for the data-dir lock".             *)
ReplacementNeverRaces ==
    [][\A c \in Procs : ~Alive(c) /\ proc'[c] = "boot"
         => \A d \in Procs : ChildOf[d] = ChildOf[c] => ~Alive(d)]_vars

(* Who sends SIGKILL to a child, apart from a request that took it for     *)
(* gone: its launcher, the loop that told it to stop, shutdown.            *)
EndsIt(c) ==
    \/ \E r \in Requests : at[r] = "launching" /\ via[r] = c
    \/ c \in termed
    \/ phase = "draining"

(* A failed connection costs the very process it was made to, never the    *)
(* one another request has launched in its place since; and no request     *)
(* costs a second process.                                                 *)
ReplacementIsSpared ==
    [][\A c \in killed' \ killed :
         \/ EndsIt(c)
         \/ \E r \in Requests \ again : at[r] = "invalidate" /\ via[r] = c]_vars

(* children.rs: invalidate is for a child that "refused a connection": one *)
(* that listens is not killed by a request.                                *)
OnlyRefusersAreKilled ==
    [][\A c \in killed' \ killed : proc[c] = "up" => EndsIt(c)]_vars

(* Every request is answered, however launches hang, children exit and the *)
(* loop and the other requests contend, unless it waits for ever for the   *)
(* answer of one child, which listens for ever.                            *)
RequestAnswered ==
    \A r \in Requests :
        \/ []<>(at[r] = "idle")
        \/ \E c \in Procs : <>[](at[r] = "connect" /\ via[r] = c /\ proc[c] = "up")

(* 7.3: a disabled principal's child is stopped, and stays so, also one    *)
(* that a request authenticated before launched after.                     *)
DisabledStops ==
    \A p \in Principals :
        <>[](p \in disabled) => <>[](\A c \in Procs : ChildOf[c] = p => proc[c] # "up")

(* principal_child.rs watches its parent so that a child whose broker died *)
(* does not keep the lock until it is idle for half an hour.               *)
OrphansNotice == \A c \in Procs : proc[c] = "up" => c \notin blind

(* A child whose broker is gone does not keep the lock: the next broker    *)
(* can launch one.                                                         *)
OrphansLeave == \A c \in Procs : c \in orphan ~> ~Alive(c)
=============================================================================
