---------------------------- MODULE KekRotation ----------------------------
(***************************************************************************)
(* Rotation of the operator's secrets KEK: rotate_kek's run with its       *)
(* journal, one disk write per step, by the CLI or by a booting broker     *)
(* that finds a journal; crashes between any two writes, stores that       *)
(* cannot be read or written, and runs that overlap.                       *)
(*                                                                         *)
(* A principal's envelope is the key it is wrapped under.  Keys are        *)
(* numbered in the order they are minted.                                  *)
(***************************************************************************)
EXTENDS Naturals, FiniteSets

CONSTANTS
    Stores,       \* principals that have a secret store
    Runners,      \* processes that may run a rotation
    Broker,       \* the one among them that is the booting broker
    None,         \* no such file
    MaxKeys,      \* bound on the keys ever minted
    MaxCrashes,   \* bound on crashes
    MaxFaults,    \* bound on failing reads and writes
    Together      \* the kinds of trouble one behaviour may meet

ASSUME RunnersAssumption == Broker \in Runners
ASSUME BoundsAssumption ==
    /\ MaxKeys \in Nat \ {0} /\ MaxCrashes \in Nat /\ MaxFaults \in Nat
    /\ Together \subseteq SUBSET {"crash", "fault", "overlap"} /\ {} \in Together

VARIABLES
    kek, next, old,     \* secrets-kek, secrets-kek.next, secrets-kek.old
    journal,            \* secrets-rotation-journal.json
    env,                \* the key each envelope is wrapped under
    server,             \* the broker: "down", "booting" or "up"
    at, mem, cur, new,  \* a run: progress, its journal, the keys it loaded
    back,               \* stores its roll_back has yet to move
    minted, crashes, faults,
    met                 \* the kinds of trouble met so far

files == <<kek, next, old, journal, env>>
run   == <<at, mem, cur, new, back>>
count == <<minted, crashes, faults>>
bound == <<count, met>>
vars  == <<files, server, run, bound>>

Keys     == 1..MaxKeys
KeyFile  == Keys \cup {None}
Journals == [stage : {"rewrapping", "verifying", "finalizing"},
             pending : SUBSET Stores, completed : SUBSET Stores]
ASSUME NoneAssumption == None \notin Nat \cup Journals

Stages   == {"idle", "mint", "begin", "rewrapping", "rewrap", "note",
             "verifying", "finalizing", "swapOut", "swapIn", "wipe", "clean",
             "back", "forget", "wipeNext"}

Journal(s, p, c) == [stage |-> s, pending |-> p, completed |-> c]

(* A run that re-wraps has loaded both keys.                               *)
Loaded ==
    \A r \in Runners : at[r] \in {"rewrap", "note", "back"} => cur[r] # None /\ new[r] # None

(* Keys, journals and runs are of their types, and no run re-wraps with a  *)
(* key it has not loaded, resumed or not.                                  *)
TypeOK ==
    /\ kek \in KeyFile /\ next \in KeyFile /\ old \in KeyFile
    /\ journal \in Journals \cup {None}
    /\ env \in [Stores -> Keys]
    /\ server \in {"down", "booting", "up"}
    /\ at \in [Runners -> Stages]
    /\ mem \in [Runners -> Journals]
    /\ cur \in [Runners -> KeyFile] /\ new \in [Runners -> KeyFile]
    /\ back \in [Runners -> SUBSET Stores]
    /\ minted \in Keys /\ crashes \in 0..MaxCrashes /\ faults \in 0..MaxFaults
    /\ met \in Together
    /\ Loaded

NoJournal == Journal("rewrapping", {}, {})

Init ==
    /\ kek = 1 /\ next = None /\ old = None /\ journal = None
    /\ env = [p \in Stores |-> 1]
    /\ server = "down"
    /\ at = [r \in Runners |-> "idle"]
    /\ mem = [r \in Runners |-> NoJournal]
    /\ cur = [r \in Runners |-> None] /\ new = [r \in Runners |-> None]
    /\ back = [r \in Runners |-> {}]
    /\ minted = 1 /\ crashes = 0 /\ faults = 0 /\ met = {}

Idle(r) == at[r] = "idle"
Alone   == \A r \in Runners : Idle(r)

Meets(trouble) == met \cup {trouble} \in Together /\ met' = met \cup {trouble}

(* A run starts, perhaps over another one.                                 *)
Starts == IF Alone THEN UNCHANGED met ELSE Meets("overlap")

(* A store that cannot be read or written.                                 *)
StoreFault == faults < MaxFaults /\ faults' = faults + 1 /\ Meets("fault")

GoTo(r, stage) == at' = [at EXCEPT ![r] = stage]

(* The process ends, and the broker with it unless its boot goes on.       *)
Exits(r, state) ==
    /\ GoTo(r, "idle")
    /\ mem' = [mem EXCEPT ![r] = NoJournal]
    /\ cur' = [cur EXCEPT ![r] = None]
    /\ new' = [new EXCEPT ![r] = None]
    /\ back' = [back EXCEPT ![r] = {}]
    /\ server' = IF r = Broker THEN state ELSE server

Fails(r) == Exits(r, "down")

-----------------------------------------------------------------------------
(* run: its start.                                                         *)

Remember(r, j) == mem' = [mem EXCEPT ![r] = j]

(* Mutant: a resumed run re-wraps with the keys of the one that died.      *)
ResumeUnloaded(r) ==
    /\ journal # None
    /\ GoTo(r, IF journal.stage = "rewrapping" THEN "rewrap" ELSE journal.stage)
    /\ Remember(r, journal)
    /\ UNCHANGED <<files, cur, new, back, count>>

(* A journal is there: this run resumes it.                                *)
Resume(r) ==
    /\ journal # None
    /\ GoTo(r, journal.stage)
    /\ Remember(r, journal)
    /\ UNCHANGED <<files, cur, new, back, count>>

(* rotate-kek: check_concurrency finds no server, nor a session's lock.    *)
CliStart(r) ==
    /\ r # Broker /\ Idle(r) /\ server # "up"
    /\ Starts
    /\ \/ Resume(r)
       \/ /\ journal = None /\ kek # None /\ minted < MaxKeys
          /\ GoTo(r, "mint")
          /\ UNCHANGED <<files, mem, cur, new, back, count>>
    /\ UNCHANGED server

(* resume_if_interrupted, before the broker serves.                        *)
BootResumes ==
    /\ server = "down" /\ Idle(Broker)
    /\ Starts
    /\ Resume(Broker)
    /\ server' = "booting"

(* Mutant: the journal is left to the CLI.                                 *)
BootIgnores ==
    /\ server = "down" /\ Idle(Broker)
    /\ Starts
    /\ server' = "up"
    /\ UNCHANGED <<files, run, count>>

BootServes ==
    /\ server = "down" /\ Idle(Broker)
    /\ Starts
    /\ journal = None
    /\ server' = "up"
    /\ UNCHANGED <<files, run, count>>

ServerStops ==
    /\ server = "up"
    /\ server' = "down"
    /\ UNCHANGED <<files, run, bound>>

(* The next KEK's file, then the journal.                                  *)
Mint(r) ==
    /\ at[r] = "mint" /\ minted < MaxKeys
    /\ minted' = minted + 1
    /\ next' = minted + 1
    /\ GoTo(r, "begin")
    /\ UNCHANGED <<kek, old, journal, env, server, mem, cur, new, back, crashes, faults, met>>

Begin(r) ==
    LET j == Journal("rewrapping", Stores, {}) IN
    /\ at[r] = "begin"
    /\ journal' = j /\ Remember(r, j)
    /\ GoTo(r, "rewrapping")
    /\ UNCHANGED <<kek, next, old, env, server, cur, new, back, bound>>

-----------------------------------------------------------------------------
(* Rewrapping.                                                             *)

LoadKeys(r) ==
    /\ at[r] = "rewrapping" /\ kek # None /\ next # None
    /\ cur' = [cur EXCEPT ![r] = kek]
    /\ new' = [new EXCEPT ![r] = next]
    /\ GoTo(r, "rewrap")
    /\ UNCHANGED <<files, server, mem, back, bound>>

(* Mutant: a run that misses a key waits for it.                           *)
NoKeysWaits(r) ==
    /\ at[r] = "rewrapping" /\ (kek = None \/ next = None)
    /\ UNCHANGED vars

NoKeys(r) ==
    /\ at[r] = "rewrapping" /\ (kek = None \/ next = None)
    /\ Fails(r)
    /\ UNCHANGED <<files, bound>>

(* rewrap_one: an envelope under neither key is an error.                  *)
Wrapped(p, from, to) == env[p] \in {from, to}
Rewrap(p, to) == env' = [env EXCEPT ![p] = to]

(* The store moves, and the journal in memory with it ...                  *)
RewrapOne(r, p) ==
    /\ at[r] = "rewrap" /\ p \in mem[r].pending
    /\ Wrapped(p, cur[r], new[r])
    /\ Rewrap(p, new[r])
    /\ Remember(r, Journal("rewrapping", mem[r].pending \ {p}, mem[r].completed \cup {p}))
    /\ GoTo(r, "note")
    /\ UNCHANGED <<kek, next, old, journal, server, cur, new, back, bound>>

(* ... then the journal on disk.                                           *)
Note(r) ==
    /\ at[r] = "note"
    /\ journal' = mem[r]
    /\ GoTo(r, "rewrap")
    /\ UNCHANGED <<kek, next, old, env, server, mem, cur, new, back, bound>>

(* Every store is under the next key, as far as the journal knows.         *)
Rewrapped(r) ==
    LET j == Journal("verifying", {}, mem[r].completed) IN
    /\ at[r] = "rewrap" /\ mem[r].pending = {}
    /\ journal' = j /\ Remember(r, j)
    /\ GoTo(r, "verifying")
    /\ UNCHANGED <<kek, next, old, env, server, cur, new, back, bound>>

(* A store could not be re-wrapped: roll_back moves the completed ones.    *)
RewrapFails(r, p) ==
    /\ at[r] = "rewrap" /\ p \in mem[r].pending
    /\ \/ ~Wrapped(p, cur[r], new[r]) /\ UNCHANGED <<faults, met>>
       \/ StoreFault
    /\ back' = [back EXCEPT ![r] = mem[r].completed]
    /\ GoTo(r, "back")
    /\ UNCHANGED <<files, server, mem, cur, new, minted, crashes>>

BackOne(r, p) ==
    /\ at[r] = "back" /\ p \in back[r]
    /\ Wrapped(p, cur[r], new[r])
    /\ Rewrap(p, cur[r])
    /\ back' = [back EXCEPT ![r] = back[r] \ {p}]
    /\ UNCHANGED <<kek, next, old, journal, server, at, mem, cur, new, bound>>

(* Moving one back failed too: the journal is kept.                        *)
BackFails(r, p) ==
    /\ at[r] = "back" /\ p \in back[r]
    /\ \/ ~Wrapped(p, cur[r], new[r]) /\ UNCHANGED <<faults, met>>
       \/ StoreFault
    /\ Fails(r)
    /\ UNCHANGED <<files, minted, crashes>>

(* Mutant: the next key is wiped with stores still under it.               *)
BackDoneEarly(r) ==
    /\ at[r] = "back"
    /\ journal' = None
    /\ GoTo(r, "wipeNext")
    /\ UNCHANGED <<kek, next, old, env, server, mem, cur, new, back, bound>>

(* The journal goes first, the unused key after it.                        *)
BackDone(r) ==
    /\ at[r] = "back" /\ back[r] = {}
    /\ journal' = None
    /\ GoTo(r, "wipeNext")
    /\ UNCHANGED <<kek, next, old, env, server, mem, cur, new, back, bound>>

WipeNext(r) ==
    /\ at[r] = "wipeNext"
    /\ next' = None
    /\ Fails(r)
    /\ UNCHANGED <<kek, old, journal, env, bound>>

-----------------------------------------------------------------------------
(* Verifying and the swap.                                                 *)

(* Mutant: the journal's word is taken for it.                             *)
VerifyNothing(r) ==
    LET j == Journal("finalizing", mem[r].pending, mem[r].completed) IN
    /\ at[r] = "verifying"
    /\ journal' = j /\ Remember(r, j)
    /\ GoTo(r, "finalizing")
    /\ UNCHANGED <<kek, next, old, env, server, cur, new, back, bound>>

Verify(r) ==
    LET j == Journal("finalizing", mem[r].pending, mem[r].completed) IN
    /\ at[r] = "verifying"
    /\ next # None /\ \A p \in mem[r].completed : env[p] = next
    /\ journal' = j /\ Remember(r, j)
    /\ GoTo(r, "finalizing")
    /\ UNCHANGED <<kek, next, old, env, server, cur, new, back, bound>>

VerifyFails(r) ==
    /\ at[r] = "verifying"
    /\ \/ /\ next = None \/ \E p \in mem[r].completed : env[p] # next
          /\ UNCHANGED <<faults, met>>
       \/ StoreFault
    /\ Fails(r)
    /\ UNCHANGED <<files, minted, crashes>>

(* While secrets-kek.next exists the swap has not finished.                *)
CheckSwap(r) ==
    /\ at[r] = "finalizing"
    /\ GoTo(r, IF next # None THEN "swapOut" ELSE "wipe")
    /\ UNCHANGED <<files, server, mem, cur, new, back, bound>>

(* Mutant: the first rename must find a current key.                       *)
SwapOutStrict(r) ==
    /\ at[r] = "swapOut"
    /\ \/ /\ kek # None /\ old' = kek /\ kek' = None
          /\ GoTo(r, "swapIn")
          /\ UNCHANGED <<server, mem, cur, new, back>>
       \/ kek = None /\ Fails(r) /\ UNCHANGED <<old, kek>>
    /\ UNCHANGED <<next, journal, env, bound>>

SwapOut(r) ==
    /\ at[r] = "swapOut"
    /\ IF kek # None THEN old' = kek /\ kek' = None ELSE UNCHANGED <<old, kek>>
    /\ GoTo(r, "swapIn")
    /\ UNCHANGED <<next, journal, env, server, mem, cur, new, back, bound>>

SwapIn(r) ==
    /\ at[r] = "swapIn" /\ next # None
    /\ kek' = next /\ next' = None
    /\ GoTo(r, "wipe")
    /\ UNCHANGED <<old, journal, env, server, mem, cur, new, back, bound>>

(* Another run renamed it first.                                           *)
SwapFails(r) ==
    /\ at[r] = "swapIn" /\ next = None
    /\ Fails(r)
    /\ UNCHANGED <<files, bound>>

Wipe(r) ==
    /\ at[r] = "wipe"
    /\ old' = None
    /\ GoTo(r, "clean")
    /\ UNCHANGED <<kek, next, journal, env, server, mem, cur, new, back, bound>>

(* The journal goes, and a boot serves.                                    *)
Clean(r) ==
    /\ at[r] = "clean"
    /\ journal' = None
    /\ Exits(r, "up")
    /\ UNCHANGED <<kek, next, old, env, bound>>

(* Power loss, SIGKILL, or a journal that could not be written.            *)
Crash(r) ==
    /\ ~Idle(r) /\ crashes < MaxCrashes
    /\ crashes' = crashes + 1 /\ Meets("crash")
    /\ Fails(r)
    /\ UNCHANGED <<files, minted, faults>>

-----------------------------------------------------------------------------
RunStep(r) ==
    \/ Mint(r) \/ Begin(r) \/ LoadKeys(r) \/ NoKeys(r)
    \/ (\E p \in Stores : RewrapOne(r, p) \/ RewrapFails(r, p)
                          \/ BackOne(r, p) \/ BackFails(r, p))
    \/ Note(r) \/ Rewrapped(r) \/ BackDone(r) \/ WipeNext(r)
    \/ Verify(r) \/ VerifyFails(r)
    \/ CheckSwap(r) \/ SwapOut(r) \/ SwapIn(r) \/ SwapFails(r) \/ Wipe(r) \/ Clean(r)

Next ==
    \/ \E r \in Runners : CliStart(r) \/ RunStep(r) \/ Crash(r)
    \/ BootResumes \/ BootServes \/ ServerStops

Spec == Init /\ [][Next]_vars

(* A run goes on, and somebody starts the broker again.                    *)
FairSpec ==
    /\ Spec
    /\ \A r \in Runners : WF_vars(RunStep(r))
    /\ WF_vars(BootResumes) /\ WF_vars(BootServes)

-----------------------------------------------------------------------------
(* What each kind of trouble leaves true.  A crash and a failing store      *)
(* together, or runs that overlap, can lose a store's key: see the README. *)
Single == met \in {{}, {"crash"}, {"fault"}}

(* No secret is lost: every envelope is wrapped under a KEK that is still  *)
(* on disk.                                                                *)
NoStoreLost == "overlap" \notin met => \A p \in Stores : env[p] \in {kek, next, old}

(* A serving broker unwraps every store with the KEK it loads.             *)
ServerOpensEveryStore ==
    server = "up" /\ Single => \A p \in Stores : env[p] = kek

(* roll_back, rotate-secrets-kek.md: without a journal and a run, "the     *)
(* current KEK and every store are left as they were".                     *)
SettledWithoutJournal ==
    /\ journal = None /\ Single
    /\ \A r \in Runners : at[r] \in {"idle", "mint", "begin"}
    => \A p \in Stores : env[p] = kek

(* Whoever finds the current KEK, a server or the next rotation, finds      *)
(* every store under it.                                                   *)
CurrentKeyOpensAll == ServerOpensEveryStore /\ SettledWithoutJournal

(* "Before committing the new key, every user store is verified under the  *)
(* new KEK": a key that becomes current wraps every store.                 *)
CommittedKeyOpensAll ==
    [][kek' \notin {kek, None} /\ Single => \A p \in Stores : env[p] = kek']_vars

(* rotate-kek and a booting broker come to an end, whatever another run    *)
(* does to the files under them: neither waits for anything.               *)
RunsEnd == \A r \in Runners : ~Idle(r) ~> Idle(r)

(* An interrupted rotation ends, if every store can be read and written.   *)
RotationEnds == journal # None ~> (journal = None \/ met \notin {{}, {"crash"}})
=============================================================================
