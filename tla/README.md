# Ikenga's server in TLA+

Ikenga is a desktop and browser shell for coding agents. Its Rust core
(`src/src-tauri/src`) is also a server: a single-user daemon ("T0"), or a
multi-user host ("T1") on which a root broker authenticates people and
forwards their requests to one child process per person. This directory
specifies the parts of that server whose correctness depends on the order in
which things happen: who revokes what while a handshake is under way, which
process has a database open while another one dies, what is on disk when a
key rotation is interrupted, what becomes of a device's grant when its answer
is lost, what a server does about an audit log that was tampered with, and
whose answer a permission prompt got when several arrive at once.

Every definition stands for lines of the source; `PROJECT.json` says which
(`map`), which configuration checks what (`runs`), which change of a
definition each property notices (`mutants`), and which hazards of the code
the properties are for (`hazards`).

    tlc -workers 2 -config MCKekTroubles.cfg MCKekRotation.tla     # check a run
    tlapm KekRotationProofs.tla                                   # check proofs

## 1. Inventory

### What is modelled

| Part | State | Operations | Hard because |
|---|---|---|---|
| **Broker sockets** `server/broker/{ws_registry,proxy}.rs`, `access/{t1,devices,members}.rs`, `server/auth/routes.rs`, `server/operator/accounts.rs` | accounts.db (session epoch, disabled, device rows), sessions.db, the socket registry with its logged-out set and epoch floors, the re-check loop's last `data_version` and pass, handlers in flight | the six steps of a handshake, the pump, login, logout, change password, device revoke / tier / idle expiry, other closes, the CLI's writes, the 2 s loop | writers are two processes; a handshake spans many awaits; handlers close sockets after their commit and may be dropped between the two |
| **Caps of open sockets** `access/{t1,share,members,policy,routing,devices,invites}.rs` | memberships with roles, policies and expiry, device tiers, routing preferences; the snapshot each socket took of them | resolve, select, narrow; set role, remove, restore, accept, expire and sweep, change the matrix, set routing, set tier, and the closes after them | a snapshot is put together from three reads; each change closes its own set of sockets, some close none, and a close can be lost |
| **Principal children** `server/broker/children.rs`, `server/principal_child.rs`, `server/{mod,broker/mod}.rs` | a slot with an async mutex per principal, child processes, their data-dir lock and open database | endpoint, running_endpoint, invalidate, stop, stop_all, launch and wait, the 15 s loop, the child's boot, drain, unlock, detached sweep, exit and parent watch, a crash and restart of the broker | a request can be dropped at any await while it owns a process; an old child may outlive the broker's knowledge of it, and its own lock; a failed connection is taken for a dead child |
| **KEK rotation** `server/operator/rotate_kek.rs`, `server/broker/mod.rs` | three key files, a journal, one envelope per store | mint, begin, re-wrap a store, note it, verify, swap in two renames, wipe, roll back, resume | it must survive a crash between any two writes, and a failing store |
| **Device pairing** `access/pairing.rs`, `access/devices.rs` | pairing sessions, their slots and codes, grants awaiting delivery, device rows, the host-wide pause | begin, cancel, hello, confirm, status, decide (its two halves around a transaction), the sweeper, flush and revoke | the registry's lock is not held while the database commits; tokens are delivered once, over a network |
| **Audit chain** `access/audit/{mod,chain,reseal,verify_boot}.rs`, `access/store.rs` | audit_events linked by hash; a process's known head, its degraded state, the breaks it found and has not recorded, the reseals it has looked at; flush_lock | append in a caller's transaction, committed, rollback, background flush (which may fail), boot and on-demand verification, reseal by the server and by the root CLI | two processes write; the walk reads without the lock that adopts its verdict; "committed" is said from SQLite's hook, before the commit is done, or late |
| **Hook asks** `server/{hook_asks,term_hooks}.rs`, `access/audit/child.rs` | a child's held requests, their permission rows, the outbox of audit notes, the broker's batch | park, answer, hold, hang up, revoke, decide by row or by request id, note, poll, append, acknowledge, boot sweep | five ways to end a request, each a task of its own; the row is written beside it; notes cross to another process |
| **Ask relay** `notifications/mod.rs`, `server/shared/notifications/{mod,routing}.rs`, `iyke/hooks.rs` | the desktop's hooks, rows and mirrored keys; the daemon's mirrors, queued and delivered decisions, timers, and what it audited | ask, mirror, host and remote decisions, audit, long poll, apply, report, retract, expire, forget, boot sweep | one question with a row in each of two processes that either may restart, and answers and reports lost between them |

What each must guarantee:

* **Sockets.** A socket whose credential died is closed, by the handler that
  revoked it or else by the loop; nobody is told "revoked" whose credential
  still holds.
* **Caps.** A socket judged by a snapshot that no longer holds is about to be
  closed.
* **Children.** One process at a time serves a principal's database; a
  replacement does not race the child it replaces; a late report of a failed
  connection does not kill the replacement; a request waits for ever on
  nothing but a child that does not answer; a disabled principal's child stops.
* **Rotation.** No envelope without its key on disk; a serving broker opens
  every store; without a journal everything is as it was, or rotated.
* **Pairing.** No grant without the right code; one usable code per beginner
  and one session per slot; every request that waits is listed; a grant is
  held by its device or revoked; sessions end, and stay ended.
* **Audit chain.** A server that has seen a break lets no access change through
  until it is resealed; a break it found is reported until it is in the chain,
  is put there in the end, and once.
* **Hook asks.** One note says how an ask ended; a row that looks pending
  belongs to somebody; what a restart cut short is audited as such.
* **Ask relay.** What the chain claims of a remote decision is what the hook
  was answered, unless the decision or the report on it was lost; a decision
  that a crash swallowed is taken back; the desktop's
  row names who answered; the daemon is not kept awake for ever.

How they meet: a handshake on the broker authenticates (sockets), asks for the
principal's child (children) and pumps bytes between the two; disabling an
account is seen by the sockets' re-check loop and by the children's 15 s loop,
each on its own; pairing creates the device rows whose revocation the sockets
react to; a booting broker finishes a rotation before it serves; the notes of
a child's asks and every access change end in the audit chain, whose degraded
state refuses the latter. The modules of different parts share no variable: what one reads of another is an operation of its
own there (e.g. `MarkRevoked` in BrokerSockets for what pairing calls
`revoke_undelivered`).

### What is not (yet)

| Part | State and operations | What must hold | Why not here |
|---|---|---|---|
| Push `server/push/*` | subscriptions, per-principal lanes in a pool of 4, retries at 1/5/30 s; the broker's pump of each child's outbox | at most one outbox poll per child; a failing principal does not hold the pool; a notice of an update is announced; nothing is sent to a revoked device | planned first |
| T0 sockets `access/sockets.rs`, `server/pty_ws.rs` | the daemon's own registry, closed by device | a revoked device's socket closes, those registering late included | planned second |
| App lock `server/shared/app_lock.rs` | PIN, failure budget, lock state | the back-off cannot be reset by a restart | planned |
| PTY sessions `pty/` | processes, scrollback, attached viewers | no output lost or doubled over an attach | planned |
| Secret store migration `secrets/migrate.rs` | a marker, two backends | a crash leaves one authoritative backend | planned |
| Supervisor, update, adopt-t0 | child process; staged files | restart back-off; resumable adoption | planned late |
| Broker approvals and vault, invites, events and chat streams | rows and queues | a request is decided once; no event is skipped over a reconnect | planned |
| Packages, settings, projects, files, git, agents, viewer, seats | SQLite rows and files, one call at a time | - | CRUD; no interleaving of interest found |
| Access policy, RPC tables, manifests, engines | pure | - | tables and parsers; no state |
| Desktop shell, React views, scripts | - | - | platform calls and layout |

## 2. Modules

| Module | EXTENDS | Holds |
|---|---|---|
| `BrokerSockets` | - | sockets, registry, loop, handlers |
| `BrokerSocketsProofs` | it, TLAPS | TypeCorrect, ExactRegistry, Chased, RevokedIsTrue, LogoutReaches |
| `SocketCaps` | - | snapshots of open sockets, what changes them, the closes |
| `SocketCapsProofs` | it, TLAPS | TypeCorrect, SnapshotsFresh |
| `BrokerChildren` | - | slots, requests, loop, processes |
| `BrokerChildrenProofs` | it, TLAPS | ChildrenTypeCorrect, LockedOpener, NoRace, CalmSingleOpener, DeservedKills |
| `KekRotation` | - | files, journal, runs |
| `KekRotationProofs` | it, TLAPS | KekTypeCorrect, OneTroubleLosesNoStore, TheCurrentKeyOpensAll, CommitIsVerified |
| `Pairing` | - | sessions, handlers, grants |
| `PairingProofs` | it, TLAPS | PairTypeCorrect, CreditIsEarned, EndedIsEnded, GrantsAreChased, SlotsAgree, CodesAreAgreed |
| `AuditAlarm` | - | the abstract promise of the audit chain: an alarm, and who may end it |
| `AuditChain` | (INSTANCE AuditAlarm) | rows, the walk, the server's memory, the CLI |
| `AuditChainProofs` | it, TLAPS | AuditTypeCorrect, FoundIsReported, RecordedAtMostOnce, and ChainRefusesWhileBroken: AuditChain implements AuditAlarm |
| `HookAsks` | - | held asks, rows, notes, the broker's poll |
| `HookAsksProofs` | it, TLAPS | AskTypeCorrect, OutcomesAreAuditedOnce, SweepsAreAudited, OpenRowsAreAttended |
| `AskRelay` | - | the desktop's asks and the daemon's relay |
| `AskRelayProofs` | it, TLAPS | RelayTypeCorrect, RowNamesTheAnswer, ClaimedIsAnswered, SweptIsTakenBack |
| `MC*` | each its module, TLC | values for the constants, symmetry |

### BrokerSockets

* `pc` is how far ws_proxy's handler for a socket is: *resolved* (the resolver
  read the account, session or device), *registered* (`WsRegistry::register`),
  *checked* (the one `still_valid` after registering), *narrowed* (its caps
  were read, see SocketCaps), *open* (upgraded, `pump` runs). Each stage is a database
  read or a lock; between any two others step in.
* `entry` is the registry's row for it: open, or the reason it was closed
  with. `loggedOut` and `floor` are what the registry remembers for
  handshakes that register late.
* `dirty` is "accounts.db's data_version differs from the loop's `last`":
  every commit sets it, `Tick` clears it as it starts a pass. Logging out
  deletes from `operator/sessions.db`, a different file, and so does not set
  it.
* A handler is `begun` (it read what it will check), `committed` (its write is
  in the database), `scanned` (close_where has collected ids under the first
  lock), or about to log in again (`relogin`). With `HandlersMayDrop` it can
  end after its commit: axum drops a handler whose client hung up.
  `CapsChange` stands for all that SocketCaps details: a commit and a close of
  the sockets of an account or a device, whose credentials go on holding.
* A slot is released once its handler ends. Registration ids are never used
  twice in the code, so releasing a slot takes it out of the id lists still
  held. `LOGGED_OUT_TTL` (the 15 minutes a logged-out session id is
  remembered) is taken to outlast any handshake.

### SocketCaps

* What a socket may do is put together in its handshake: the device's tier as
  the request was resolved (`seen`), the membership its share selects with that
  project's policy (`Select`), and the routing preference (`Route`). `snap` is
  the result, by which the frame hook judges every frame.
* `policy` is a version of a member's role, scope and policy row, `tier` one of
  a device's row: a snapshot is compared with what it was taken of.
* A change is a commit, then the closes that go with it, one subject after the
  other (`left`), each in two steps (`Scan`, `Apply`). A change of the policy
  matrix first reads whom it concerns (`ReadMembers`). `Restore` and `Join`
  commit and close nothing; `Lapse` is a membership that runs out, which
  nobody hears of before `SweepExpired`.
* `Lose` is a handler dropped after its commit, or `close_members` failing to
  read the members; `lost` remembers the sockets such a close would have
  reached.
* Revoking belongs to BrokerSockets; here a device just goes (`DeviceGone`) or
  fails the re-check (`Rechecked`).

### BrokerChildren

* `slot` and `busy` are a `Slot`'s `Live` entry and the holder of its async
  mutex. A request goes endpoint -> launching -> connect -> (served, or
  invalidate -> killing -> endpoint once more); `only` is `running_endpoint`,
  which never launches.
* A request that does not get its connection invalidates the child: `is_connect`
  is true of a refused connection, of the 5 s connect timeout and of a broker
  without descriptors, so that a child which listens may be invalidated too.
  Once connected a request has no timeout, and may wait as long as the child
  listens.
* A process is booting, up (flock, database, listening, watching its parent),
  draining, unlocked (lock dropped, and its detached sweep may still have the
  database open) or gone. `blind` are those
  whose parent had died before they first asked for it: they watch whoever
  adopted them.
* `LoopLook` takes each slot's mutex in turn, so a launch that hangs holds the
  15 s loop too; `StopTake` likewise at shutdown.
* A new broker after a crash or a shutdown is the same slots, empty.

### KekRotation

* One disk write per step: `Mint` writes `secrets-kek.next`, `Begin` the
  journal, `RewrapOne` an envelope, `Note` the journal again, `SwapOut` and
  `SwapIn` are the two renames, `Wipe` and `Clean` the end. A `Crash` may
  fall between any two.
* Keys are numbered as they are minted; an envelope is the key it is under.
* A run is the CLI's or a booting broker's (`BootResumes`, from
  `resume_if_interrupted`). `check_concurrency` is `CliStart`'s guard; it
  cannot see a second CLI run, nor a broker that is still booting, and so runs
  may overlap.
* `met` remembers which kinds of trouble a behaviour met: crashes, failing
  stores, runs that overlap. `Together` says which may meet in one, and the
  properties say what each leaves true: a crash and a failing store together,
  or an overlap, can lose a store's key (see the disagreements).
* The set of stores does not change during a rotation; fsync is taken at its
  word.

### Pairing

* A session's state is the code's, with *gone* for one the sweeper forgot.
  Its age counts the limits it has passed: its ten minutes, the delivery
  grace, the retention.
* Each registry method sweeps under its lock before it does anything. Here
  `Sweep` is a step and the methods are enabled when there is nothing to
  sweep: the states methods see are the same, and the 5 s sweeper is the same
  action.
* `decide` is the handler around a transaction: BeginDecide, `Mint` (the
  commit of the device row), `FinishAllow` (the registry again), and
  `RevokeMinted` when the session is no longer there to take the token.
* SPAKE2 is a right or a wrong code; nobody has the right code before
  access_pair_begin answered. The throttle's arithmetic is left open: any
  failure may be the one that pauses the host, which burns every code.
* `Mishaps` is what may go wrong, `MaxMishaps` times: a transaction ("tx"), a
  dropped handler ("drop"), revoking ("revoke"), an answer on the network
  ("lost"), the daemon ("restart").

### AuditChain and AuditAlarm

* `log` is audit_events by seq. A hash is the number of its row: nothing but
  the chain computes one, so a row either stores the hash of its contents
  (`body`) or was altered. `Found`, `Unseen`, `Acked` and `Outstanding` are the
  walk of `verify`: gaps, altered rows, recorded breaks the walk itself cannot
  see (a lost tail), and what a reseal acknowledges.
* `mind` is the server's `Chain`: the head it knows, the break it is degraded
  by, `unrecorded`, and `reseal_checked`. `tx` is the append whose caller has
  its transaction open (one writer at a time, SQLite). auth_events.rs calls
  `committed` from SQLite's commit hook (`CommitHook`, told), after which the
  commit may still fail and be rolled back (the loss "hook"); other callers
  commit first, and `late` are the heads they have yet to call `committed` for.
* `Flush` may fail, which is logged and not tried again: the next append, flush
  or visit sees to what is `unrecorded`. A visit may end early with an error at
  any of its stages (`VisitFails`).
* `visit` is `verify_boot` or `reseal` on its way: flush, check the head, walk,
  adopt the verdict, record, reseal. Appends, commits, losses and the CLI step
  in between the walk and `VisitAdopts`, as they do in the code, where the walk
  holds no lock.
* The root CLI is a writer without a memory: it records what it walks and
  reseals the first break. With `CliRaces` it may do so during a visit.
* `Loses` is somebody else with the file: a tail, one row, or one row's
  contents. Row 1 is never lost or altered: without it, or with an empty table,
  the walk ends before it starts.
* `AuditAlarm` is what this is for: an alarm, raised when the server sees a
  break, that only a reseal, lost rows or a crash can end, and during which no
  access change is admitted. `RefusesWhileBroken` is `Alarm!Spec` under the
  mapping alarm <- `open # {}`, admitting <- the open transaction is an access
  change, trouble <- losses and crashes. `open`, the one variable the code does
  not have, is the breaks the server has seen that nobody has acknowledged
  with a row that still stands.

### HookAsks

* `gate` is a hook's request as Claude Code sees it; `held` is the table;
  `sent` the answer in a request's oneshot. Whoever takes the request out of
  `held` (Delivers, Expire, HangUp, Revoke) owns its end: an `ends` task flips
  the row, and the note is queued by it or, for a decision, by the decider.
* The flip of an ended ask's row may fail, which is only logged: the row then
  stays open, *left*, until the child's next life sweeps it.
* `WriteRow` is the row's own task, beside the request. `permission_decide` is
  Claim, Resolve and, if the request was gone, Unclaim; `term_hooks_decide` is
  AnswerRaw.
* `outbox` is the child's queue, which drops its oldest note when full. `Take`,
  `AppendNote`, `Acknowledge` are the broker's poll of it; `LoseBatch` a poll
  that fails after it took. A restart (`Stop`) loses held requests, tasks and
  outbox; the sweep of the next life closes what they left open as *unaudited*,
  an acknowledgment makes that *swept*, and the sweep after the next crash
  starts over with what is still unaudited.
* Requests held together are one terminal's. Which decider a policy lets decide
  is left open. The 8 s for which an end waits for its row's write (WRITE_WAIT)
  are taken to suffice, and the store sink of a single-user host, where a row
  and its note are one database, is left out.

### AskRelay

* The desktop: `hook` and `answer`, the row (`rows`), the task that writes and
  mirrors it (`rec`), the operator's decide (`host`), `pending()` (`mirrored`),
  the long poll (`loop`, `taken`, `applying`), reports to the daemon, the boot
  sweep.
* The daemon: its `mirror`, `pending` asks, `decided` (queued, then delivered
  by a take, audited or not), each remote client's permission_decide (`calls`),
  the ask's `timer`, and what the chain claims of remote decisions and has
  `retracted`.
* `Resolve` is relay_resolved: retract what was audited, then close.
  `HookEnds` ends the hook with an answer or the gate's denial; the row is
  flipped by a task of its own.
* `Faults` are what may be lost: the answer to a "put" or to a "take", whatever
  became of the ask, and a "report", of a decision that had no effect or of an
  ask that is over. `unheard` remembers the asks of which a decision or the
  report on it was lost, until a report takes it back. `DesktopRestarts` and
  `DaemonRestarts` lose what is in memory.
* Taken as given: finding and claiming a row is one step, closing and checking
  in Expire another step; the decisions of one poll are applied in any order;
  RELAY_ACK_GRACE outlasts what is on its way, which is `Forget`'s guard. What the host decides is audited when the daemon happens to answer,
  and is not followed. Asks beside the one modelled are `OtherPoll`.

## 3. Runs

| Run | Question | Instance | States |
|---|---|---|---|
| broker_liveness | does every revocation reach its socket in the end? | one session, one device, one socket, one handler, each epoch changes once, handlers dropped | 101 k |
| broker_handlers | does each handler reach exactly what it covers? | two sessions of one account, two sockets, one handler, failing reads | 846 k |
| socket_caps | is an open socket ever judged by a snapshot that no longer holds, and nobody about to close it? | one member with two devices, one socket, one handler and the sweeper, one change of a tier and of the policy, routing, membership and expiry changed at will, closes lost | 2.64 M |
| children_failures | do two children ever serve one database, or is the wrong one killed, when everything fails? | one principal, two process slots, two requests, all failures | 1.78 M |
| children_liveness | is every request answered, does disabling win, and does a replacement wait for the old child to be gone? | the same with nothing dropped, stuck or crashed | 57 k |
| kek_troubles | does a rotation survive crashes or failing stores, and does every run end when two go at once? | three stores, three keys; two crashes or two faults, each with overlap or without | 284 k |
| pair_liveness | one code, one slot, listed, settled? | two sessions on two slots, one beginner, one device, no mishaps | 289 k |
| pair_failures | can a grant be had without a code, or a session come back? | two devices, any one mishap | 291 k |
| audit_chain | does the server's alarm hold, and is each break that was found recorded in the end, and once? | two events, one loss of any kind or a commit that fails after its hook, one crash, failing flushes and visits, any number of visits and of rows they append | 204 k |
| hook_asks | is every end of an ask audited once, every swept row audited, every open row attended? | two asks, a table and an outbox of one, an allowing and a denying decider, two restarts, every loss, of a row's flip too | 2.14 M |
| ask_relay | does the chain claim what the hook was answered, and does the relay let go? | one ask among others, two remote clients and the operator, lost puts, takes and reports, a restart of each side | 104 k |
| audit_unnoticed | contradicts one sentence of the code's documentation, see below | two events, one loss of the tail | |

*Why the bounds suffice.* Each property relates one socket (child, store,
session) to one handler, loop or run; a second one is there where they
compete: two sockets for a close that must spare one, two process slots for
replaced and replacement (and reused slots stand for any number in turn), two
requests so that one reports late, two sessions for a second code. Epochs,
tiers and policies change once per credential in these runs because a socket
remembers one value and compares it for equality; a second change adds nothing
that a reused slot does not. Two devices in socket_caps are one that is routed
to and one that is not. Three stores is the least with one re-wrapped,
one half-way and one pending; two crashes allow one of the run and one of its
resumption, and three keys a next rotation. Two events and a recording let an
append fall before, into and after a visit, on either side of a lost row; a
second loss, with one event, leaves the invariants standing (1.87 M states) but
not the refinement: RefusesWhileBroken is a promise about one loss at a time,
and the disagreements say what two do. A table and an outbox of one are full at
once; two restarts are a sweep that is itself cut short. One ask suffices in
the relay, whose asks meet only in the poll, and `OtherPoll` is the poll of
the others; two clients race for it. Two asks there are more than TLC can do. The theorems below drop these bounds
for the properties they name.

*Deadlock* is checked but in the pairing runs, hook_asks and ask_relay, whose
sessions and asks are used once: the system stops when they are spent.

*Symmetry* is used in safety runs only.

### Fairness

* **BrokerSockets**: the loop's timer (`Tick`) and its pass; the steps of a
  handshake, whose awaits all have timeouts; the pump, which polls its close
  signal. Handlers past their commit run on unless dropped. No request has to
  arrive, and no read has to succeed where reads may fail.
* **BrokerChildren**: strong fairness for a request's steps, since tokio's
  mutex is first come, first served, and so for the loop's turn at a mutex;
  weak for the loop, for timeouts (READY_TIMEOUT, STOP_GRACE, KILL_WAIT) and
  for a child told to stop, killed or orphaned. Nothing makes a child finish
  booting: the request must be answered all the same. Nothing makes a child
  that listens answer either, and `send()` has no timeout for it: a request may
  wait for ever on one such child, which RequestAnswered names as its exception.
* **KekRotation**: a run goes on, and somebody starts the broker again.
  Crashes are bounded, so a run eventually ends.
* **AuditChain**: a caller ends its transaction, by a commit or not; a flush
  that is spawned again and again is made in the end (busy_timeout waits out the
  other writer, flush_lock is a fair mutex), though each may fail any number of
  times before; and while a break is unrecorded, clients go on asking for access
  changes and a visit that is under way goes on. That is what gives a break
  whose flush failed its next attempt. Nothing makes the server boot, a visit
  start or a caller say what it committed. audit_unnoticed adds all of that
  (`BusySpec`), which excludes the counterexample in which nobody asks.
* **AskRelay**: an ask's timer fires and ends what it began. Nothing makes
  anybody answer, poll or report.
* **HookAsks** states no liveness: what its ends owe is safety (`OpenIsAttended`
  names who will see to a row), and the broker's poll may fail for ever.
* **Pairing**: the 5 s sweeper, its flush, the passing of time, and a decide
  handler's own steps.

### Where the code and its documentation disagree

audit_unnoticed keeps one as a run. `reseal.rs:16` says "A T1 broker that is
`degraded` notices a root-CLI reseal on its next append". But
`recheck_after_reseal` looks at a reseal once (`reseal_checked`); if the server
still has a break to record it stays degraded, the flush records it, and no
later append looks again (`chain.rs:866`).

The others need no run of their own. Each is seen by changing the named
constant of the module's configuration and checking the property alone (in
Pairing with `MaxMishaps = 1`; the rows of KekRotation drop the condition on
`met` that the property makes). RevokedMeansDead, RoutingNeverStale,
OnlyRefusersAreKilled, OrphansNotice, OrphansLeave and NeverClaimsOther are
stated in their modules for this table and belong to no run, nor does
OneOpener, which children_liveness would only see broken together with
ReplacementNeverRaces; OrphansLeave holds.

| Module | Constants | Property | Code | Text |
|---|---|---|---|---|
| BrokerSockets | `ReadsMayFail = TRUE` | RevokedIsChased | `ws_registry.rs:378` | `ws_registry.rs:295`, `principal-contract.md:408` |
| BrokerSockets | `HandlersMayDrop = TRUE` | LogoutReachesItsSockets | `routes.rs:174` | `ws_registry.rs:10` |
| BrokerSockets | `MaxGrant = 1` | RevokedMeansDead | `rpc.rs:258` | `devices.rs:519`, `ws-close.ts:4` |
| SocketCaps | `Sessions = {s1}` | RoutingNeverStale | `routing.rs:318` | `t1.rs:489` |
| BrokerChildren | `HandlersMayDrop = TRUE` | ReplacementNeverRaces | `children.rs:194` | `children.rs:27` |
| BrokerChildren | `MayCrash = TRUE` | OrphansNotice | `principal_child.rs:82` | `server/mod.rs:1479` |
| BrokerChildren | `MayCrash = TRUE` | OneOpener | `server/mod.rs:1512` | `server/mod.rs:1510`, `principal-contract.md:403` |
| BrokerChildren | as in children_liveness | OnlyRefusersAreKilled | `proxy.rs:475`, `598` | `children.rs:184` |
| KekRotation | `Together` with a crash and a fault in one behaviour | NoStoreLost | `rotate_kek.rs:466` | `docs/rotate-secrets-kek.md:76`, `rotate_kek.rs:454` |
| KekRotation | two failing stores | RotationEnds | `rotate_kek.rs:468` | `docs/rotate-secrets-kek.md:76` |
| KekRotation | runs that overlap | NoStoreLost | `broker/mod.rs:410` | `docs/rotate-secrets-kek.md:34` |
| Pairing | `Mishaps = {"tx"}` | CodesAgree (AwaitingIsPending) | `pairing.rs:546` | `pairing.rs:559` |
| Pairing | `Mishaps = {"tx"}` | CodesAgree (OneCodePerBeginner) | `pairing.rs:475` | `pairing.rs:19` |
| Pairing | `Mishaps = {"drop"}` | GrantIsSettled | `pairing.rs:1438` | `pairing.rs:655` |
| Pairing | `Mishaps = {"revoke"}` | GrantIsSettled | `pairing.rs:1141` | `pairing.rs:61` |
| Pairing | `Mishaps = {"restart"}` | GrantIsSettled | `pairing.rs:229` | `pairing.rs:61` |
| AuditChain | `CliRaces = TRUE`, or `MaxLosses = 2` | RefusesWhileBroken | `chain.rs:717` | `chain.rs:710` |
| AskRelay | `Faults = {"report"}`, no restarts | NeverClaimsOther | `notifications/mod.rs:455`, `541` | `routing.rs:1465`, `notifications/mod.rs:453` |

In words, those the table is too narrow for, and what no property states:

* *Failed reads.* `last` is set before the pass; an unchanged data_version skips
  the next, so the socket waits for some other write.
* *Rotation.* A store re-wrapped just before a crash is still *pending* in the
  journal; if the resumed run fails to read it, roll_back skips it and wipes the
  only key it is under.
* *Children.* A child whose broker died drains and drops the data-dir lock; the
  sweep it detached (`server/mod.rs:1321`) still has the database open when the
  next broker's child takes the lock. And `is_connect()` is true of a connect
  timeout and of a local error too, so a child that listens is killed with all
  it serves (ws_proxy asks `is_refused`).
* *Audit.* A walk holds no lock, and adopting its verdict spares what is
  `unrecorded` only. A break that is in the chain already is noted without
  becoming unrecorded; if it appears behind the walk (the CLI records it, or a
  second loss undoes its reseal) and an append notes it before the verdict is
  adopted, the clean verdict clears it and access changes pass again, until
  the next verification. After two
  losses of the tail the newest reseal lies below `reseal_checked` and is never
  looked at. A `committed` that comes after a head break was noted makes a
  second break of the same kind. A break whose row is lost before it is
  recorded gets a recording that the walk ignores. Adopting may set the known
  head back.
* *Caps.* A password session's socket opened while any device may approve keeps
  *approve* in its snapshot after the account routes its asks to one device:
  that change closes devices' sockets only. No frame is judged by approve alone
  today. A change whose close is lost (a handler dropped after its commit, or
  `close_members` that cannot read the members, `policy.rs:434`) leaves the
  socket with the caps it had, and nothing closes it later but, for a tier, the
  re-check loop. A membership that runs out is noticed when `sweep_expired` next
  runs, and until then its sockets work on.
* *Hook asks.* A flip that fails (`hook_asks.rs:477`) leaves a row that looks
  pending with nobody attending to it until the child's next life; OpenIsAttended
  names it as its exception. An answer sent in the very poll in which the hold elapses, or
  just before the connection drops, counts as delivered although the gate
  denies (`hook_asks.rs:597`). A child that ends between claiming a row and
  resolving it leaves it attributed, with no answer and no audit row; so does a
  decider that claims a row of the last life before the sweep reads it. An
  answer by request id that a crash overtakes is audited both as decided and as
  ended by a restart: "exactly once" (`term_hooks.rs`) holds of each kind.
* *Relay.* A row written after a fast answer's flip stays open until the next
  boot, and its key stays in `pending()`, so that the poll runs on
  (`iyke/hooks.rs:237`); a dropped hook connection cancels its handler without
  either. `expire` asks what is undelivered and then retracts; a take and its
  application fit in between (`routing.rs:1439`). The daemon leaves after a
  minute without clients (`pty/daemon_client.rs:325`), before RELAY_ACK_GRACE
  (five) is over, and a report then finds nothing to retract. A desktop that
  ends between claiming its row and answering its hook is neither swept nor
  reported (`routing.rs:1462`). A report that a decision had no effect is sent once,
  its failure only logged, and none is sent when the desktop's database is gone
  (`mod.rs:433`); the answer to a take is not sent again either. The daemon then
  forgets the decision as delivered and the chain goes on claiming it.
  DecidedHappened and SweptIsRetracted except an ask that met such a loss and
  that no later report made good (`unheard`). `Relay::resolve` retracts and then closes: a decision
  queued in between, in a take whose answer is lost, stays claimed. The boot
  sweep's report is tried six times.

## 4. Theorems

All are for every value of the constants, under the ASSUMEs of the module and
what the table adds.

| Theorem | Says | Under | Argument |
|---|---|---|---|
| TypeCorrect | `[]TypeOK` of BrokerSockets | - | with the shape of a handler's call record as strengthening |
| ExactRegistry | `[]NoneSurvivesItsRevocation` | - | an entry opens only through Register, which consults the logged-out set and the floors; each close adds to those and closes in one step |
| Chased | `[]RevokedIsChased` | reads do not fail | a commit sets `dirty`; a pass starts with every open entry on its list; the check after registering covers the rest |
| RevokedIsTrue | `[]RevokedMeansInvalid` | - | `Revocations`: no key is ahead of its epochs (`KeysBehind`), no close ahead of its commit (`ClosesFollow`), and whoever was picked to be told is dead already (`PickedAreDead`); epochs only grow, so the dead stay dead |
| LogoutReaches | `[]LogoutReachesItsSockets` | handlers are not dropped | a handshake or socket of a session that is gone has a tombstone, or a handler on its way to leave one (`TombstonesReach`) |
| TypeCorrect (SocketCapsProofs) | `[]TypeOK` of SocketCaps | - | one lemma per group of actions |
| SnapshotsFresh | `[]SnapshotIsFresh` (it excepts a socket whose close was lost) | - | each part of a snapshot is fresh from the step that reads it on, the handshake included (`TiersFresh`, `SharesFresh`, `RoutingsFresh`), because the entry is registered by then and a close on its way stays so until it arrives (`PendingStays`); approve is given only under a tier that has it (`SeenIsTrue`) |
| ChildrenTypeCorrect | `[]TypeOK` of BrokerChildren | - | one lemma per group of actions |
| LockedOpener | `[]OneServesDb` | - | whoever has the database open holds the data-dir lock, or is past dropping it (`OpenerHoldsLock`) |
| NoRace | `ReplacementNeverRaces` | `Calm`: nothing dropped, crashed, stuck or shut down | every live process is in its slot, or with the one who holds that slot's mutex and is killing it (`Tracked`) |
| CalmSingleOpener | `[]OneOpener`, detached sweeps included | `Calm` | `Tracked`: one process of a principal lives at a time |
| DeservedKills | `ReplacementIsSpared` | - | invalidation names the endpoint it failed on, and a process slot is not reused while anyone remembers it; a request invalidates once, and the loop kills what it told to stop (`Refusal`) |
| KekTypeCorrect | `[]TypeOK` of KekRotation | - | it says that a run which re-wraps has loaded both keys, so it is its own strengthening |
| OneTroubleLosesNoStore | `[]NoStoreLost` | `Together` lets no crash and fault meet | `KekInv`: while `Single`, what the disk holds at each stage of the journal (`Disk`), what a run knows of it (`Known`), and that one run goes at a time |
| TheCurrentKeyOpensAll | `[]CurrentKeyOpensAll` | - (the property speaks of `Single`) | the same invariant: a run that is not in its swap leaves `secrets-kek` in place |
| CommitIsVerified | `CommittedKeyOpensAll` | - (the same) | the same invariant at SwapIn |
| PairTypeCorrect | `[]TypeOK` of Pairing | - | - |
| CreditIsEarned | `[]GrantNeedsCode` | - | whoever is past the exchange confirmed a right code (`Earned`), and a decide handler only exists for one who was |
| EndedIsEnded | `FinalStaysFinal` | - | each method's guard names a live state |
| GrantsAreChased | `[]GrantIsHeldOrChased` | the only mishaps are failing transactions | an unheld live row is with its session, its decide handler or a queue (`Chase`); a begin that has not answered has no right code out (`Untold`), so its failing takes no grant away |
| SlotsAgree | `[]OneSessionPerSlot`, the first conjunct of CodesAgree | - | a begin takes a slot and a place that nobody but the codes it cancels holds |
| CodesAreAgreed | `[]CodesAgree` | transactions do not fail | a code not used yet has not been acknowledged (`Unacknowledged`) |
| AuditTypeCorrect | `[]TypeOK` of AuditChain | - | rows are numbered below `stamp`; a reseal names an older row |
| FoundIsReported | `[]UnrecordedIsReported` | - | every operation on `mind` that leaves something unrecorded leaves it degraded, a verdict's adoption included |
| RecordedAtMostOnce | `[]RecordedOnce` | - | what an open transaction is about to record is recorded nowhere that links (`TxFresh`), because there is one writer at a time and each looks (`is_recorded`, the walk) before it writes |
| ChainRefusesWhileBroken | `RefusesWhileBroken`, that is `Alarm!Spec` | at most one loss of rows or commit that fails after its hook, and the CLI keeps out of a visit | `AlarmInv` below, and a step of AuditAlarm, or a stutter, for each step of AuditChain |
| AskTypeCorrect | `[]TypeOK` of HookAsks | - | one lemma per group of actions |
| OutcomesAreAuditedOnce | `[]AuditedOnce` | - | an ask still held has no note anywhere; taking it out makes at most one task or decider that owes one; notes move and are never copied (`Once`) |
| SweepsAreAudited | `[]SweptIsAudited` | - | what is to be acknowledged is on the chain (`AcksOnChain`) |
| OpenRowsAreAttended | `[]OpenIsAttended` | - | a row opens while its ask is held or ended by a task that waits for the row, whose flip may then fail (`Attention`; the property excepts it) |
| RelayTypeCorrect | `[]TypeOK` of AskRelay | - | with the shapes of calls, reports and `applying` (`Types`) |
| RowNamesTheAnswer | `[]RowIsTrue` | - | who holds a claim of an open row is the one who may answer its hook (`RowInv`) |
| ClaimedIsAnswered | `[]DecidedHappened` (it excepts what was lost and not made good) | - | `Core`, `UpInv` below |
| SweptIsTakenBack | `[]SweptIsRetracted` (the same) | - | `SweepInv` below |

Why the strengthenings are needed: few of these properties are inductive. For
NoStoreLost, say, a state where the journal says *finalizing* while a store
is still under the current key satisfies it, and the next `Wipe` loses that
store; `Disk` excludes the state. The conditions in "Under" are needed too:
the table of disagreements has behaviours of what is dropped, and
GrantIsHeldOrChased fails with each mishap but a failing transaction, an
answer lost on its way included.

For ClaimedIsAnswered, DecidedHappened says nothing until everything of an
ask has arrived, so the invariant has to account for what is under way. `Core`
holds until the daemon restarts: a mirror opens once, hence is claimed once,
hence at most one decision of an ask is queued, by the client the mirror names;
what is claimed on the chain is that decision, and it is audited when its call
ends. `UpInv` holds while both sides are up: a decision delivered and not
retracted is in `taken` or `applying`, or answered the hook, or is about to be
reported, or was lost, or the report on it was (`unheard`); one that was
forgotten answered the hook, or was lost. A later report of the same ask, if one
comes and arrives, takes the decision back and the ask out of `unheard`. For
SweptIsTakenBack, `SweepInv` follows one restart of the desktop: only asks that
were over are swept, a decision delivered for one is in hand, about to be
reported or lost, and one that was forgotten is of an ask the sweep leaves
alone, or was lost.

Overlapping runs of the rotation keep little: what they do to the stores is in
the table of disagreements, and kek_troubles shows what is left, that no run
re-wraps with a key it has not loaded, and that each of them ends.

ChainRefusesWhileBroken is a simulation: under the mapping of
`RefusesWhileBroken`, an access change inserted while nothing is open is
*Admit*, whatever makes the server see a break *Raise*, a commit or rollback
of an access change *Settle*, a reseal by either side *Reseal*, a loss or a
crash *Trouble*. What has to be shown is that `open` shrinks by nothing else,
and that no access change is admitted while it is not empty. `AlarmInv` has a
conjunct for each way in which that could fail: before the loss there is
nothing to see (`Pristine`, where MaxLosses <= 1 comes in: what is written
after the loss, or after the commit that failed, is not damaged); recordings link and reseals name hashes given
before them (`RowsHold`), so that a row written now neither acknowledges nor
unmakes an older break; a break to be recorded can still be recorded where it
counts (`BreaksHold`); `open` is exactly what stands of what the server knows
(`OpenStands`); an access change records nothing (`TxRecords`); a serving
server with a break open is degraded (`AlarmReported`); and a clean verdict that
waits to be adopted is still true of everything open (`VerdictHolds`, where
the CLI must keep out: what it records behind the walk would make it false).
TLC checked AlarmInv on the instance of audit_chain before it was proved.
The disagreements above say what the code does without the two hypotheses.

Of the assumptions on constants one carries weight: the ids of accounts and of
their credentials are disjoint (`CredsAssumption`; in the code they are values
of different types). A close by account and a close by device are told apart by
the id they carry, and RevokedIsTrue rests on that. What fails, crashes or is
dropped is left open in ExactRegistry, RevokedIsTrue, SlotsAgree,
LockedOpener, DeservedKills, RecordedAtMostOnce and every type invariant.

Model-checked only: the liveness properties (RevokedSocketCloses,
RequestAnswered, DisabledStops, RotationEnds, RunsEnd, SessionsEnd,
GrantIsSettled, BreaksAreRecorded, RelayLetsGo), since liveness under fairness
is beyond the prover; and audit_unnoticed, which is a counterexample.
Every invariant, action property and refinement that a passing run checks is
proved, under the conditions of the table. AskRelay's TypeOK, OneOpener and
OneSessionPerSlot are proved and belong to no run as they stand.

## 5. What the modules leave out

* BrokerSockets: rehash-on-login, sessions expiring by age, the pump's
  backpressure.
* SocketCaps: which capability a frame or a route needs; members of several
  projects; invites and shares before they are accepted; the owner's own
  sockets, whose caps no membership bounds.
* BrokerChildren: `running_endpoints` (a read of all slots), ports and the uid
  check of a socket, the environment and secrets handed to a child, the CLI's
  reaper. The moment between a child's start and its first look at its parent
  is part of `Boot`.
* KekRotation: the audit row, durability of directory entries, creating the
  first KEK, zeroing memory.
* Pairing: the key exchange itself, the throttle's arithmetic, the store_id
  pin, the push hook on a waiting request, audit rows, a forced logout of the
  deciding host.
* AuditChain: absorb.rs, the loss of the first row or of the whole table, a
  break of a link alone, the bytes that are hashed, paging and export.
* HookAsks: the policy over deciders, the store sink, re-wiring of a terminal,
  the give-up of a row's write after 8 s.
* AskRelay: plain notices with their list, read and snooze calls; the choice of
  devices a notice goes to; the audit of what the host decided or timed out.

## 6. Plan

Done, in order of importance: BrokerSockets, SocketCaps, BrokerChildren, KekRotation,
Pairing, then AuditChain with its abstract specification, HookAsks and
AskRelay, each with its theorems.

Next, in this order:

1. **Push**: lanes, pool and retries; the pump and its outbox. Abstract
   specification: a notice is taken by at most one poll and sent to devices
   entitled when sent. Hazards seen while reading: `entitled` is asked once,
   before the retries and the waits; a subscription stored after the logout
   that should have removed it; an update announcement whose key is written
   before it is emitted.
2. **DaemonSockets**: the T0 registry beside BrokerSockets. Both should
   implement one abstract registry (a socket, its credential, a close), by
   INSTANCE with a refinement mapping: T0 registers after authentication with
   no second look.
3. App lock, migration of secret stores, PTY attach.
4. Composition: HookAsks' outbox feeding AuditChain; an account's disabling, seen by sockets and children together,
   so that no request reaches a child once both loops have run.
5. Proofs: the refinements that 1 and 2 bring, and wider conditions where
   a theorem's are not yet the weakest.

The set of runs is kept to what checks in minutes: a new module takes one
passing run, and a disagreement that a constant shows stays in the table.
