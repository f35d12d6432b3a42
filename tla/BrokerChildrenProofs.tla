------------------------ MODULE BrokerChildrenProofs ------------------------
(***************************************************************************)
(* Theorems about BrokerChildren, for every set of principals, processes   *)
(* and requests.                                                           *)
(***************************************************************************)
EXTENDS BrokerChildren, TLAPS

USE DEF Alive, Reaped, account, children, request, looping, ending, system, Broker

-----------------------------------------------------------------------------
(* Type correctness.                                                       *)

LEMMA TypeInit == Init => TypeOK
BY NamesAssumption DEF Init, TypeOK, Holding

LEMMA RequestTypes ==
    ASSUME TypeOK, NEW r \in Requests,
           (\E p \in Principals : Request(r, p)) \/ RequestStep(r) \/ Drop(r)
    PROVE  TypeOK'
<1> USE DEF TypeOK, Holding, Waiting, Answer, GoTo
<1>1. ASSUME NEW p \in Principals, Request(r, p) PROVE TypeOK'
  BY <1>1 DEF Request
<1>2. CASE Found(r)
  BY <1>2 DEF Found
<1>3. CASE NotRunning(r)
  BY <1>3 DEF NotRunning
<1>4. CASE Launch(r)
  BY <1>4 DEF Launch
<1>5. CASE LaunchFails(r)
  BY <1>5 DEF LaunchFails
<1>6. CASE LaunchReady(r)
  BY <1>6 DEF LaunchReady
<1>7. CASE LaunchExited(r)
  BY <1>7 DEF LaunchExited
<1>8. CASE LaunchTimesOut(r)
  BY <1>8 DEF LaunchTimesOut
<1>9. CASE Aborted(r)
  BY <1>9 DEF Aborted
<1>10. CASE Served(r)
  BY <1>10 DEF Served
<1>11. CASE Refused(r)
  BY <1>11 DEF Refused
<1>12. CASE Invalidate(r)
  BY <1>12 DEF Invalidate, Kill
<1>13. CASE InvalidateStale(r)
  BY <1>13 DEF InvalidateStale
<1>14. CASE Killed(r)
  BY <1>14 DEF Killed
<1>15. CASE Drop(r)
  BY <1>15 DEF Drop
<1> QED
  BY <1>1, <1>2, <1>3, <1>4, <1>5, <1>6, <1>7, <1>8, <1>9, <1>10, <1>11, <1>12, <1>13, <1>14, <1>15 DEF RequestStep, SlotStep

LEMMA LoopTypes == ASSUME TypeOK, LoopStep PROVE TypeOK'
<1> USE DEF TypeOK, LoopNext
<1>1. CASE LoopTick
  BY <1>1 DEF LoopTick
<1>2. ASSUME NEW p \in Principals, LoopLook(p) PROVE TypeOK'
  BY <1>2 DEF LoopLook
<1>3. CASE LoopScanned
  BY <1>3 DEF LoopScanned
<1>4. ASSUME NEW p \in Principals, LoopSpare(p) PROVE TypeOK'
  BY <1>4 DEF LoopSpare
<1>5. ASSUME NEW p \in Principals, LoopCondemn(p) PROVE TypeOK'
  BY <1>5 DEF LoopCondemn
<1>6. CASE LoopStop
  BY <1>6 DEF LoopStop
<1>7. CASE LoopNothingToStop
  BY <1>7 DEF LoopNothingToStop
<1>8. CASE LoopGrace
  BY <1>8 DEF LoopGrace
<1>9. CASE LoopStopped
  BY <1>9 DEF LoopStopped
<1> QED
  BY <1>1, <1>2, <1>3, <1>4, <1>5, <1>6, <1>7, <1>8, <1>9 DEF LoopStep

LEMMA StopTypes == ASSUME TypeOK, StopStep PROVE TypeOK'
<1> USE DEF TypeOK
<1>1. CASE ShutDown
  BY <1>1, NamesAssumption DEF ShutDown
<1>2. ASSUME NEW p \in Principals, StopTake(p) PROVE TypeOK'
  BY <1>2, NamesAssumption DEF StopTake
<1>3. CASE StopSignal
  BY <1>3, NamesAssumption DEF StopSignal
<1>4. ASSUME NEW c \in Procs, StopGrace(c) PROVE TypeOK'
  BY <1>4, NamesAssumption DEF StopGrace
<1>5. CASE StopDone
  BY <1>5, NamesAssumption DEF StopDone, Forget, Holding
<1>6. CASE Crash
  BY <1>6, NamesAssumption DEF Crash, Forget, Holding
<1> QED
  BY <1>1, <1>2, <1>3, <1>4, <1>5, <1>6 DEF StopStep

LEMMA ProcTypes ==
    ASSUME TypeOK, NEW c \in Procs, ProcStep(c)
    PROVE  TypeOK'
<1> USE DEF TypeOK
<1>1. CASE Boot(c)
  BY <1>1, ChildOfAssumption DEF Boot
<1>2. ASSUME Gone(c), UNCHANGED Broker PROVE TypeOK'
  BY <1>2 DEF Gone
<1>3. CASE Drain(c)
  BY <1>3 DEF Drain
<1>4. CASE Unlock(c)
  BY <1>4 DEF Unlock
<1> QED
  BY <1>1, <1>2, <1>3, <1>4 DEF ProcStep, BootRefused, Exit

LEMMA TypeStep == ASSUME TypeOK, [Next]_vars PROVE TypeOK'
<1>1. ASSUME NEW p \in Principals, Disable(p) \/ Enable(p) PROVE TypeOK'
  BY <1>1 DEF Disable, Enable, TypeOK
<1>2. CASE UNCHANGED vars
  BY <1>2 DEF vars, TypeOK
<1> QED
  BY <1>1, <1>2, RequestTypes, LoopTypes, StopTypes, ProcTypes DEF Next

(* Every variable keeps its type.                                          *)
THEOREM ChildrenTypeCorrect == Spec => []TypeOK
BY TypeInit, TypeStep, PTL DEF Spec

-----------------------------------------------------------------------------
(* One process that serves has ikenga.db open: it holds the lock, and any  *)
(* other that has it open is past drop(mode.lock).                         *)

OpenerHoldsLock ==
    /\ flock \in [Principals -> Procs \cup {None}]
    /\ dbOpen \subseteq Procs
    /\ \A c \in dbOpen :
         \/ proc[c] = "unlocked"
         \/ proc[c] \in {"up", "drain"} /\ flock[ChildOf[c]] = c

LEMMA LockInit == Init => OpenerHoldsLock
BY DEF Init, OpenerHoldsLock

LEMMA LockStep ==
    ASSUME TypeOK, OpenerHoldsLock, [Next]_vars
    PROVE  OpenerHoldsLock'
<1> USE ChildOfAssumption, NamesAssumption
<1> DEFINE Same == UNCHANGED <<flock, dbOpen, proc>>
<1>0. Same => OpenerHoldsLock'
  BY DEF OpenerHoldsLock
<1>1. ASSUME NEW r \in Requests, (\E p \in Principals : Request(r, p)) \/ RequestStep(r) \/ Drop(r)
      PROVE  OpenerHoldsLock'
  <2>1. Launch(r) \/ Same
    BY <1>1 DEF Request, RequestStep, SlotStep, Drop, Found, NotRunning,
     LaunchFails, LaunchReady, LaunchExited, LaunchTimesOut, Aborted, Served,
     Refused, Invalidate, Kill, InvalidateStale, Killed
  <2>2. CASE Launch(r)
    BY <2>2 DEF Launch, Unused, OpenerHoldsLock, TypeOK
  <2> QED  BY <1>0, <2>1, <2>2
<1>2. ASSUME NEW p \in Principals, Disable(p) \/ Enable(p)
      PROVE  OpenerHoldsLock'
  BY <1>0, <1>2 DEF Disable, Enable
<1>3. CASE LoopStep
  <2>1. Same
    BY <1>3 DEF LoopStep, LoopTick, LoopLook, LoopScanned, LoopSpare,
       LoopCondemn, LoopStop, LoopNothingToStop, LoopGrace, LoopStopped
  <2> QED  BY <1>0, <2>1
<1>4. CASE StopStep
  <2>1. Same
    BY <1>4 DEF StopStep, ShutDown, StopTake, StopSignal, StopGrace,
       StopDone, Crash, Forget
  <2> QED  BY <1>0, <2>1
<1>5. ASSUME NEW c \in Procs, ProcStep(c)
      PROVE  OpenerHoldsLock'
  <2>1. CASE Boot(c)
    BY <2>1 DEF Boot, OpenerHoldsLock, TypeOK
  <2>2. ASSUME Gone(c)
        PROVE  OpenerHoldsLock'
    BY <2>2 DEF Gone, OpenerHoldsLock, TypeOK
  <2>3. CASE Drain(c)
    BY <2>3 DEF Drain, OpenerHoldsLock, TypeOK
  <2>4. CASE Unlock(c)
    BY <2>4 DEF Unlock, OpenerHoldsLock, TypeOK
  <2> QED
    BY <1>5, <2>1, <2>2, <2>3, <2>4 DEF ProcStep, BootRefused, Exit
<1>6. CASE UNCHANGED vars
  BY <1>0, <1>6 DEF vars
<1> QED
  BY <1>1, <1>2, <1>3, <1>4, <1>5, <1>6 DEF Next

(* Whatever dies, is dropped or is stopped, and though a sweep may go on   *)
(* after drop(mode.lock), at most one of a principal's children that       *)
(* serves or drains has its ikenga.db open.                                *)
THEOREM LockedOpener == Spec => []OneServesDb
<1>1. OpenerHoldsLock => OneServesDb
  BY DEF OpenerHoldsLock, OneServesDb
<1> QED
  BY <1>1, TypeInit, TypeStep, LockInit, LockStep, PTL DEF Spec

-----------------------------------------------------------------------------
(* No launch races a dying child, as long as no request is dropped, every  *)
(* kill is waited out and the broker lives.  Every process that is alive   *)
(* is in its principal's slot, or in the hands of whoever holds the slot's *)
(* mutex; and a slot whose mutex is held is empty.                         *)

Stopping == lat \in {"draining", "killing"}

Known(c) ==
    \/ slot[ChildOf[c]] = c
    \/ Stopping /\ victim = c
    \/ \E r \in Requests : at[r] \in Holding /\ via[r] = c

Tracked ==
    /\ TypeOK
    /\ phase = "serving"
    /\ \A p \in Principals :
         slot[p] # None => ChildOf[slot[p]] = p /\ busy[p] = NoLock
    /\ \A r \in Requests :
         at[r] \in Holding => busy[for[r]] = r /\ ChildOf[via[r]] = for[r]
    /\ Stopping => busy[stopping] = Loop /\ ChildOf[victim] = stopping
    /\ \A c \in Procs : Alive(c) => Known(c)

Calm == ~HandlersMayDrop /\ ~KillsMayStick /\ ~MayCrash /\ ~MayShutDown

LEMMA TrackedInit == Init => Tracked
BY TypeInit DEF Init, Tracked, Known, Holding, Stopping

LEMMA RequestTracked ==
    ASSUME Calm, Tracked, TypeOK', NEW r \in Requests,
           (\E p \in Principals : Request(r, p)) \/ RequestStep(r) \/ Drop(r)
    PROVE  Tracked'
<1> USE NamesAssumption, ChildOfAssumption
    DEF Tracked, TypeOK, Known, Stopping, Holding, Waiting, Answer, GoTo
<1>1. ASSUME NEW p \in Principals, Request(r, p) PROVE Tracked'
  BY <1>1 DEF Request
<1>2. CASE Found(r)
  BY <1>2 DEF Found
<1>3. CASE NotRunning(r)
  BY <1>3 DEF NotRunning
<1>4. CASE Launch(r)
  BY <1>4 DEF Launch
<1>5. CASE LaunchFails(r)
  BY <1>5 DEF LaunchFails
<1>6. CASE LaunchReady(r)
  BY <1>6 DEF LaunchReady
<1>7. CASE LaunchExited(r)
  BY <1>7 DEF LaunchExited
<1>8. CASE LaunchTimesOut(r)
  BY <1>8 DEF LaunchTimesOut
<1>9. CASE Aborted(r)
  BY <1>9 DEF Aborted, Calm
<1>10. CASE Served(r)
  BY <1>10 DEF Served
<1>11. CASE Refused(r)
  BY <1>11 DEF Refused
<1>12. CASE Invalidate(r)
  BY <1>12 DEF Invalidate, Kill
<1>13. CASE InvalidateStale(r)
  BY <1>13 DEF InvalidateStale
<1>14. CASE Killed(r)
  BY <1>14 DEF Killed, Calm
<1>15. ~Drop(r)
  BY DEF Drop, Calm
<1> QED
  BY <1>1, <1>2, <1>3, <1>4, <1>5, <1>6, <1>7, <1>8, <1>9, <1>10, <1>11, <1>12, <1>13, <1>14, <1>15 DEF RequestStep, SlotStep

LEMMA LoopTracked ==
    ASSUME Calm, Tracked, TypeOK', LoopStep
    PROVE  Tracked'
<1> USE NamesAssumption, ChildOfAssumption
    DEF Tracked, TypeOK, Known, Stopping, LoopNext, Holding
<1>1. CASE LoopTick
  BY <1>1 DEF LoopTick
<1>2. ASSUME NEW p \in Principals, LoopLook(p) PROVE Tracked'
  BY <1>2 DEF LoopLook
<1>3. CASE LoopScanned
  BY <1>3 DEF LoopScanned
<1>4. ASSUME NEW p \in Principals, LoopSpare(p) PROVE Tracked'
  BY <1>4 DEF LoopSpare
<1>5. ASSUME NEW p \in Principals, LoopCondemn(p) PROVE Tracked'
  BY <1>5 DEF LoopCondemn
<1>6. CASE LoopStop
  BY <1>6 DEF LoopStop
<1>7. CASE LoopNothingToStop
  BY <1>7 DEF LoopNothingToStop
<1>8. CASE LoopGrace
  BY <1>8 DEF LoopGrace
<1>9. CASE LoopStopped
  BY <1>9 DEF LoopStopped, Calm
<1> QED
  BY <1>1, <1>2, <1>3, <1>4, <1>5, <1>6, <1>7, <1>8, <1>9 DEF LoopStep

LEMMA TrackedStep ==
    ASSUME Calm, Tracked, [Next]_vars
    PROVE  Tracked'
<1>0. TypeOK'
  BY TypeStep DEF Tracked
<1>1. ASSUME NEW p \in Principals, Disable(p) \/ Enable(p) PROVE Tracked'
  BY <1>0, <1>1 DEF Disable, Enable, Tracked, Known, Stopping
<1>2. ~StopStep
  BY DEF StopStep, ShutDown, StopTake, StopSignal, StopGrace, StopDone, Crash,
         Calm, Tracked
<1>3. ASSUME NEW c \in Procs, ProcStep(c) PROVE Tracked'
  <2>1. \A d \in Procs : Alive(d)' => Alive(d)
    BY <1>3 DEF ProcStep, Boot, BootRefused, Drain, Unlock, Exit, Gone,
                Tracked, TypeOK
  <2>2. UNCHANGED Broker
    BY <1>3 DEF ProcStep, Boot, BootRefused, Drain, Unlock, Exit
  <2> QED
    BY <1>0, <2>1, <2>2 DEF Tracked, Known, Stopping
<1>4. CASE UNCHANGED vars
  BY <1>0, <1>4 DEF vars, Tracked, Known, Stopping
<1> QED
  BY <1>0, <1>1, <1>2, <1>3, <1>4, RequestTracked, LoopTracked DEF Next

LEMMA LaunchIsAlone ==
    ASSUME Tracked, [Next]_vars,
           NEW c \in Procs, ~Alive(c), proc'[c] = "boot",
           NEW d \in Procs, ChildOf[d] = ChildOf[c]
    PROVE  ~Alive(d)
<1>1. PICK r \in Requests : Launch(r)
  <2>1. (\E r \in Requests : Launch(r)) \/ UNCHANGED proc
        \/ \E e \in Procs : ProcStep(e)
    BY DEF Next, vars, RequestStep, SlotStep, Request, Found, NotRunning, LaunchFails,
       LaunchReady, LaunchExited, LaunchTimesOut, Aborted, Served, Refused,
       Invalidate, Kill, InvalidateStale, Killed, Drop, Disable, Enable,
       LoopStep, LoopTick, LoopLook, LoopScanned, LoopSpare, LoopCondemn,
       LoopStop, LoopNothingToStop, LoopGrace, LoopStopped,
       StopStep, ShutDown, StopTake, StopSignal, StopGrace, StopDone, Crash, Forget
  <2>2. ASSUME NEW e \in Procs, ProcStep(e) PROVE proc'[c] # "boot"
    BY <2>2 DEF ProcStep, Boot, BootRefused, Drain, Unlock, Exit, Gone,
                Tracked, TypeOK
  <2> QED  BY <2>1, <2>2
<1>2. ChildOf[c] = for[r] /\ busy[for[r]] = NoLock
      /\ (slot[for[r]] # None => ~Alive(slot[for[r]]))
  BY <1>1 DEF Launch, GoTo, Tracked, TypeOK
<1>3. ~Known(d) \/ ~Alive(d)
  BY <1>2, NamesAssumption DEF Known, Tracked, TypeOK, Stopping
<1> QED
  BY <1>3 DEF Tracked

(* With every request, kill and broker run to its end, a replacement never *)
(* races the child it replaces for the data-dir lock.                      *)
THEOREM NoRace == ASSUME Calm PROVE Spec => ReplacementNeverRaces
<1>1. Tracked /\ [Next]_vars =>
        [\A c \in Procs : ~Alive(c) /\ proc'[c] = "boot"
           => \A d \in Procs : ChildOf[d] = ChildOf[c] => ~Alive(d)]_vars
  BY LaunchIsAlone
<1> QED
  BY <1>1, TrackedInit, TrackedStep, PTL DEF Spec, ReplacementNeverRaces

(* One process lives at a time, so that I-3 holds in full.                 *)
LEMMA AliveIsAlone ==
    ASSUME Tracked, NEW c \in Procs, NEW d \in Procs,
           ChildOf[c] = ChildOf[d], Alive(c), Alive(d)
    PROVE  c = d
<1> USE NamesAssumption, ChildOfAssumption
<1>1. Known(c) /\ Known(d)
  BY DEF Tracked
<1>2. CASE slot[ChildOf[c]] = c
  <2>1. busy[ChildOf[c]] = NoLock
    BY <1>2 DEF Tracked
  <2>2. slot[ChildOf[d]] = d
    BY <1>1, <2>1 DEF Known, Tracked, TypeOK, Stopping
  <2> QED  BY <1>2, <2>2
<1>3. CASE Stopping /\ victim = c
  <2>1. busy[ChildOf[c]] = Loop
    BY <1>3 DEF Tracked
  <2>2. Stopping /\ victim = d
    BY <1>1, <2>1 DEF Known, Tracked, TypeOK
  <2> QED  BY <1>3, <2>2
<1>4. ASSUME NEW r \in Requests, at[r] \in Holding, via[r] = c PROVE c = d
  <2>1. busy[ChildOf[c]] = r
    BY <1>4 DEF Tracked
  <2>2. PICK q \in Requests : at[q] \in Holding /\ via[q] = d
    BY <1>1, <2>1 DEF Known, Tracked, TypeOK
  <2>3. busy[ChildOf[d]] = q
    BY <2>2 DEF Tracked
  <2> QED  BY <1>4, <2>1, <2>2, <2>3
<1> QED
  BY <1>1, <1>2, <1>3, <1>4 DEF Known

(* With every request, kill and broker run to its end, no two processes of *)
(* a principal ever have its ikenga.db open (I-3), sweeps included.        *)
THEOREM CalmSingleOpener == ASSUME Calm PROVE Spec => []OneOpener
<1>1. Tracked /\ OpenerHoldsLock => OneOpener
  BY AliveIsAlone DEF OpenerHoldsLock, OneOpener
<1>2. Tracked => TypeOK
  BY DEF Tracked
<1> QED
  BY <1>1, <1>2, LockInit, LockStep, TrackedInit, TrackedStep, PTL DEF Spec

-----------------------------------------------------------------------------
(* A request kills nothing but what it could not reach.  The loop kills    *)
(* what it told to stop, and a request invalidates once.                   *)

Refusal ==
    /\ TypeOK
    /\ \A r \in again : at[r] # "invalidate"
    /\ Stopping => victim \in termed \/ ~Alive(victim)

LEMMA RefusalInit == Init => Refusal
BY TypeInit DEF Init, Refusal, Stopping

LEMMA RequestRefusal ==
    ASSUME Refusal, TypeOK', NEW r \in Requests,
           (\E p \in Principals : Request(r, p)) \/ RequestStep(r) \/ Drop(r)
    PROVE  Refusal'
<1> USE NamesAssumption DEF Refusal, TypeOK, Stopping, Holding, Waiting, Answer, GoTo
<1>1. ASSUME NEW p \in Principals, Request(r, p) PROVE Refusal'
  BY <1>1 DEF Request
<1>2. CASE Found(r)
  BY <1>2 DEF Found
<1>3. CASE NotRunning(r)
  BY <1>3 DEF NotRunning
<1>4. CASE Launch(r)
  BY <1>4 DEF Launch, Unused
<1>5. CASE LaunchFails(r)
  BY <1>5 DEF LaunchFails
<1>6. CASE LaunchReady(r)
  BY <1>6 DEF LaunchReady
<1>7. CASE LaunchExited(r)
  BY <1>7 DEF LaunchExited
<1>8. CASE LaunchTimesOut(r)
  BY <1>8 DEF LaunchTimesOut
<1>9. CASE Aborted(r)
  BY <1>9 DEF Aborted
<1>10. CASE Served(r)
  BY <1>10 DEF Served
<1>11. CASE Refused(r)
  BY <1>11 DEF Refused
<1>12. CASE Invalidate(r)
  BY <1>12 DEF Invalidate, Kill
<1>13. CASE InvalidateStale(r)
  BY <1>13 DEF InvalidateStale
<1>14. CASE Killed(r)
  BY <1>14 DEF Killed
<1>15. CASE Drop(r)
  BY <1>15 DEF Drop
<1> QED
  BY <1>1, <1>2, <1>3, <1>4, <1>5, <1>6, <1>7, <1>8, <1>9, <1>10, <1>11, <1>12, <1>13, <1>14, <1>15 DEF RequestStep, SlotStep

LEMMA LoopRefusal == ASSUME Refusal, TypeOK', LoopStep PROVE Refusal'
<1> USE NamesAssumption DEF Refusal, TypeOK, Stopping, LoopNext
<1>1. CASE LoopTick
  BY <1>1 DEF LoopTick
<1>2. ASSUME NEW p \in Principals, LoopLook(p) PROVE Refusal'
  BY <1>2 DEF LoopLook
<1>3. CASE LoopScanned
  BY <1>3 DEF LoopScanned
<1>4. ASSUME NEW p \in Principals, LoopSpare(p) PROVE Refusal'
  BY <1>4 DEF LoopSpare
<1>5. ASSUME NEW p \in Principals, LoopCondemn(p) PROVE Refusal'
  BY <1>5 DEF LoopCondemn
<1>6. CASE LoopStop
  BY <1>6 DEF LoopStop
<1>7. CASE LoopNothingToStop
  BY <1>7 DEF LoopNothingToStop
<1>8. CASE LoopGrace
  BY <1>8 DEF LoopGrace
<1>9. CASE LoopStopped
  BY <1>9 DEF LoopStopped
<1> QED
  BY <1>1, <1>2, <1>3, <1>4, <1>5, <1>6, <1>7, <1>8, <1>9 DEF LoopStep

LEMMA StopRefusal == ASSUME Refusal, TypeOK', StopStep PROVE Refusal'
<1> USE NamesAssumption DEF Refusal, TypeOK, Stopping
<1>1. CASE ShutDown
  BY <1>1 DEF ShutDown
<1>2. ASSUME NEW p \in Principals, StopTake(p) PROVE Refusal'
  BY <1>2 DEF StopTake
<1>3. CASE StopSignal
  BY <1>3 DEF StopSignal
<1>4. ASSUME NEW c \in Procs, StopGrace(c) PROVE Refusal'
  BY <1>4 DEF StopGrace
<1>5. ASSUME Forget PROVE Refusal'
  BY <1>5 DEF Forget
<1> QED
  BY <1>1, <1>2, <1>3, <1>4, <1>5 DEF StopStep, StopDone, Crash

LEMMA ProcRefusal ==
    ASSUME Refusal, TypeOK', NEW c \in Procs, ProcStep(c)
    PROVE  Refusal'
<1> USE NamesAssumption DEF Refusal, TypeOK, Stopping, Holding
<1>1. CASE Boot(c)
  BY <1>1 DEF Boot
<1>2. ASSUME Gone(c), UNCHANGED Broker PROVE Refusal'
  BY <1>2 DEF Gone
<1>3. CASE Drain(c)
  BY <1>3 DEF Drain
<1>4. CASE Unlock(c)
  BY <1>4 DEF Unlock
<1> QED
  BY <1>1, <1>2, <1>3, <1>4 DEF ProcStep, BootRefused, Exit

LEMMA RefusalStep == ASSUME Refusal, [Next]_vars PROVE Refusal'
<1>0. TypeOK'
  BY TypeStep DEF Refusal
<1>1. ASSUME NEW p \in Principals, Disable(p) \/ Enable(p) PROVE Refusal'
  BY <1>0, <1>1 DEF Disable, Enable, Refusal, Stopping
<1>2. CASE UNCHANGED vars
  BY <1>0, <1>2 DEF vars, Refusal, Stopping
<1> QED
  BY <1>0, <1>1, <1>2, RequestRefusal, LoopRefusal, StopRefusal, ProcRefusal
  DEF Next

LEMMA KillIsDeserved ==
    ASSUME Refusal, [Next]_vars, NEW c \in killed' \ killed
    PROVE  \/ EndsIt(c)
           \/ \E r \in Requests \ again : at[r] = "invalidate" /\ via[r] = c
<1> USE NamesAssumption DEF Refusal, TypeOK, EndsIt
<1>1. ASSUME NEW r \in Requests, LaunchTimesOut(r) \/ Drop(r)
      PROVE  EndsIt(c)
  BY <1>1 DEF LaunchTimesOut, Drop
<1>2. ASSUME NEW r \in Requests, Invalidate(r)
      PROVE  r \notin again /\ at[r] = "invalidate" /\ via[r] = c
  BY <1>2 DEF Invalidate, Kill
<1>3. CASE LoopGrace
  BY <1>3 DEF LoopGrace, Stopping
<1>4. CASE StopDone \/ \E d \in Procs : StopGrace(d)
  BY <1>4 DEF StopDone, StopGrace
<1>5. \/ UNCHANGED killed \/ LoopGrace
      \/ StopDone \/ (\E d \in Procs : StopGrace(d) \/ ProcStep(d))
      \/ \E r \in Requests : LaunchTimesOut(r) \/ Drop(r) \/ Invalidate(r)
  BY DEF Next, vars, RequestStep, SlotStep, Request, Found, NotRunning, Launch,
     LaunchFails, LaunchReady, LaunchExited, Aborted, Served, Refused,
     InvalidateStale, Killed, Disable, Enable, LoopStep, LoopTick, LoopLook,
     LoopScanned, LoopSpare, LoopCondemn, LoopStop, LoopNothingToStop,
     LoopStopped, StopStep, ShutDown, StopTake, StopSignal, Crash
<1>6. ASSUME NEW d \in Procs, ProcStep(d) PROVE FALSE
  BY <1>6 DEF ProcStep, Boot, BootRefused, Drain, Unlock, Exit, Gone
<1> QED
  BY <1>1, <1>2, <1>3, <1>4, <1>5, <1>6

(* A late invalidation never kills the child that replaced the one its     *)
(* request could not reach, and no request kills two, whatever is dropped, *)
(* stuck or restarted.                                                     *)
THEOREM DeservedKills == Spec => ReplacementIsSpared
<1>1. Refusal /\ [Next]_vars =>
        [\A c \in killed' \ killed :
           \/ EndsIt(c)
           \/ \E r \in Requests \ again : at[r] = "invalidate" /\ via[r] = c]_vars
  BY KillIsDeserved
<1> QED
  BY <1>1, RefusalInit, RefusalStep, PTL DEF Spec, ReplacementIsSpared
=============================================================================
