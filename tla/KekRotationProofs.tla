------------------------- MODULE KekRotationProofs -------------------------
(***************************************************************************)
(* KekRotation's safety for any number of stores, keys, crashes and faults *)
(* as long as one run goes at a time, and its crashes or its faults are    *)
(* all it meets.                                                           *)
(***************************************************************************)
EXTENDS KekRotation, TLAPS

USE DEF files, run, count, bound, Idle, GoTo, Remember, Exits, Fails, Journal, Keys, KeyFile,
        Starts, StoreFault, Meets

Under(key) == key # None /\ \A p \in Stores : env[p] = key

Stage(s) == journal # None /\ journal.stage = s

(* What the disk holds at each stage of the journal.  Only a crash between *)
(* a store's move and the journal's leaves a pending store moved; only a   *)
(* roll_back that failed leaves a completed one behind.                    *)
Disk ==
    /\ journal = None => Under(kek)
    /\ Stage("rewrapping") =>
         /\ kek # None /\ next # None
         /\ \A p \in Stores : env[p] \in {kek, next}
         /\ "fault" \notin met => \A p \in journal.completed : env[p] = next
         /\ "crash" \notin met /\ (\A r \in Runners : at[r] # "note")
            => \A p \in journal.pending : env[p] = kek
         /\ journal.pending \cup journal.completed = Stores
    /\ Stage("verifying") =>
         /\ kek # None /\ next # None
         /\ \A p \in Stores : env[p] \in {kek, next}
         /\ "fault" \notin met => Under(next)
         /\ journal.completed = Stores
    /\ Stage("finalizing") => IF next # None THEN Under(next) ELSE Under(kek)

(* What the run knows of it.                                               *)
Known(r) ==
    /\ at[r] \in {"mint", "begin"} => journal = None
    /\ at[r] = "begin" => next # None
    /\ at[r] \in {"rewrapping", "rewrap", "note", "back"} => Stage("rewrapping")
    /\ at[r] \in {"rewrapping", "rewrap", "back", "verifying"} => mem[r] = journal
    /\ at[r] \in {"rewrap", "note", "back"} => cur[r] = kek /\ new[r] = next
    /\ at[r] = "note" =>
         /\ "fault" \notin met => \A p \in mem[r].completed : env[p] = next
         /\ "crash" \notin met => \A p \in mem[r].pending : env[p] = kek
         /\ mem[r].stage = "rewrapping"
         /\ mem[r].pending \cup mem[r].completed = Stores
    /\ at[r] = "back" => \A p \in journal.completed \ back[r] : env[p] = kek
    /\ at[r] = "wipeNext" => journal = None
    /\ at[r] \in {"back", "wipeNext"} => "fault" \in met
    /\ at[r] = "verifying" => Stage("verifying")
    /\ at[r] \in {"finalizing", "swapOut", "swapIn", "wipe", "clean"} => Stage("finalizing")
    /\ at[r] \in {"swapOut", "swapIn"} => next # None
    /\ at[r] \in {"wipe", "clean"} => next = None
    /\ at[r] # "forget"

IInv ==
    /\ TypeOK
    /\ Disk
    /\ \A r \in Runners : Known(r)
    /\ \A r, s \in Runners : ~Idle(r) /\ ~Idle(s) => r = s
    /\ server = "up" => Alone /\ journal = None

KekInv == TypeOK /\ (Single => IInv)

LEMMA KekInit == Init => IInv
BY NoneAssumption, BoundsAssumption
DEF Init, IInv, TypeOK, Loaded, Disk, Known, Alone, Under, Stage, Journals, NoJournal, Stages

(* A step of one run: the others are idle, so only its own knowledge and   *)
(* the disk are to be shown.                                               *)
LEMMA Others ==
    ASSUME IInv, NEW r \in Runners, ~Idle(r) \/ Alone,
           \A s \in Runners \ {r} : at'[s] = at[s],
           TypeOK', Disk', Known(r)', server' = "up" => Alone' /\ journal' = None
    PROVE  IInv'
<1>1. \A s \in Runners \ {r} : at'[s] = "idle"
  BY DEF IInv, Alone
<1>2. \A s \in Runners : Known(s)'
  BY <1>1 DEF Known
<1> QED
  BY <1>1, <1>2 DEF IInv

LEMMA ResumeTypes ==
    ASSUME TypeOK, NEW r \in Runners, Resume(r), server' \in {"down", "booting", "up"},
           met' \in Together
    PROVE  TypeOK'
<1> USE DEF TypeOK, Loaded, Stages, Journals
<1>1. journal \in Journals
  BY DEF Resume
<1>2. journal.stage \in {"rewrapping", "verifying", "finalizing"}
  BY <1>1
<1>3. at' \in [Runners -> Stages] /\ mem' \in [Runners -> Journals]
  BY <1>1, <1>2 DEF Resume
<1>4. UNCHANGED <<kek, next, old, journal, env, cur, new, back, minted, crashes, faults>>
  BY DEF Resume
<1>5. Loaded'
  BY <1>2, <1>4 DEF Resume
<1> QED
  BY <1>3, <1>4, <1>5

(* Trouble once met is not forgotten.                                      *)
LEMMA MetGrows ==
    ASSUME met \in Together, [Next]_vars
    PROVE  met' \in Together /\ met \subseteq met'
<1>1. UNCHANGED met \/ \E t \in {"crash", "fault", "overlap"} : Meets(t)
  <2> HIDE DEF Meets
  <2>1. ASSUME NEW r \in Runners, CliStart(r) \/ Crash(r)
        PROVE  UNCHANGED met \/ Meets("overlap") \/ Meets("crash")
    BY <2>1 DEF CliStart, Crash
  <2>2. ASSUME NEW r \in Runners, RunStep(r) PROVE UNCHANGED met \/ Meets("fault")
    BY <2>2 DEF RunStep, Mint, Begin, LoadKeys, NoKeys, Note, Rewrapped, BackDone, WipeNext,
                Verify, VerifyFails, CheckSwap, SwapOut, SwapIn, SwapFails, Wipe, Clean,
                RewrapOne, RewrapFails, BackOne, BackFails
  <2>3. CASE BootResumes \/ BootServes \/ ServerStops \/ UNCHANGED vars
    BY <2>3 DEF BootResumes, BootServes, ServerStops, vars
  <2> QED
    BY <2>1, <2>2, <2>3 DEF Next
<1> QED
  BY <1>1

LEMMA KekTypes == ASSUME TypeOK, [Next]_vars PROVE TypeOK'
<1> USE NoneAssumption, BoundsAssumption DEF TypeOK, Loaded, Stages, Journals
<1>0. met' \in Together
  BY MetGrows
<1> HIDE DEF Meets, Starts
<1>1. ASSUME NEW r \in Runners, CliStart(r) PROVE TypeOK'
  <2>1. CASE Resume(r)
    BY <1>0, <1>1, <2>1, ResumeTypes DEF CliStart
  <2>2. CASE ~Resume(r)
    BY <1>0, <1>1, <2>2 DEF CliStart
  <2> QED
    BY <2>1, <2>2
<1>2. ASSUME NEW r \in Runners, RunStep(r) PROVE TypeOK'
  <2> USE DEF NoJournal
  <2>1. CASE Mint(r)
    BY <1>0, <2>1 DEF Mint
  <2>2. CASE Begin(r)
    BY <1>0, <2>2 DEF Begin
  <2>3. CASE LoadKeys(r)
    BY <1>0, <2>3 DEF LoadKeys
  <2>4. CASE NoKeys(r)
    BY <1>0, <2>4 DEF NoKeys
  <2>5. CASE Note(r)
    BY <1>0, <2>5 DEF Note
  <2>6. CASE Rewrapped(r)
    BY <1>0, <2>6 DEF Rewrapped
  <2>7. CASE BackDone(r)
    BY <1>0, <2>7 DEF BackDone
  <2>8. CASE WipeNext(r)
    BY <1>0, <2>8 DEF WipeNext
  <2>9. CASE Verify(r)
    BY <1>0, <2>9 DEF Verify
  <2>10. CASE VerifyFails(r)
    BY <1>0, <2>10 DEF VerifyFails
  <2>11. CASE CheckSwap(r)
    BY <1>0, <2>11 DEF CheckSwap
  <2>12. CASE SwapOut(r)
    BY <1>0, <2>12 DEF SwapOut
  <2>13. CASE SwapIn(r)
    BY <1>0, <2>13 DEF SwapIn
  <2>14. CASE SwapFails(r)
    BY <1>0, <2>14 DEF SwapFails
  <2>15. CASE Wipe(r)
    BY <1>0, <2>15 DEF Wipe
  <2>16. CASE Clean(r)
    BY <1>0, <2>16 DEF Clean
  <2>17. ASSUME NEW p \in Stores, RewrapOne(r, p) PROVE TypeOK'
    BY <1>0, <2>17 DEF RewrapOne, Rewrap, Wrapped
  <2>18. ASSUME NEW p \in Stores, RewrapFails(r, p) PROVE TypeOK'
    BY <1>0, <2>18 DEF RewrapFails
  <2>19. ASSUME NEW p \in Stores, BackOne(r, p) PROVE TypeOK'
    BY <1>0, <2>19 DEF BackOne, Rewrap, Wrapped
  <2>20. ASSUME NEW p \in Stores, BackFails(r, p) PROVE TypeOK'
    BY <1>0, <2>20 DEF BackFails
  <2> QED
    BY <1>2, <2>1, <2>2, <2>3, <2>4, <2>5, <2>6, <2>7, <2>8, <2>9, <2>10, <2>11, <2>12, <2>13, <2>14, <2>15, <2>16, <2>17, <2>18, <2>19, <2>20 DEF RunStep
<1>3. ASSUME NEW r \in Runners, Crash(r) PROVE TypeOK'
  BY <1>0, <1>3 DEF Crash, NoJournal
<1>4. CASE BootResumes \/ BootServes \/ ServerStops
  BY <1>0, <1>4, RunnersAssumption, ResumeTypes DEF BootResumes, BootServes, ServerStops
<1>5. CASE UNCHANGED vars
  BY <1>0, <1>5 DEF vars
<1> QED
  BY <1>1, <1>2, <1>3, <1>4, <1>5 DEF Next

(* Whatever runs overlap, crash or fail: keys, journals and stores stay    *)
(* what the code takes them for, and no run re-wraps under a missing key.  *)
THEOREM KekTypeCorrect == Spec => []TypeOK
<1>1. Init => TypeOK
  BY NoneAssumption, BoundsAssumption
  DEF Init, TypeOK, Loaded, Journals, NoJournal, Stages
<1>2. TypeOK /\ [Next]_vars => TypeOK'
  BY KekTypes
<1> QED
  BY <1>1, <1>2, PTL DEF Spec

LEMMA RunKeeps ==
    ASSUME Single, Single', IInv, TypeOK', NEW r \in Runners, RunStep(r)
    PROVE  IInv'
<1> USE NoneAssumption, BoundsAssumption
<1>0. ~Idle(r) /\ at[r] \in Stages /\ (server = "up" => FALSE)
      /\ \A s \in Runners \ {r} : at'[s] = at[s]
  BY DEF IInv, TypeOK, Alone, RunStep, Mint, Begin, LoadKeys, NoKeys, Note, Rewrapped,
         BackDone, WipeNext, Verify, VerifyFails, CheckSwap, SwapOut, SwapIn,
         SwapFails, Wipe, Clean, RewrapOne, RewrapFails, BackOne, BackFails
<1>3. at[r] # "note" => \A s \in Runners : at[s] # "note"
  BY <1>0 DEF IInv
<1>4. /\ "crash" \in met => "crash" \in met'
      /\ "fault" \in met => "fault" \in met'
  BY MetGrows DEF IInv, TypeOK, Next
<1>5. ~("crash" \in met /\ "fault" \in met) /\ ~("crash" \in met' /\ "fault" \in met')
  BY DEF Single
<1>1. Disk' /\ Known(r)' /\ (server' = "up" => at'[r] = "idle" /\ journal' = None)
  <2> USE <1>0, <1>3, <1>4, <1>5 DEF IInv, TypeOK, Disk, Known, Under, Stage, Journals
  <2> DEFINE Goal == Disk' /\ Known(r)' /\ (server' = "up" => at'[r] = "idle" /\ journal' = None)
  <2>1. CASE Mint(r)
    BY <2>1 DEF Mint
  <2>2. CASE Begin(r)
    BY <2>2 DEF Begin
  <2>3. CASE LoadKeys(r)
    BY <2>3 DEF LoadKeys
  <2>4. CASE NoKeys(r)
    BY <2>4 DEF NoKeys
  <2>5. CASE Note(r)
    BY <2>5 DEF Note
  <2>6. CASE Rewrapped(r)
    <3>1. mem[r] = journal /\ Stage("rewrapping") /\ journal.pending = {}
      BY <2>6 DEF Rewrapped
    <3>2. journal.completed = Stores
      BY <3>1
    <3>3. "fault" \notin met' => Under(next)
      BY <3>1, <3>2
    <3>4. Disk'
      BY <2>6, <3>1, <3>2, <3>3 DEF Rewrapped
    <3> QED
      BY <2>6, <3>4 DEF Rewrapped
  <2>7. CASE BackDone(r)
    <3>1. at[r] = "back" /\ back[r] = {}
      BY <2>7 DEF BackDone
    <3>2. Stage("rewrapping") /\ kek # None /\ "fault" \in met
      BY <3>1
    <3>3. \A p \in journal.pending : env[p] = kek
      BY <3>1, <3>2
    <3>4. \A p \in Stores : env[p] = kek
      BY <3>1, <3>2, <3>3
    <3>5. Disk'
      BY <2>7, <3>2, <3>4 DEF BackDone
    <3>6. Known(r)' /\ server' # "up"
      BY <2>7, <3>2 DEF BackDone
    <3> QED
      BY <3>5, <3>6
  <2>8. CASE WipeNext(r)
    BY <2>8 DEF WipeNext
  <2>9. CASE Verify(r)
    BY <2>9 DEF Verify
  <2>10. CASE VerifyFails(r)
    BY <2>10 DEF VerifyFails
  <2>11. CASE CheckSwap(r)
    BY <2>11 DEF CheckSwap
  <2>12. CASE SwapOut(r)
    BY <2>12 DEF SwapOut
  <2>13. CASE SwapIn(r)
    BY <2>13 DEF SwapIn
  <2>14. CASE SwapFails(r)
    BY <2>14 DEF SwapFails
  <2>15. CASE Wipe(r)
    BY <2>15 DEF Wipe
  <2>16. CASE Clean(r)
    BY <2>16, RunnersAssumption DEF Clean
  <2>17. ASSUME NEW p \in Stores, RewrapOne(r, p) PROVE Goal
    BY <2>17 DEF RewrapOne, Wrapped, Rewrap
  <2>18. ASSUME NEW p \in Stores, RewrapFails(r, p) PROVE Goal
    BY <2>18 DEF RewrapFails, Wrapped
  <2>19. ASSUME NEW p \in Stores, BackOne(r, p) PROVE Goal
    BY <2>19 DEF BackOne, Rewrap
  <2>20. ASSUME NEW p \in Stores, BackFails(r, p) PROVE Goal
    <3>1. UNCHANGED files /\ at'[r] = "idle" /\ server' # "up" /\ at[r] = "back"
      BY <2>20 DEF BackFails
    <3>2. Stage("rewrapping") /\ "fault" \in met /\ "crash" \notin met
      BY <3>1
    <3>3. "fault" \in met'
      BY <3>2
    <3>4. Known(r)'
      BY <3>1
    <3>5. \A p1 \in journal.pending : env[p1] = kek
      BY <3>1, <3>2
    <3>6. Disk'
      BY <3>1, <3>2, <3>3, <3>5
    <3> QED
      BY <3>1, <3>4, <3>6
  <2> QED
    BY <2>1, <2>2, <2>3, <2>4, <2>5, <2>6, <2>7, <2>8, <2>9, <2>10, <2>11, <2>12, <2>13, <2>14, <2>15, <2>16, <2>17, <2>18, <2>19, <2>20 DEF RunStep
<1>2. server' = "up" => Alone' /\ journal' = None
  BY <1>0, <1>1 DEF IInv, Alone
<1> QED
  BY <1>0, <1>1, <1>2, Others

LEMMA KekStep ==
    ASSUME Single, Single', IInv, [Next]_vars
    PROVE  IInv'
<1> USE NoneAssumption, BoundsAssumption DEF Single
<1>0. TypeOK'
  BY KekTypes DEF IInv
<1>1. ASSUME NEW r \in Runners, Alone, server' = "booting" \/ server' = server,
             server # "up", Resume(r) \/ (journal = None /\ at' = [at EXCEPT ![r] = "mint"]
                          /\ UNCHANGED <<files, mem, cur, new, back>>)
      PROVE  IInv'
  <2>1. \A s \in Runners \ {r} : at'[s] = at[s]
    BY <1>1 DEF IInv, TypeOK, Resume
  <2>2. Disk'
    <3>1. met \subseteq met'
      BY MetGrows DEF IInv, TypeOK
    <3>2. UNCHANGED files /\ \A s \in Runners : at[s] # "note"
      BY <1>1 DEF Resume, Alone
    <3> QED
      BY <3>1, <3>2 DEF IInv, Disk, Under, Stage
  <2>3. Known(r)'
    BY <1>1 DEF IInv, TypeOK, Known, Disk, Stage, Resume, Alone, Journals
  <2> QED
    BY <1>0, <1>1, <2>1, <2>2, <2>3, Others
<1>2. ASSUME NEW r \in Runners, CliStart(r) PROVE IInv'
  BY <1>1, <1>2 DEF CliStart
<1>3. ASSUME NEW r \in Runners, RunStep(r) PROVE IInv'
  BY <1>0, <1>3, RunKeeps
<1>4. ASSUME NEW r \in Runners, Crash(r) PROVE IInv'
  <2>1. \A s \in Runners \ {r} : at'[s] = at[s]
    BY <1>4 DEF IInv, TypeOK, Crash
  <2>2. Disk'
    BY <1>4 DEF IInv, Disk, Under, Stage, Crash
  <2>3. Known(r)' /\ server' # "up"
    BY <1>4 DEF IInv, TypeOK, Known, Crash, Alone
  <2> QED
    BY <1>0, <1>4, <2>1, <2>2, <2>3, Others DEF Crash
<1>5. CASE BootResumes
  BY <1>1, <1>5, RunnersAssumption DEF BootResumes
<1>6. CASE BootServes \/ ServerStops
  BY <1>0, <1>6, RunnersAssumption
  DEF BootServes, ServerStops, IInv, Disk, Known, Under, Stage, Alone
<1>7. CASE UNCHANGED vars
  BY <1>0, <1>7 DEF vars, IInv, Disk, Known, Under, Stage, Alone
<1> QED
  BY <1>2, <1>3, <1>4, <1>5, <1>6, <1>7 DEF Next

LEMMA KekMeaning ==
    ASSUME IInv
    PROVE  /\ \A p \in Stores : env[p] \in {kek, next, old}
           /\ server = "up" => \A p \in Stores : env[p] = kek
           /\ journal = None => \A p \in Stores : env[p] = kek
<1>1. journal = None \/ Stage("rewrapping") \/ Stage("verifying") \/ Stage("finalizing")
  BY DEF IInv, TypeOK, Journals, Stage
<1> QED
  BY <1>1 DEF IInv, Disk, Under

(* Trouble once met is not forgotten: one kind at the end of a step is one *)
(* kind at its start.                                                      *)
LEMMA SingleBefore == ASSUME TypeOK, [Next]_vars, Single' PROVE Single
<1>1. met \subseteq met'
  BY MetGrows DEF TypeOK
<1>2. met' \in {{}, {"crash"}, {"fault"}}
  BY DEF Single
<1> QED
  BY <1>1, <1>2 DEF Single

LEMMA KekInductive ==
    ASSUME KekInv, [Next]_vars
    PROVE  KekInv'
<1>1. TypeOK'
  BY KekTypes DEF KekInv
<1>2. ASSUME Single' PROVE IInv'
  BY <1>2, SingleBefore, KekStep DEF KekInv
<1> QED
  BY <1>1, <1>2 DEF KekInv

LEMMA KekInvariant == Spec => []KekInv
<1>1. Init => KekInv
  BY KekInit DEF KekInv, IInv
<1> QED
  BY <1>1, KekInductive, PTL DEF Spec

(* Unless runs overlap: every envelope's key is on disk, however often a   *)
(* rotation crashes and is resumed or however often a store cannot be read *)
(* or written, if no behaviour meets both.                                 *)
THEOREM OneTroubleLosesNoStore ==
    ASSUME \A T \in Together : ~{"crash", "fault"} \subseteq T
    PROVE  Spec => []NoStoreLost
<1>1. ASSUME KekInv PROVE NoStoreLost
  <2>1. SUFFICES ASSUME "overlap" \notin met PROVE Single
    BY <1>1, KekMeaning DEF KekInv, NoStoreLost, IInv
  <2>2. met \in Together /\ met \subseteq {"crash", "fault", "overlap"}
    BY <1>1, BoundsAssumption DEF KekInv, TypeOK
  <2>3. "crash" \notin met \/ "fault" \notin met
    BY <2>2
  <2>4. met \subseteq {"crash"} \/ met \subseteq {"fault"}
    BY <2>1, <2>2, <2>3
  <2> QED
    BY <2>4 DEF Single
<1> QED
  BY <1>1, KekInvariant, PTL

(* A serving broker opens every store with the key it loads, and with no   *)
(* journal nothing is half done, after crashes or after faults.            *)
THEOREM TheCurrentKeyOpensAll == Spec => []CurrentKeyOpensAll
<1>1. ASSUME KekInv PROVE ServerOpensEveryStore /\ SettledWithoutJournal
  BY <1>1, KekMeaning DEF KekInv, ServerOpensEveryStore, SettledWithoutJournal
<1>2. KekInv => CurrentKeyOpensAll
  BY <1>1 DEF CurrentKeyOpensAll
<1> QED
  BY <1>2, KekInvariant, PTL

(* Only the second rename brings in a key, and only once every store is    *)
(* under it.                                                               *)
LEMMA CommitStep ==
    ASSUME IInv, [Next]_vars, kek' \notin {kek, None}
    PROVE  \A p \in Stores : env[p] = kek'
<1>1. PICK r \in Runners : SwapIn(r)
  BY DEF Next, vars, CliStart, Resume, RunStep, Mint, Begin, LoadKeys, NoKeys, Note,
         Rewrapped, BackDone, WipeNext, Verify, VerifyFails, CheckSwap, SwapOut, SwapIn,
         SwapFails, Wipe, Clean, RewrapOne, RewrapFails, BackOne, BackFails, Crash,
         BootResumes, BootServes, ServerStops
<1>2. Stage("finalizing") /\ next # None
  BY <1>1 DEF IInv, Known, SwapIn
<1> QED
  BY <1>1, <1>2 DEF SwapIn, IInv, Disk, Under, Stage

(* "Before committing the new key, every user store is verified under the  *)
(* new KEK": a key that becomes current wraps every store, after crashes   *)
(* or after faults.                                                        *)
THEOREM CommitIsVerified == Spec => CommittedKeyOpensAll
<1>1. ASSUME KekInv, [Next]_vars
      PROVE  [kek' \notin {kek, None} /\ Single => \A p \in Stores : env[p] = kek']_vars
  BY <1>1, CommitStep DEF KekInv
<1> QED
  BY <1>1, KekInvariant, PTL DEF Spec, CommittedKeyOpensAll
=============================================================================
