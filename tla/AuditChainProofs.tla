-------------------------- MODULE AuditChainProofs --------------------------
(***************************************************************************)
(* However many rows, losses and crashes: AuditChain keeps its types,      *)
(* never holds a break it has not recorded without reporting one, and      *)
(* records each once.  And, below, it implements AuditAlarm.               *)
(***************************************************************************)
EXTENDS AuditChain, FiniteSetTheorems, WellFoundedInduction, TLAPS

Reported(m) == m.unrecorded # {} => m.degraded # None

MindOK(m) == m \in Minds /\ IsFiniteSet(m.unrecorded) /\ Reported(m)

BreakSet(B) == B \subseteq Breaks /\ IsFiniteSet(B)

-----------------------------------------------------------------------------
(* A non-empty set of numbers has a least one, and a greatest one if it is *)
(* bounded.                                                                *)
LEMMA Least ==
    ASSUME NEW S, S \subseteq Nat, S # {}
    PROVE  \E n \in S : \A m \in S : n <= m
<1>1. PICK n \in S : \A m \in S : ~ (<<m, n>> \in OpToRel(<, Nat))
  BY NatLessThanWellFounded, WFMin, Zenon
<1>2. n \in Nat /\ \A m \in S : m \in Nat
  OBVIOUS
<1>3. ASSUME NEW m \in S PROVE ~(m < n)
  <2>1. ~ (<<m, n>> \in OpToRel(<, Nat))
    BY <1>1
  <2>2. m < n => <<m, n>> \in OpToRel(<, Nat)
    BY <1>2 DEF OpToRel
  <2>3. QED
    BY <2>1, <2>2
<1>4. QED
  BY <1>2, <1>3

LEMMA Greatest ==
    ASSUME NEW S, S \subseteq Nat, S # {}, NEW b \in Nat, \A n \in S : n <= b
    PROVE  \E n \in S : \A m \in S : m <= n
<1> DEFINE U == {k \in Nat : \A n \in S : n <= k}
<1>1. PICK u \in U : \A v \in U : u <= v
  <2>1. U \subseteq Nat /\ U # {}
    OBVIOUS
  <2> HIDE DEF U
  <2>2. QED
    BY <2>1, Least
<1>2. u \in Nat /\ \A n \in S : n \in Nat /\ n <= u
  OBVIOUS
<1>3. u \in S
  <2>1. SUFFICES ASSUME u \notin S PROVE FALSE
    OBVIOUS
  <2>2. \A n \in S : n <= u - 1
    BY <2>1, <1>2
  <2>3. u - 1 \in Nat
    <3>1. PICK n \in S : TRUE
      OBVIOUS
    <3>2. n \in Nat /\ n <= u - 1
      BY <2>2
    <3>3. QED
      BY <3>2, <1>2
  <2>4. u - 1 \in U
    BY <2>2, <2>3
  <2>5. QED
    BY <2>4, <1>1, <1>2
<1>4. QED
  BY <1>3, <1>2

LEMMA TopIsLast ==
    ASSUME NEW L, NEW s \in Nat, LogOK(L, s)
    PROVE  Top(L) \in DOMAIN L /\ \A m \in DOMAIN L : m <= Top(L)
<1>1. \E n \in DOMAIN L : \A m \in DOMAIN L : m <= n
  BY Greatest DEF LogOK
<1>2. QED
  BY <1>1 DEF Top

LEMMA HeadTyped ==
    ASSUME NEW L, NEW s \in Nat, LogOK(L, s)
    PROVE  HeadOf(L) \in Heads
BY TopIsLast DEF LogOK, RowOK, Rows, HeadOf, Heads

LEMMA BeforeTyped ==
    ASSUME NEW L, NEW s \in Nat, LogOK(L, s), NEW n \in DOMAIN L, n > 1
    PROVE  Before(L, n) \in Nat
<1> DEFINE S == {m \in DOMAIN L : m < n}
<1>1. S \subseteq Nat /\ 1 \in S /\ n \in Nat /\ \A m \in S : m <= n
  BY DEF LogOK
<1>2. \E m \in S : \A k \in S : k <= m
  BY <1>1, Greatest
<1>3. \E m \in DOMAIN L : m < n /\ \A k \in DOMAIN L : k < n => k <= m
  BY <1>2
<1>4. Before(L, n) \in DOMAIN L
  BY <1>3 DEF Before
<1>5. QED
  BY <1>4 DEF LogOK

(* What insert_row appends.                                                *)
LEMMA ExtendedTyped ==
    ASSUME NEW L, NEW s \in Nat, LogOK(L, s), NEW entries \in Seq(Entries),
           \A i \in DOMAIN entries : entries[i].by < s + i
    PROVE  LogOK(Extended(L, s, entries), s + Len(entries))
<1> DEFINE X == Extended(L, s, entries)
           D == DOMAIN L \cup {Top(L) + i : i \in DOMAIN entries}
<1>1. DOMAIN X = D /\ X = [n \in DOMAIN X |-> X[n]]
  BY DEF Extended
<1>2. Top(L) \in 1..s /\ \A m \in DOMAIN L : m <= Top(L) /\ m \in 1..s
  BY TopIsLast DEF LogOK
<1>3. DOMAIN entries = 1..Len(entries) /\ Len(entries) \in Nat
  OBVIOUS
<1>4. 1 \in D /\ D \subseteq 1..(s + Len(entries))
  BY <1>2, <1>3 DEF LogOK
<1>5. ASSUME NEW n \in D
      PROVE  RowOK(X[n], s + Len(entries))
  <2>1. CASE n \in DOMAIN L
    <3>1. X[n] = L[n]
      BY <2>1 DEF Extended
    <3>2. QED
      BY <2>1, <3>1, <1>3 DEF LogOK, RowOK, Rows
  <2>2. CASE n \notin DOMAIN L
    <3>1. PICK i \in DOMAIN entries : n = Top(L) + i
      BY <2>2
    <3>2. n - Top(L) = i /\ i \in 1..Len(entries)
      BY <3>1, <1>2, <1>3
    <3>3. X[n] = [kind |-> entries[i].kind, brk |-> entries[i].brk, by |-> entries[i].by,
                  hash |-> s + n - Top(L), body |-> s + n - Top(L)]
      BY <2>2, <3>2 DEF Extended
    <3>4. s + n - Top(L) = s + i
      BY <3>1, <3>2, <1>2
    <3>5. entries[i] \in Entries /\ entries[i].by < s + i
      OBVIOUS
    <3>6. QED
      BY <3>3, <3>4, <3>5, <3>2, <1>3 DEF RowOK, Rows, Entries, Plain
  <2>3. QED
    BY <2>1, <2>2
<1>6. QED
  BY <1>1, <1>4, <1>5 DEF LogOK

-----------------------------------------------------------------------------
(* What verify finds.                                                      *)
LEMMA FoundTyped ==
    ASSUME NEW L, NEW s \in Nat, LogOK(L, s)
    PROVE  BreakSet(Found(L))
<1> DEFINE D == DOMAIN L
           G == {n \in D : n > 1 /\ n - 1 \notin D}
           R == {n \in D : ~Intact(L, n)}
           Gap(n) == Broken(Before(L, n) + 1, "gap", L[n].hash, L[n].body)
           Row(n) == Broken(n, "row", L[n].hash, L[n].body)
           g == [n \in G |-> Gap(n)]
           h == [n \in R |-> Row(n)]
<1>1. D \subseteq Nat /\ IsFiniteSet(D)
  <2>1. IsFiniteSet(1..s) /\ D \subseteq 1..s
    BY FS_Interval DEF LogOK
  <2>2. QED
    BY <2>1, FS_Subset
<1>2. \A n \in D : n \in Nat /\ L[n].hash \in Nat /\ L[n].body \in Nat
  BY <1>1 DEF LogOK, RowOK, Rows
<1>3. \A n \in G : Gap(n) \in Breaks
  BY <1>2, BeforeTyped DEF Breaks, Broken
<1>4. \A n \in R : Row(n) \in Breaks
  BY <1>2 DEF Breaks, Broken
<1>5. IsFiniteSet(G) /\ IsFiniteSet(R)
  BY <1>1, FS_Subset
<1>6. IsFiniteSet({Gap(n) : n \in G})
  <2>1. g \in Surjection(G, {Gap(n) : n \in G})
    BY DEF Surjection
  <2>2. QED
    BY <2>1, <1>5, FS_Surjection
<1>7. IsFiniteSet({Row(n) : n \in R})
  <2>1. h \in Surjection(R, {Row(n) : n \in R})
    BY DEF Surjection
  <2>2. QED
    BY <2>1, <1>5, FS_Surjection
<1>8. Found(L) = {Gap(n) : n \in G} \cup {Row(n) : n \in R}
  BY DEF Found
<1>9. QED
  <2> HIDE DEF Gap, Row, G, R
  <2>1. IsFiniteSet(Found(L))
    BY <1>6, <1>7, <1>8, FS_Union
  <2>2. Found(L) \subseteq Breaks
    BY <1>3, <1>4, <1>8
  <2>3. QED
    BY <2>1, <2>2 DEF BreakSet

LEMMA RecordingsTyped ==
    ASSUME NEW L, NEW s \in Nat, LogOK(L, s), NEW n \in Recordings(L)
    PROVE  /\ n \in DOMAIN L /\ n \in Nat /\ L[n].brk \in Breaks
           /\ L[n].hash \in Nat /\ L[n].hash <= s /\ Recorded(L, n) \in Breaks
<1>1. n \in DOMAIN L /\ n \in Nat /\ L[n].brk \in Breaks /\ L[n].hash \in Nat /\ L[n].hash <= s
  BY DEF Recordings, LogOK, RowOK, Rows
<1>2. Recorded(L, n) \in Breaks
  BY <1>1 DEF Recorded, Broken, Breaks
<1>3. QED
  BY <1>1, <1>2

LEMMA UnseenTyped ==
    ASSUME NEW L, NEW s \in Nat, LogOK(L, s)
    PROVE  BreakSet(Unseen(L))
<1> DEFINE U == {n \in Recordings(L) :
                    /\ (HeadClass(L[n].brk) \/ \A b \in Found(L) : b.at # L[n].brk.at)
                    /\ \A m \in Recordings(L) : m < n => L[m].brk # L[n].brk}
           f == [n \in U |-> Recorded(L, n)]
<1>1. IsFiniteSet(U)
  <2>1. IsFiniteSet(1..s) /\ DOMAIN L \subseteq 1..s
    BY FS_Interval DEF LogOK
  <2>2. U \subseteq 1..s
    BY <2>1 DEF Recordings
  <2>3. QED
    BY <2>1, <2>2, FS_Subset
<1>2. f \in Surjection(U, {Recorded(L, n) : n \in U})
  BY DEF Surjection
<1>3. IsFiniteSet({Recorded(L, n) : n \in U})
  BY <1>1, <1>2, FS_Surjection
<1>4. Unseen(L) = {Recorded(L, n) : n \in U}
  BY DEF Unseen
<1>5. \A n \in U : Recorded(L, n) \in Breaks
  BY RecordingsTyped
<1>6. QED
  BY <1>3, <1>4, <1>5 DEF BreakSet

LEMMA OutstandingTyped ==
    ASSUME NEW L, NEW s \in Nat, LogOK(L, s)
    PROVE  BreakSet(Outstanding(L)) /\ Unacked(L) \subseteq Breaks
<1>1. BreakSet(Found(L) \cup Unseen(L))
  BY FoundTyped, UnseenTyped, FS_Union DEF BreakSet
<1>2. Outstanding(L) \subseteq Unacked(L) /\ Unacked(L) \subseteq Found(L) \cup Unseen(L)
  BY DEF Outstanding, Unacked
<1>3. QED
  BY <1>1, <1>2, FS_Subset DEF BreakSet

-----------------------------------------------------------------------------
(* The server's view of it.                                                *)
LEMMA HeadBreaksTyped ==
    ASSUME NEW L, NEW s \in Nat, LogOK(L, s), NEW k \in Heads \cup {None},
           NEW forward \in BOOLEAN
    PROVE  HeadBreaks(k, L, forward) \subseteq Breaks
<1>1. Top(L) \in Nat /\ \A n \in DOMAIN L : L[n].hash \in Nat
  BY TopIsLast DEF LogOK, RowOK, Rows
<1>2. CASE k = None
  BY <1>2 DEF HeadBreaks
<1>3. CASE k # None
  <2>1. k.seq \in Nat /\ k.hash \in Nat
    BY <1>3 DEF Heads
  <2>2. k.seq \notin DOMAIN L =>
            Broken(IF Top(L) + 1 <= k.seq THEN Top(L) + 1 ELSE k.seq, "head_missing", k.hash, 0)
                \in Breaks
    BY <1>1, <2>1 DEF Broken, Breaks
  <2>3. k.seq \in DOMAIN L => Broken(k.seq, "head_changed", k.hash, L[k.seq].hash) \in Breaks
    BY <1>1, <2>1 DEF Broken, Breaks
  <2>4. First({b \in Found(L) : b.at > k.seq}) \subseteq Breaks
    BY FoundTyped DEF First, BreakSet
  <2>5. QED
    BY <1>3, <2>2, <2>3, <2>4 DEF HeadBreaks
<1>4. QED
  BY <1>2, <1>3

LEMMA NotedTyped ==
    ASSUME NEW L, NEW s \in Nat, LogOK(L, s), NEW m, MindOK(m), NEW B, B \subseteq Breaks
    PROVE  MindOK(Noted(m, B, L))
<1>1. CASE B = {}
  BY <1>1 DEF Noted
<1>2. CASE B # {}
  <2> DEFINE b == CHOOSE b \in B : TRUE
             u == m.unrecorded \cup {c \in {b} : ~IsRecorded(L, c)}
             d == IF m.degraded = None THEN b ELSE m.degraded
             k == IF HeadClass(b) THEN HeadOf(L) ELSE m.known
  <2>1. b \in Breaks
    BY <1>2
  <2>2. Noted(m, B, L) = [known |-> k, degraded |-> d, unrecorded |-> u, checked |-> m.checked]
    BY <1>2 DEF Noted, Mind
  <2>3. IsFiniteSet({c \in {b} : ~IsRecorded(L, c)})
    BY FS_Singleton, FS_Subset
  <2>4. u \subseteq Breaks /\ IsFiniteSet(u)
    BY <2>1, <2>3, FS_Union DEF MindOK, Minds
  <2>5. d \in Breaks /\ d # None
    BY <2>1, NoneAssumption DEF MindOK, Minds
  <2>6. k \in Heads \cup {None}
    BY HeadTyped DEF MindOK, Minds
  <2>7. m.checked \in Nat
    BY DEF MindOK, Minds
  <2> HIDE DEF b, u, d, k
  <2>8. QED
    BY <2>2, <2>4, <2>5, <2>6, <2>7 DEF MindOK, Minds, Reported
<1>3. QED
  BY <1>1, <1>2

LEMMA AdoptedTyped ==
    ASSUME NEW m, m \in Minds, IsFiniteSet(m.unrecorded), NEW seen, BreakSet(seen),
           NEW noted \in BOOLEAN, NEW head \in Heads \cup {None},
           NEW a \in Adopted(m, seen, noted, head)
    PROVE  MindOK(a)
<1> DEFINE u == m.unrecorded \cup {b \in seen : ~noted}
           rep == IF seen # {} THEN seen ELSE IF u # {} THEN u ELSE {None}
<1>1. {b \in seen : ~noted} \subseteq seen
  OBVIOUS
<1>2. u \subseteq Breaks /\ IsFiniteSet(u)
  BY <1>1, FS_Subset, FS_Union DEF BreakSet, Minds
<1>3. PICK d \in rep : a = [known |-> IF d = None THEN head ELSE m.known, degraded |-> d,
                            unrecorded |-> u, checked |-> m.checked]
  BY DEF Adopted, Mind
<1>4. d \in Breaks \cup {None} /\ (u # {} => d # None)
  BY <1>2, NoneAssumption DEF BreakSet
<1>5. m.known \in Heads \cup {None} /\ m.checked \in Nat
  BY DEF Minds
<1> HIDE DEF u, rep
<1>6. QED
  BY <1>2, <1>3, <1>4, <1>5 DEF MindOK, Minds, Reported

LEMMA RememberingTyped ==
    ASSUME NEW m, MindOK(m), NEW h \in Heads
    PROVE  MindOK(Remembering(m, h))
BY DEF MindOK, Minds, Reported, Remembering, Mind

LEMMA RecheckedTyped ==
    ASSUME NEW L, NEW s \in Nat, LogOK(L, s), NEW m, MindOK(m), NEW a \in Rechecked(m, L)
    PROVE  MindOK(a)
<1>1. CASE m.degraded = None \/ ~\E n \in Reseals(m, L) : n > m.checked
  <2>1. a = m
    BY <1>1 DEF Rechecked
  <2>2. QED
    BY <2>1
<1>2. CASE m.degraded # None /\ \E n \in Reseals(m, L) : n > m.checked
  <2> DEFINE h == Noted(m, HeadBreaks(m.known, L, FALSE), L)
             n == CHOOSE n \in Reseals(m, L) : \A k \in Reseals(m, L) : k <= n
             w == [known |-> h.known, degraded |-> h.degraded, unrecorded |-> h.unrecorded,
                   checked |-> n]
  <2>1. m.known \in Heads \cup {None}
    BY DEF MindOK, Minds
  <2>2. MindOK(h)
    BY <2>1, HeadBreaksTyped, NotedTyped
  <2>3. Reseals(m, L) \subseteq Nat /\ \A k \in Reseals(m, L) : k <= s
    BY DEF Reseals, LogOK
  <2>4. \E k \in Reseals(m, L) : \A i \in Reseals(m, L) : i <= k
    BY <1>2, <2>3, Greatest
  <2>5. n \in Nat
    BY <2>3, <2>4
  <2>6. a \in Adopted(w, Outstanding(L), IsNoted(L), HeadOf(L))
    BY <1>2 DEF Rechecked, Mind
  <2> HIDE DEF h, n
  <2>7. w \in Minds /\ IsFiniteSet(w.unrecorded)
    BY <2>2, <2>5 DEF MindOK, Minds
  <2>8. IsNoted(L) \in BOOLEAN /\ HeadOf(L) \in Heads /\ BreakSet(Outstanding(L))
    BY HeadTyped, OutstandingTyped DEF IsNoted
  <2> HIDE DEF w
  <2>9. QED
    BY <2>6, <2>7, <2>8, AdoptedTyped
<1>3. QED
  BY <1>1, <1>2

LEMMA RecordingTyped ==
    ASSUME NEW S, BreakSet(S), NEW order \in Orders(S)
    PROVE  /\ Recording(order) \in Seq(Plain) /\ Recording(order) \in Seq(Entries)
           /\ \A i \in DOMAIN Recording(order) : Recording(order)[i].by = 0
<1> DEFINE n == Cardinality(S)
<1>1. n \in Nat
  BY FS_CardinalityType DEF BreakSet
<1>2. order \in [1..n -> S] /\ DOMAIN order = 1..n
  BY DEF Orders
<1>3. \A i \in 1..n : Entry("chain_broken", order[i], 0) \in Plain
  BY <1>2 DEF Entry, Plain, BreakSet
<1>4. Recording(order) = [i \in 1..n |-> Entry("chain_broken", order[i], 0)]
  BY <1>2 DEF Recording
<1> HIDE DEF n
<1>5. Recording(order) \in [1..n -> Plain] /\ Plain \subseteq Entries
  BY <1>3, <1>4 DEF Entries
<1>6. QED
  BY <1>1, <1>4, <1>5 DEF Entry

(* Rows that name no recording of their own.                               *)
LEMMA WritesTyped ==
    ASSUME stamp \in Nat, LogOK(log, stamp), NEW entries \in Seq(Entries), Writes(entries),
           \A i \in DOMAIN entries : entries[i].by < stamp + i
    PROVE  stamp' \in Nat /\ LogOK(log', stamp') /\ HeadOf(log') \in Heads
<1>1. stamp' \in Nat /\ LogOK(log', stamp')
  BY ExtendedTyped DEF Writes
<1>2. QED
  BY <1>1, HeadTyped

LEMMA ToRecordTyped ==
    ASSUME NEW m, MindOK(m), NEW L
    PROVE  BreakSet(ToRecord(m, L))
BY FS_Subset DEF ToRecord, MindOK, Minds, BreakSet

LEMMA FlushTyped ==
    ASSUME stamp \in Nat, LogOK(log, stamp), MindOK(mind), FlushLocked
    PROVE  stamp' \in Nat /\ LogOK(log', stamp') /\ MindOK(mind')
<1>1. CASE mind.unrecorded = {}
  BY <1>1 DEF FlushLocked, disk
<1>2. CASE mind.unrecorded # {}
  <2>1. PICK order \in Orders(ToRecord(mind, log)) :
            /\ Writes(Recording(order))
            /\ LET m == IF order = <<>> THEN mind ELSE Remembering(mind, HeadOf(log'))
               IN  mind' = Mind(m.known, m.degraded, {}, m.checked)
    BY <1>2 DEF FlushLocked
  <2>2. /\ Recording(order) \in Seq(Entries)
        /\ \A i \in DOMAIN Recording(order) : Recording(order)[i].by = 0
    BY ToRecordTyped, RecordingTyped
  <2>3. \A i \in DOMAIN Recording(order) : Recording(order)[i].by < stamp + i
    BY <2>2
  <2>4. stamp' \in Nat /\ LogOK(log', stamp') /\ HeadOf(log') \in Heads
    BY <2>1, <2>2, <2>3, WritesTyped
  <2> DEFINE m == IF order = <<>> THEN mind ELSE Remembering(mind, HeadOf(log'))
  <2>5. MindOK(m)
    BY <2>4, RememberingTyped
  <2>6. mind' = [known |-> m.known, degraded |-> m.degraded, unrecorded |-> {},
                 checked |-> m.checked]
    BY <2>1 DEF Mind
  <2> HIDE DEF m
  <2>7. MindOK(mind')
    BY <2>5, <2>6, FS_EmptySet DEF MindOK, Minds, Reported
  <2>8. QED
    BY <2>4, <2>7
<1>3. QED
  BY <1>1, <1>2

-----------------------------------------------------------------------------
(* The inductive invariant: the conjuncts of TypeOK, and a reported break  *)
(* for every unrecorded one.                                               *)
Stored == stamp \in Nat /\ LogOK(log, stamp)

Held ==
    /\ tx \in Txs \cup {None} /\ late \subseteq Heads
    /\ flushing \in BOOLEAN /\ serving \in BOOLEAN

Visited == visit \in Visits /\ IsFiniteSet(visit.seen)

Counted == reseals \in Nat /\ events \in Nat /\ losses \in Nat /\ crashes \in Nat

Inv == Stored /\ MindOK(mind) /\ Held /\ Visited /\ open \subseteq Breaks /\ Counted

LEMMA InvIsTypeOK == Inv <=> TypeOK /\ UnrecordedIsReported
BY DEF Inv, Stored, Held, Visited, Counted, MindOK, Reported, TypeOK, UnrecordedIsReported

LEMMA SeesTyped ==
    ASSUME open \subseteq Breaks, MindOK(mind'), Sees
    PROVE  open' \subseteq Breaks
BY DEF Sees, Standing, MindOK, Minds

LEMMA VisitTyped ==
    /\ NoVisit \in Visits /\ IsFiniteSet(NoVisit.seen)
    /\ \A why \in {"verify", "reseal"} :
           Starting(why) \in Visits /\ IsFiniteSet(Starting(why).seen)
    /\ Visited => \A stage \in {"check", "again", "walk", "record", "reseal"} :
           At(stage) \in Visits /\ IsFiniteSet(At(stage).seen)
BY FS_EmptySet DEF NoVisit, Starting, At, Visits, Visited

LEMMA InitInv == Init => Inv
<1> SUFFICES ASSUME Init PROVE Inv
  OBVIOUS
<1>1. Stored
  BY DEF Init, Stored, LogOK, RowOK, Rows
<1>2. MindOK(mind)
  BY FS_EmptySet DEF Init, NewMind, Mind, MindOK, Minds, Reported
<1>3. Held /\ Counted /\ open \subseteq Breaks
  BY DEF Init, Held, Counted
<1>4. Visited
  BY VisitTyped DEF Init, Visited
<1>5. QED
  BY <1>1, <1>2, <1>3, <1>4 DEF Inv

LEMMA AppendInv ==
    ASSUME Inv, NEW change \in BOOLEAN, AppendEvent(change)
    PROVE  Inv'
<1>1. PICK m0 \in Rechecked(mind, log) :
        LET m == Noted(m0, HeadBreaks(m0.known, log, TRUE), log) IN
        IF m.degraded # None /\ change THEN Refused(m) ELSE Inserted(m, change)
  BY DEF AppendEvent
<1> DEFINE m == Noted(m0, HeadBreaks(m0.known, log, TRUE), log)
<1>2. MindOK(m0)
  BY RecheckedTyped DEF Inv, Stored
<1>3. m0.known \in Heads \cup {None}
  BY <1>2 DEF MindOK, Minds
<1>4. MindOK(m)
  BY <1>2, <1>3, HeadBreaksTyped, NotedTyped DEF Inv, Stored
<1>5. Refused(m) \/ Inserted(m, change)
  BY <1>1
<1> HIDE DEF m
<1>6. MindOK(mind')
  BY <1>4, <1>5 DEF Refused, Inserted
<1>7. Held'
  <2>1. CASE Refused(m)
    <3>1. (flushing \/ m.unrecorded # {}) \in BOOLEAN
      OBVIOUS
    <3>2. QED
      BY <2>1, <3>1 DEF Refused, AppendEvent, Inv, Held
  <2>2. CASE Inserted(m, change)
    <3> DEFINE S == IF m.degraded = None THEN {} ELSE ToRecord(m, log)
    <3>1. PICK order \in Orders(S) :
            /\ flushing' = (flushing \/ order # <<>>)
            /\ tx' = [entries |-> Append(Recording(order), Entry("event", None, 0)),
                      change |-> change, told |-> FALSE]
      BY <2>2 DEF Inserted
    <3>2. BreakSet(S)
      BY <1>4, ToRecordTyped, FS_EmptySet DEF BreakSet
    <3>3. Recording(order) \in Seq(Plain)
      BY <3>2, RecordingTyped
    <3>4. Entry("event", None, 0) \in Plain
      BY DEF Entry, Plain
    <3>5. tx' \in Txs
      BY <3>1, <3>3, <3>4 DEF Txs
    <3>6. (flushing \/ order # <<>>) \in BOOLEAN
      OBVIOUS
    <3>7. QED
      BY <3>1, <3>5, <3>6 DEF AppendEvent, Inv, Held
  <2>3. QED
    BY <1>5, <2>1, <2>2
<1>8. open' \subseteq Breaks
  BY <1>6, SeesTyped DEF AppendEvent, Inv
<1>9. Stored' /\ Visited' /\ Counted'
  BY DEF AppendEvent, disk, Inv, Stored, Visited, Counted
<1>10. QED
  BY <1>6, <1>7, <1>8, <1>9 DEF Inv

(* A transaction's entries are recordings and an event.                    *)
LEMMA TxExtendedTyped ==
    ASSUME stamp \in Nat, LogOK(log, stamp), NEW t \in Txs
    PROVE  LogOK(Extended(log, stamp, t.entries), stamp + Len(t.entries))
<1>1. t.entries \in Seq(Plain) /\ Plain \subseteq Entries
  BY DEF Txs, Entries
<1>2. t.entries \in Seq(Entries)
  BY <1>1
<1>3. \A i \in DOMAIN t.entries : t.entries[i].by = 0 /\ i \in Nat /\ i >= 1
  BY <1>1 DEF Plain
<1>4. \A i \in DOMAIN t.entries : t.entries[i].by < stamp + i
  BY <1>3
<1>5. QED
  BY <1>2, <1>4, ExtendedTyped

LEMMA CommitInv == Inv /\ Commit => Inv'
<1> SUFFICES ASSUME Inv, Commit PROVE Inv'
  OBVIOUS
<1>1. tx \in Txs
  BY DEF Inv, Held, Commit
<1>2. tx.entries \in Seq(Entries)
  <2>1. Plain \subseteq Entries
    BY DEF Entries
  <2>2. QED
    BY <1>1, <2>1 DEF Txs
<1>3. \A i \in DOMAIN tx.entries : tx.entries[i].by < stamp + i
  <2>1. tx.entries \in Seq(Plain)
    BY <1>1 DEF Txs
  <2>2. \A i \in DOMAIN tx.entries : tx.entries[i].by = 0 /\ i \in Nat /\ i >= 1
    BY <2>1 DEF Plain
  <2>3. QED
    BY <2>2 DEF Inv, Stored
<1>4. Stored' /\ HeadOf(log') \in Heads
  BY <1>2, <1>3, WritesTyped DEF Commit, Inv, Stored
<1>5. QED
  BY <1>4, SeesTyped DEF Commit, Inv, Held, Visited, Counted

(* What the commit hook tells is the head the transaction would leave.     *)
LEMMA CommitHookInv == Inv /\ CommitHook => Inv'
<1> SUFFICES ASSUME Inv, CommitHook PROVE Inv'
  OBVIOUS
<1>1. tx \in Txs
  BY DEF Inv, Held, CommitHook
<1>2. HeadOf(Extended(log, stamp, tx.entries)) \in Heads
  <2>1. LogOK(Extended(log, stamp, tx.entries), stamp + Len(tx.entries))
    BY <1>1, TxExtendedTyped DEF Inv, Stored
  <2>2. stamp + Len(tx.entries) \in Nat
    BY <1>1 DEF Txs, Inv, Stored
  <2>3. QED
    BY <2>1, <2>2, HeadTyped
<1>3. MindOK(mind')
  BY <1>2, RememberingTyped DEF CommitHook, Inv
<1>4. tx' \in Txs
  BY <1>1 DEF CommitHook, Txs
<1>5. Held' /\ Counted'
  BY <1>4 DEF CommitHook, Inv, Held, Counted
<1>6. QED
  BY <1>3, <1>5, SeesTyped DEF CommitHook, disk, Inv, Stored, Visited

LEMMA CommittedInv == Inv /\ (\E h \in late : Committed(h)) => Inv'
<1> SUFFICES ASSUME Inv, NEW h \in late, Committed(h) PROVE Inv'
  OBVIOUS
<1>1. MindOK(mind')
  BY RememberingTyped DEF Committed, Inv, Held
<1>2. QED
  BY <1>1, SeesTyped DEF Committed, disk, tally, Inv, Stored, Held, Visited, Counted

LEMMA FlushInv == Inv /\ Flush => Inv'
<1> SUFFICES ASSUME Inv, Flush PROVE Inv'
  OBVIOUS
<1>1. Stored' /\ MindOK(mind')
  <2>1. CASE FlushLocked
    BY <2>1, FlushTyped DEF Inv, Stored
  <2>2. CASE UNCHANGED <<disk, mind>>
    BY <2>2 DEF disk, Inv, Stored
  <2>3. QED
    BY <2>1, <2>2 DEF Flush
<1>2. QED
  BY <1>1, SeesTyped DEF Flush, tally, Inv, Held, Visited, Counted

LEMMA VisitsInv == Inv /\ (Boot \/ Visit) => Inv'
<1> SUFFICES ASSUME Inv, Boot \/ Visit PROVE Inv'
  OBVIOUS
<1>1. Visited'
  BY VisitTyped DEF Boot, Visit, Visited
<1>2. QED
  BY <1>1 DEF Boot, Visit, disk, tally, Inv, Stored, MindOK, Reported, Held, Counted

LEMMA VerifyInv ==
    Inv /\ (VisitFlushes \/ VisitChecks \/ VisitWalks \/ VisitAdopts \/ VisitEnds) => Inv'
<1> SUFFICES ASSUME Inv PROVE
        VisitFlushes \/ VisitChecks \/ VisitWalks \/ VisitAdopts \/ VisitEnds => Inv'
  OBVIOUS
<1>1. \A stage \in {"check", "again", "walk", "record", "reseal"} :
          At(stage) \in Visits /\ IsFiniteSet(At(stage).seen)
  BY VisitTyped DEF Inv
<1>2. ASSUME VisitFlushes PROVE Inv'
  <2>1. Stored' /\ MindOK(mind')
    BY <1>2, FlushTyped DEF VisitFlushes, Inv, Stored
  <2>2. Visited'
    BY <1>1, <1>2 DEF VisitFlushes, Visited
  <2>3. QED
    BY <1>2, <2>1, <2>2, SeesTyped DEF VisitFlushes, tally, Inv, Held, Counted
<1>3. ASSUME VisitChecks PROVE Inv'
  <2>1. mind.known \in Heads \cup {None}
    BY DEF Inv, MindOK, Minds
  <2>2. MindOK(mind')
    BY <1>3, <2>1, HeadBreaksTyped, NotedTyped DEF VisitChecks, Inv, Stored
  <2>3. Visited'
    BY <1>1, <1>3 DEF VisitChecks, Visited
  <2>4. QED
    BY <1>3, <2>2, <2>3, SeesTyped DEF VisitChecks, disk, tally, Inv, Stored, Held, Counted
<1>4. ASSUME VisitWalks PROVE Inv'
  <2>1. IsNoted(log) \in BOOLEAN /\ HeadOf(log) \in Heads /\ BreakSet(Outstanding(log))
    BY HeadTyped, OutstandingTyped DEF Inv, Stored, IsNoted
  <2>2. visit.why \in {"verify", "reseal"}
    BY DEF Inv, Visited, Visits
  <2>3. Visited'
    BY <1>4, <2>1, <2>2 DEF VisitWalks, Visited, Visits, BreakSet
  <2>4. QED
    BY <1>4, <2>3 DEF VisitWalks, disk, tally, Inv, Stored, MindOK, Reported, Held, Counted
<1>5. ASSUME VisitAdopts PROVE Inv'
  <2>1. BreakSet(visit.seen) /\ visit.noted \in BOOLEAN /\ visit.head \in Heads \cup {None}
    BY DEF Inv, Visited, Visits, BreakSet
  <2>2. mind \in Minds /\ IsFiniteSet(mind.unrecorded)
    BY DEF Inv, MindOK
  <2>3. MindOK(mind')
    BY <1>5, <2>1, <2>2, AdoptedTyped DEF VisitAdopts
  <2>4. Visited'
    BY <1>1, <1>5 DEF VisitAdopts, Visited
  <2>5. QED
    BY <1>5, <2>3, <2>4, SeesTyped DEF VisitAdopts, disk, tally, Inv, Stored, Held, Counted
<1>6. ASSUME VisitEnds PROVE Inv'
  <2>1. Stored' /\ MindOK(mind')
    BY <1>6, FlushTyped DEF VisitEnds, Inv, Stored
  <2>2. Visited'
    BY <1>1, <1>6, VisitTyped DEF VisitEnds, Visited
  <2>3. QED
    BY <1>6, <2>1, <2>2, SeesTyped DEF VisitEnds, tally, Inv, Held, Counted
<1>7. QED
  BY <1>2, <1>3, <1>4, <1>5, <1>6

LEMMA AcknowledgesTyped ==
    ASSUME Stored, NEW b \in Outstanding(log), Acknowledges(b)
    PROVE  Stored' /\ HeadOf(log') \in Heads
<1> DEFINE by == RecordedBy(log, b)
           n == CHOOSE n \in by : \A k \in by : n <= k
           one == <<Entry("resealed", b, log[n].hash)>>
           two == <<Entry("chain_broken", b, 0), Entry("resealed", b, stamp + 1)>>
<1>1. b \in Breaks /\ stamp \in Nat
  BY OutstandingTyped DEF Stored, BreakSet
<1>2. CASE by # {}
  <2>1. by \subseteq Recordings(log) /\ Recordings(log) \subseteq Nat
    BY RecordingsTyped DEF RecordedBy, Stored
  <2>2. \E k \in by : \A i \in by : k <= i
    BY <1>2, <2>1, Least
  <2>3. n \in Recordings(log)
    BY <2>1, <2>2
  <2>4. log[n].hash \in Nat /\ log[n].hash <= stamp
    BY <2>3, RecordingsTyped DEF Stored
  <2>5. Writes(one)
    BY <1>2 DEF Acknowledges
  <2> HIDE DEF n
  <2>6. one \in Seq(Entries) /\ DOMAIN one = {1} /\ one[1].by = log[n].hash
    BY <1>1, <2>4 DEF Entry, Entries
  <2> HIDE DEF one
  <2>7. \A i \in DOMAIN one : one[i].by < stamp + i
    BY <1>1, <2>4, <2>6
  <2>8. QED
    BY <2>5, <2>6, <2>7, WritesTyped DEF Stored
<1>3. CASE by = {}
  <2>1. Writes(two)
    BY <1>3 DEF Acknowledges
  <2>2. /\ two \in Seq(Entries) /\ DOMAIN two = {1, 2}
        /\ two[1].by = 0 /\ two[2].by = stamp + 1
    BY <1>1 DEF Entry, Entries, Plain
  <2> HIDE DEF two
  <2>3. \A i \in DOMAIN two : two[i].by < stamp + i
    BY <1>1, <2>2
  <2>4. QED
    BY <2>1, <2>2, <2>3, WritesTyped DEF Stored
<1>4. QED
  BY <1>2, <1>3

LEMMA ResealInv == Inv /\ Reseal => Inv'
<1> SUFFICES ASSUME Inv, Reseal PROVE Inv'
  OBVIOUS
<1>1. CASE \E b \in Outstanding(log) : Acknowledges(b)
                  /\ mind' = Remembering(mind, HeadOf(log'))
                  /\ reseals' = reseals + 1 /\ visit' = Starting("verify")
  <2>1. Stored' /\ HeadOf(log') \in Heads
    BY <1>1, AcknowledgesTyped DEF Inv
  <2>2. MindOK(mind')
    BY <1>1, <2>1, RememberingTyped DEF Inv
  <2>3. Visited'
    BY <1>1, VisitTyped DEF Visited
  <2>4. QED
    BY <1>1, <2>1, <2>2, <2>3, SeesTyped DEF Reseal, Inv, Held, Counted
<1>2. CASE UNCHANGED <<disk, mind, reseals>> /\ visit' = NoVisit
  <2>1. Visited'
    BY <1>2, VisitTyped DEF Visited
  <2>2. Stored' /\ MindOK(mind') /\ mind' = mind
    BY <1>2 DEF disk, Inv, Stored
  <2>3. QED
    BY <1>2, <2>1, <2>2, SeesTyped DEF Reseal, Inv, Held, Counted
<1>3. QED
  BY <1>1, <1>2 DEF Reseal

LEMMA CliInv == Inv /\ (CliRecords \/ CliReseals \/ CliAppends) => Inv'
<1> SUFFICES ASSUME Inv PROVE CliRecords \/ CliReseals \/ CliAppends => Inv'
  OBVIOUS
<1>1. ASSUME CliRecords PROVE Inv'
  <2>1. PICK b \in Outstanding(log) : Writes(<<Entry("chain_broken", b, 0)>>)
    BY <1>1 DEF CliRecords
  <2>2. b \in Breaks
    BY OutstandingTyped DEF Inv, Stored, BreakSet
  <2> DEFINE e == <<Entry("chain_broken", b, 0)>>
  <2>3. /\ e \in Seq(Entries) /\ DOMAIN e = {1} /\ e[1].by = 0
        /\ Writes(e)
    BY <2>1, <2>2 DEF Entry, Entries, Plain
  <2> HIDE DEF e
  <2>4. Stored'
    BY <2>3, WritesTyped DEF Inv, Stored
  <2>5. MindOK(mind')
    BY <1>1 DEF CliRecords, Inv
  <2>6. QED
    BY <1>1, <2>4, <2>5, SeesTyped DEF CliRecords, tally, Inv, Held, Visited, Counted
<1>2. ASSUME CliReseals PROVE Inv'
  <2>1. Stored'
    BY <1>2, AcknowledgesTyped DEF CliReseals, Inv
  <2>2. MindOK(mind')
    BY <1>2 DEF CliReseals, Inv
  <2>3. QED
    BY <1>2, <2>1, <2>2, SeesTyped DEF CliReseals, Inv, Held, Visited, Counted
<1>3. ASSUME CliAppends PROVE Inv'
  <2> DEFINE e == <<Entry("event", None, 0)>>
  <2>1. e \in Seq(Entries) /\ DOMAIN e = {1} /\ e[1].by = 0
    BY DEF Entry, Entries, Plain
  <2>2. Writes(e)
    BY <1>3 DEF CliAppends
  <2> HIDE DEF e
  <2>3. Stored'
    BY <2>1, <2>2, WritesTyped DEF Inv, Stored
  <2>4. MindOK(mind')
    BY <1>3 DEF CliAppends, Inv
  <2>5. QED
    BY <1>3, <2>3, <2>4, SeesTyped DEF CliAppends, Inv, Held, Visited, Counted
<1>4. QED
  BY <1>1, <1>2, <1>3

(* Rows are lost or altered: what is left is still a log.                  *)
LEMMA LosesInv ==
    ASSUME Inv, NEW how, NEW L, LogOK(L, stamp), Loses(how, L)
    PROVE  Inv'
<1>1. Stored'
  BY DEF Loses, Inv, Stored
<1>2. MindOK(mind')
  BY DEF Loses, Inv
<1>3. QED
  BY <1>1, <1>2, SeesTyped DEF Loses, Inv, Held, Visited, Counted

LEMMA LossInv == Inv /\ (LoseTail \/ LoseRow \/ AlterRow) => Inv'
<1> SUFFICES ASSUME Inv PROVE LoseTail \/ LoseRow \/ AlterRow => Inv'
  OBVIOUS
<1>1. LogOK(log, stamp) /\ stamp \in Nat
  BY DEF Inv, Stored
<1>2. ASSUME LoseTail PROVE Inv'
  <2>1. PICK n \in DOMAIN log \ {1} :
            Loses("tail", [k \in {k \in DOMAIN log : k < n} |-> log[k]])
    BY <1>2 DEF LoseTail
  <2>2. LogOK([k \in {k \in DOMAIN log : k < n} |-> log[k]], stamp)
    BY <1>1 DEF LogOK
  <2>3. QED
    BY <2>1, <2>2, LosesInv
<1>3. ASSUME LoseRow PROVE Inv'
  <2>1. PICK n \in DOMAIN log \ {1, Top(log)} :
            Loses("row", [k \in DOMAIN log \ {n} |-> log[k]])
    BY <1>3 DEF LoseRow
  <2>2. LogOK([k \in DOMAIN log \ {n} |-> log[k]], stamp)
    BY <1>1 DEF LogOK
  <2>3. QED
    BY <2>1, <2>2, LosesInv
<1>4. ASSUME AlterRow PROVE Inv'
  <2>1. PICK n \in DOMAIN log \ {1} :
            Loses("altered", [k \in DOMAIN log |-> IF k = n THEN Forged(log[k]) ELSE log[k]])
    BY <1>4 DEF AlterRow
  <2>2. \A k \in DOMAIN log : RowOK(log[k], stamp) /\ RowOK(Forged(log[k]), stamp)
    BY <1>1 DEF LogOK, RowOK, Rows, Forged
  <2>3. LogOK([k \in DOMAIN log |-> IF k = n THEN Forged(log[k]) ELSE log[k]], stamp)
    BY <1>1, <2>2 DEF LogOK
  <2>4. QED
    BY <2>1, <2>3, LosesInv
<1>5. QED
  BY <1>2, <1>3, <1>4

LEMMA CrashInv == Inv /\ Crash => Inv'
<1> SUFFICES ASSUME Inv, Crash PROVE Inv'
  OBVIOUS
<1>1. MindOK(mind')
  BY FS_EmptySet DEF Crash, NewMind, Mind, MindOK, Minds, Reported
<1>2. Visited' /\ Stored'
  BY VisitTyped DEF Crash, Visited, disk, Inv, Stored
<1>3. Held' /\ Counted'
  <2>1. flushing' = FALSE /\ serving' = FALSE /\ late' = {} /\ tx' = None
    BY DEF Crash
  <2>2. Held'
    BY <2>1 DEF Held
  <2>3. Counted'
    BY DEF Crash, Inv, Counted
  <2>4. QED
    BY <2>2, <2>3
<1>4. open' \subseteq Breaks
  BY <1>1, SeesTyped DEF Crash, Inv
<1>5. QED
  BY <1>1, <1>2, <1>3, <1>4 DEF Inv

LEMMA IdleInv == Inv /\ (Rollback \/ VisitFails \/ UNCHANGED vars) => Inv'
<1> SUFFICES ASSUME Inv, Rollback \/ VisitFails \/ UNCHANGED vars PROVE Inv'
  OBVIOUS
<1>1. tx' \in Txs \cup {None} /\ UNCHANGED <<log, mind, late, flushing, serving, open, tally>>
  BY DEF Rollback, VisitFails, vars, disk, Inv, Held
<1>2. stamp' \in Nat /\ stamp' >= stamp
  <2>1. tx # None => Len(tx.entries) \in Nat
    BY DEF Inv, Held, Txs
  <2>2. stamp \in Nat
    BY DEF Inv, Stored
  <2>3. stamp' = stamp \/ (tx # None /\ stamp' = stamp + Len(tx.entries))
    BY DEF Rollback, VisitFails, vars, disk
  <2>4. QED
    BY <2>1, <2>2, <2>3
<1>3. Stored'
  <2>1. \A n \in DOMAIN log : RowOK(log[n], stamp')
    BY <1>2 DEF Inv, Stored, LogOK, RowOK, Rows
  <2>2. DOMAIN log \subseteq 1..stamp'
    BY <1>2 DEF Inv, Stored, LogOK
  <2>3. QED
    BY <1>1, <1>2, <2>1, <2>2 DEF Inv, Stored, LogOK
<1>4. Visited'
  <2>1. visit' = visit \/ visit' = NoVisit
    BY DEF Rollback, VisitFails, vars
  <2>2. QED
    BY <2>1, VisitTyped DEF Inv, Visited
<1>5. flushing' = flushing /\ serving' = serving /\ late' = late /\ open' = open /\ mind' = mind
  BY <1>1
<1>6. Held' /\ MindOK(mind')
  BY <1>1, <1>5 DEF Inv, Held
<1>7. Counted'
  BY <1>1 DEF tally, Inv, Counted
<1>8. QED
  BY <1>3, <1>4, <1>5, <1>6, <1>7 DEF Inv

-----------------------------------------------------------------------------
LEMMA StepInv == Inv /\ [Next]_vars => Inv'
BY AppendInv, CommitHookInv, CommitInv, CommittedInv, FlushInv, VisitsInv, VerifyInv, ResealInv, CliInv,
   LossInv, CrashInv, IdleInv DEF Next, VisitStep

(* Rows, breaks, verdicts and transactions keep their types whatever is    *)
(* lost or crashes; a row names only recordings written before it.         *)
THEOREM AuditTypeCorrect == Spec => []TypeOK
<1>1. Inv => TypeOK
  BY InvIsTypeOK
<1>2. QED
  BY InitInv, StepInv, <1>1, PTL DEF Spec

(* "`unrecorded` non-empty => `degraded` is `Some`": a break the server    *)
(* found and has not recorded is reported, so access changes stay refused, *)
(* through every walk, reseal, commit, rollback and flush.                 *)
THEOREM FoundIsReported == Spec => []UnrecordedIsReported
<1>1. Inv => UnrecordedIsReported
  BY InvIsTypeOK
<1>2. QED
  BY InitInv, StepInv, <1>1, PTL DEF Spec
-----------------------------------------------------------------------------
(* A break is recorded once.                                               *)

(* Rows about to be written: what they record is recorded by no row that   *)
(* still links to the one before it, and by one of them only.              *)
Fresh(L, entries) ==
    /\ \A i \in DOMAIN entries : entries[i].kind = "chain_broken" =>
          \A n \in Recordings(L) : L[n].brk = entries[i].brk => n - 1 \notin DOMAIN L
    /\ \A i, j \in DOMAIN entries :
          /\ entries[i].kind = "chain_broken" /\ entries[j].kind = "chain_broken"
          /\ entries[i].brk = entries[j].brk
          => i = j

(* Nobody writes between what a transaction looked up and its commit.      *)
TxFresh == tx # None => Fresh(log, tx.entries)

Once(L) ==
    \A n, m \in Recordings(L) : n < m /\ L[n].brk = L[m].brk => n - 1 \notin DOMAIN L

(* A gap never fills up again: rows are only added after the last one.     *)
LEMMA ExtendedOnce ==
    ASSUME NEW L, NEW s \in Nat, LogOK(L, s), NEW entries \in Seq(Entries),
           Once(L), Fresh(L, entries)
    PROVE  Once(Extended(L, s, entries))
<1> DEFINE X == Extended(L, s, entries)
           New == {Top(L) + i : i \in DOMAIN entries}
<1>1. DOMAIN X = DOMAIN L \cup New
  BY DEF Extended
<1>2. Top(L) \in Nat /\ \A n \in DOMAIN L : n \in Nat /\ n <= Top(L)
  BY TopIsLast DEF LogOK
<1>3. \A i \in DOMAIN entries : i \in Nat /\ i >= 1
  OBVIOUS
<1>4. \A n \in New : n \in Nat /\ n > Top(L) /\ n \notin DOMAIN L
  BY <1>2, <1>3
<1>5. ASSUME NEW n \in Recordings(X), n \in DOMAIN L
      PROVE  n \in Recordings(L) /\ X[n] = L[n]
  <2>1. X[n] = L[n]
    BY <1>5 DEF Extended
  <2>2. QED
    BY <1>5, <2>1 DEF Recordings, Intact
<1>6. ASSUME NEW n \in Recordings(X), n \notin DOMAIN L
      PROVE  \E i \in DOMAIN entries : /\ n = Top(L) + i
                                       /\ entries[i].kind = "chain_broken"
                                       /\ X[n].brk = entries[i].brk
  <2>1. n \in DOMAIN X /\ X[n].kind = "chain_broken"
    BY DEF Recordings
  <2>2. PICK i \in DOMAIN entries : n = Top(L) + i
    BY <1>1, <1>6, <2>1
  <2>3. n - Top(L) = i
    BY <1>2, <1>3, <2>2
  <2>4. X[n] = [kind |-> entries[i].kind, brk |-> entries[i].brk, by |-> entries[i].by,
                hash |-> s + n - Top(L), body |-> s + n - Top(L)]
    BY <1>1, <1>6, <2>1, <2>3 DEF Extended
  <2>5. QED
    BY <2>1, <2>2, <2>4
<1> HIDE DEF X, New
<1>7. SUFFICES ASSUME NEW n \in Recordings(X), NEW m \in Recordings(X),
                      n < m, X[n].brk = X[m].brk
               PROVE  n - 1 \notin DOMAIN X
  BY DEF Once, X
<1>8. n \in DOMAIN X /\ m \in DOMAIN X /\ n \in Nat /\ m \in Nat
  BY <1>1, <1>2, <1>4 DEF Recordings
<1>9. CASE n \in DOMAIN L
  <2>1. n \in Recordings(L) /\ X[n] = L[n]
    BY <1>5, <1>9
  <2>2. n - 1 \notin New
    BY <1>2, <1>4, <1>8, <1>9
  <2>3. n - 1 \notin DOMAIN L
    <3>1. CASE m \in DOMAIN L
      <4>1. m \in Recordings(L) /\ X[m] = L[m]
        BY <1>5, <3>1
      <4>2. QED
        BY <1>7, <2>1, <4>1 DEF Once
    <3>2. CASE m \notin DOMAIN L
      <4>1. PICK i \in DOMAIN entries :
                entries[i].kind = "chain_broken" /\ X[m].brk = entries[i].brk
        BY <1>6, <3>2
      <4>2. QED
        BY <1>7, <2>1, <4>1 DEF Fresh
    <3>3. QED
      BY <3>1, <3>2
  <2>4. QED
    BY <1>1, <2>2, <2>3
<1>10. CASE n \notin DOMAIN L
  <2>1. m \notin DOMAIN L
    BY <1>1, <1>2, <1>4, <1>7, <1>8, <1>10
  <2>2. PICK i \in DOMAIN entries : /\ n = Top(L) + i /\ entries[i].kind = "chain_broken"
                                    /\ X[n].brk = entries[i].brk
    BY <1>6, <1>10
  <2>3. PICK j \in DOMAIN entries : /\ m = Top(L) + j /\ entries[j].kind = "chain_broken"
                                    /\ X[m].brk = entries[j].brk
    BY <1>6, <2>1
  <2>4. i = j
    BY <1>7, <2>2, <2>3 DEF Fresh
  <2>5. QED
    BY <1>7, <1>8, <2>2, <2>3, <2>4
<1>11. QED
  BY <1>9, <1>10

(* Losing or altering rows makes no recording and fills no gap.            *)
LEMMA LostOnce ==
    ASSUME NEW L, NEW K, Once(L), DOMAIN K \subseteq DOMAIN L,
           \A n \in Recordings(K) : n \in Recordings(L) /\ K[n].brk = L[n].brk
    PROVE  Once(K)
BY DEF Once

(* ToRecord: what is_recorded denies, in an order without repetition.      *)
LEMMA RecordingFresh ==
    ASSUME NEW m, MindOK(m), NEW L, NEW S, S \subseteq ToRecord(m, L), NEW order \in Orders(S)
    PROVE  Fresh(L, Recording(order))
<1>1. S \subseteq m.unrecorded /\ \A b \in S : ~IsRecorded(L, b)
  BY DEF ToRecord
<1>2. order \in [1..Cardinality(S) -> S] /\ \A i, j \in DOMAIN order : order[i] = order[j] => i = j
  BY DEF Orders
<1>3. DOMAIN Recording(order) = DOMAIN order
  BY DEF Recording
<1>4. \A i \in DOMAIN order : order[i] \in S /\ Recording(order)[i].brk = order[i]
  BY <1>2 DEF Recording, Entry
<1>5. ASSUME NEW i \in DOMAIN order, NEW n \in Recordings(L), L[n].brk = order[i]
      PROVE  n - 1 \notin DOMAIN L
  BY <1>1, <1>4, <1>5 DEF IsRecorded, Recordings
<1>6. QED
  BY <1>2, <1>3, <1>4, <1>5 DEF Fresh

LEMMA OneRowFresh ==
    ASSUME NEW L, NEW b, \A n \in Recordings(L) : L[n].brk = b => n - 1 \notin DOMAIN L,
           NEW entries, DOMAIN entries \subseteq {1, 2}, entries[1].brk = b,
           2 \in DOMAIN entries => entries[2].kind # "chain_broken"
    PROVE  Fresh(L, entries)
BY DEF Fresh

LEMMA WritesOnce ==
    ASSUME Stored, RecordedOnce, NEW entries \in Seq(Entries), Fresh(log, entries),
           Writes(entries)
    PROVE  RecordedOnce'
<1>1. Once(log)
  BY DEF RecordedOnce, Once
<1>2. Once(Extended(log, stamp, entries))
  BY <1>1, ExtendedOnce DEF Stored
<1>3. QED
  BY <1>2 DEF Once, RecordedOnce, Writes

LEMMA FlushOnce ==
    ASSUME Stored, MindOK(mind), RecordedOnce, TxFresh, tx' = tx,
           FlushLocked \/ UNCHANGED <<disk, mind>>
    PROVE  RecordedOnce' /\ TxFresh'
<1>1. CASE mind.unrecorded = {} \/ UNCHANGED <<disk, mind>>
  BY <1>1 DEF FlushLocked, disk, RecordedOnce, TxFresh
<1>2. CASE mind.unrecorded # {} /\ FlushLocked
  <2>1. PICK order \in Orders(ToRecord(mind, log)) : tx = None /\ Writes(Recording(order))
    BY <1>2 DEF FlushLocked
  <2>2. Fresh(log, Recording(order)) /\ Recording(order) \in Seq(Entries)
    BY ToRecordTyped, RecordingTyped, RecordingFresh
  <2>3. QED
    BY <2>1, <2>2, WritesOnce DEF TxFresh
<1>3. QED
  BY <1>1, <1>2

(* The event after the recordings is nothing to record.                    *)
LEMMA AppendOnce ==
    ASSUME Inv, RecordedOnce, TxFresh, NEW change \in BOOLEAN, AppendEvent(change)
    PROVE  RecordedOnce' /\ TxFresh'
<1>1. log' = log /\ tx = None
  BY DEF AppendEvent, disk
<1>2. RecordedOnce'
  BY <1>1 DEF RecordedOnce
<1>3. PICK m0 \in Rechecked(mind, log) :
        LET m == Noted(m0, HeadBreaks(m0.known, log, TRUE), log) IN
        IF m.degraded # None /\ change THEN Refused(m) ELSE Inserted(m, change)
  BY DEF AppendEvent
<1> DEFINE m == Noted(m0, HeadBreaks(m0.known, log, TRUE), log)
<1>4. MindOK(m0)
  BY RecheckedTyped DEF Inv, Stored
<1>5. m0.known \in Heads \cup {None}
  BY <1>4 DEF MindOK, Minds
<1>6. MindOK(m)
  BY <1>4, <1>5, HeadBreaksTyped, NotedTyped DEF Inv, Stored
<1>7. Refused(m) \/ Inserted(m, change)
  BY <1>3
<1> HIDE DEF m
<1>8. CASE Refused(m)
  BY <1>1, <1>2, <1>8 DEF Refused, TxFresh
<1>9. CASE Inserted(m, change)
  <2> DEFINE S == IF m.degraded = None THEN {} ELSE ToRecord(m, log)
  <2>1. PICK order \in Orders(S) :
          tx' = [entries |-> Append(Recording(order), Entry("event", None, 0)),
                 change |-> change, told |-> FALSE]
    BY <1>9 DEF Inserted
  <2>2. S \subseteq ToRecord(m, log) /\ BreakSet(S)
    BY <1>6, ToRecordTyped, FS_EmptySet DEF BreakSet
  <2>3. Fresh(log, Recording(order)) /\ Recording(order) \in Seq(Plain)
    BY <1>6, <2>2, RecordingFresh, RecordingTyped
  <2> DEFINE r == Recording(order)
             e == Entry("event", None, 0)
             a == Append(r, e)
  <2> HIDE DEF r, S
  <2>4. e \in Plain /\ e.kind = "event"
    BY DEF Entry, Plain
  <2> HIDE DEF e
  <2>5. DOMAIN a = 1..Len(r) + 1 /\ a[Len(r) + 1] = e /\ DOMAIN r = 1..Len(r)
        /\ \A i \in DOMAIN r : a[i] = r[i]
    BY <2>3, <2>4 DEF r
  <2>6. \A i \in DOMAIN a : a[i].kind = "chain_broken" => i \in DOMAIN r /\ a[i] = r[i]
    <3>1. Len(r) \in Nat
      BY <2>3 DEF r
    <3>2. \A i \in 1..Len(r) + 1 : i = Len(r) + 1 \/ i \in 1..Len(r)
      BY <3>1
    <3>3. QED
      BY <2>4, <2>5, <3>2
  <2>7. Fresh(log, r)
    BY <2>3 DEF r
  <2> HIDE DEF a
  <2>8. Fresh(log, a)
    BY <2>6, <2>7 DEF Fresh
  <2>9. tx'.entries = a
    BY <2>1 DEF a, r, e
  <2>10. QED
    BY <1>1, <1>2, <2>8, <2>9 DEF TxFresh, Fresh
<1>10. QED
  BY <1>7, <1>8, <1>9

(* A reseal writes the recording it names when there is none.              *)
LEMMA AcknowledgesOnce ==
    ASSUME Stored, RecordedOnce, NEW b \in Outstanding(log), Acknowledges(b)
    PROVE  RecordedOnce'
<1> DEFINE by == RecordedBy(log, b)
           n == CHOOSE n \in by : \A k \in by : n <= k
           one == <<Entry("resealed", b, log[n].hash)>>
           two == <<Entry("chain_broken", b, 0), Entry("resealed", b, stamp + 1)>>
<1>1. b \in Breaks /\ stamp \in Nat
  BY OutstandingTyped DEF Stored, BreakSet
<1>2. CASE by # {}
  <2>1. by \subseteq Recordings(log) /\ Recordings(log) \subseteq Nat
    BY RecordingsTyped DEF RecordedBy, Stored
  <2>2. \E k \in by : \A i \in by : k <= i
    BY <1>2, <2>1, Least
  <2>3. n \in Recordings(log)
    BY <2>1, <2>2
  <2>4. log[n].hash \in Nat
    BY <2>3, RecordingsTyped DEF Stored
  <2>5. Writes(one)
    BY <1>2 DEF Acknowledges
  <2> HIDE DEF n
  <2>6. one \in Seq(Entries) /\ DOMAIN one = {1} /\ one[1].kind = "resealed"
    BY <1>1, <2>4 DEF Entry, Entries
  <2> HIDE DEF one
  <2>7. Fresh(log, one)
    BY <2>6 DEF Fresh
  <2>8. QED
    BY <2>5, <2>6, <2>7, WritesOnce
<1>3. CASE by = {}
  <2>1. \A k \in Recordings(log) : log[k].brk # b
    <3>1. CASE b.class = "recorded"
      <4>1. b \in Unseen(log)
        <5>1. b \in Found(log) \cup Unseen(log)
          BY DEF Outstanding, Unacked
        <5>2. b \notin Found(log)
          BY <3>1 DEF Found, Broken
        <5>3. QED
          BY <5>1, <5>2
      <4>2. \E k \in Recordings(log) : b = Recorded(log, k)
        BY <4>1 DEF Unseen
      <4>3. QED
        BY <1>3, <3>1, <4>2 DEF RecordedBy
    <3>2. CASE b.class # "recorded"
      BY <1>3, <3>2 DEF RecordedBy
    <3>3. QED
      BY <3>1, <3>2
  <2>2. Writes(two)
    BY <1>3 DEF Acknowledges
  <2>3. /\ two \in Seq(Entries) /\ DOMAIN two = {1, 2}
        /\ two[1].brk = b /\ two[2].kind = "resealed"
    BY <1>1 DEF Entry, Entries, Plain
  <2> HIDE DEF two
  <2>4. Fresh(log, two)
    BY <2>1, <2>3, OneRowFresh
  <2>5. QED
    BY <2>2, <2>3, <2>4, WritesOnce
<1>4. QED
  BY <1>2, <1>3

LEMMA CliOnce ==
    ASSUME Inv, RecordedOnce, TxFresh, CliRecords \/ CliReseals \/ CliAppends
    PROVE  RecordedOnce' /\ TxFresh'
<1>1. tx = None /\ tx' = None
  BY DEF CliRecords, CliReseals, CliAppends, CliTurn
<1>2. TxFresh'
  BY <1>1 DEF TxFresh
<1>3. ASSUME CliRecords PROVE RecordedOnce'
  <2>1. PICK b \in Outstanding(log) :
            ~IsRecorded(log, b) /\ Writes(<<Entry("chain_broken", b, 0)>>)
    BY <1>3 DEF CliRecords
  <2>2. b \in Breaks
    BY OutstandingTyped DEF Inv, Stored, BreakSet
  <2> DEFINE e == <<Entry("chain_broken", b, 0)>>
  <2>3. e \in Seq(Entries) /\ DOMAIN e = {1} /\ e[1].brk = b /\ Writes(e)
    BY <2>1, <2>2 DEF Entry, Entries, Plain
  <2>4. \A n \in Recordings(log) : log[n].brk = b => n - 1 \notin DOMAIN log
    BY <2>1 DEF IsRecorded, Recordings
  <2> HIDE DEF e
  <2>5. Fresh(log, e)
    BY <2>3, <2>4 DEF Fresh
  <2>6. QED
    BY <2>3, <2>5, WritesOnce DEF Inv
<1>4. ASSUME CliReseals PROVE RecordedOnce'
  BY <1>4, AcknowledgesOnce DEF CliReseals, Inv
<1>5. ASSUME CliAppends PROVE RecordedOnce'
  <2> DEFINE e == <<Entry("event", None, 0)>>
  <2>1. e \in Seq(Entries) /\ DOMAIN e = {1} /\ e[1].kind = "event"
    BY DEF Entry, Entries, Plain
  <2>2. Writes(e)
    BY <1>5 DEF CliAppends
  <2> HIDE DEF e
  <2>3. Fresh(log, e)
    BY <2>1 DEF Fresh
  <2>4. QED
    BY <2>1, <2>2, <2>3, WritesOnce DEF Inv
<1>6. QED
  BY <1>2, <1>3, <1>4, <1>5

LEMMA LossOnce ==
    ASSUME Inv, RecordedOnce, LoseTail \/ LoseRow \/ AlterRow
    PROVE  RecordedOnce' /\ TxFresh'
<1>1. Once(log) /\ LogOK(log, stamp)
  BY DEF RecordedOnce, Once, Inv, Stored
<1>2. SUFFICES Once(log')
  <2>1. tx' = None
    BY DEF LoseTail, LoseRow, AlterRow, Loses
  <2>2. QED
    BY <2>1 DEF TxFresh, Once, RecordedOnce
<1>3. ASSUME LoseTail PROVE Once(log')
  <2>1. PICK n : log' = [k \in {k \in DOMAIN log : k < n} |-> log[k]]
    BY <1>3 DEF LoseTail, Loses
  <2>2. \A k \in Recordings(log') : k \in Recordings(log) /\ log'[k].brk = log[k].brk
    BY <2>1 DEF Recordings, Intact
  <2>3. QED
    BY <1>1, <2>1, <2>2, LostOnce
<1>4. ASSUME LoseRow PROVE Once(log')
  <2>1. PICK n : log' = [k \in DOMAIN log \ {n} |-> log[k]]
    BY <1>4 DEF LoseRow, Loses
  <2>2. \A k \in Recordings(log') : k \in Recordings(log) /\ log'[k].brk = log[k].brk
    BY <2>1 DEF Recordings, Intact
  <2>3. QED
    BY <1>1, <2>1, <2>2, LostOnce
<1>5. ASSUME AlterRow PROVE Once(log')
  <2>1. PICK n : log' = [k \in DOMAIN log |-> IF k = n THEN Forged(log[k]) ELSE log[k]]
    BY <1>5 DEF AlterRow, Loses
  <2>2. \A k \in DOMAIN log : log[k].hash > 0
    BY <1>1 DEF LogOK, RowOK, Rows
  <2>3. ASSUME NEW k \in Recordings(log')
        PROVE  k \in Recordings(log) /\ log'[k].brk = log[k].brk
    <3>1. k \in DOMAIN log /\ Intact(log', k)
      BY <2>1 DEF Recordings
    <3>2. CASE k = n
      BY <2>1, <2>2, <3>1, <3>2 DEF Forged, Intact
    <3>3. CASE k # n
      <4>1. log'[k] = log[k]
        BY <2>1, <3>1, <3>3
      <4>2. QED
        BY <3>1, <4>1 DEF Recordings, Intact
    <3>4. QED
      BY <3>2, <3>3
  <2>4. QED
    BY <1>1, <2>1, <2>3, LostOnce
<1>6. QED
  BY <1>3, <1>4, <1>5

LEMMA InitOnce == Init => RecordedOnce /\ TxFresh
BY DEF Init, RecordedOnce, TxFresh, Recordings

LEMMA StepOnce == Inv /\ RecordedOnce /\ TxFresh /\ [Next]_vars => RecordedOnce' /\ TxFresh'
<1> SUFFICES ASSUME Inv, RecordedOnce, TxFresh, [Next]_vars PROVE RecordedOnce' /\ TxFresh'
  OBVIOUS
<1>1. ASSUME log' = log, tx' # None => tx # None /\ tx'.entries = tx.entries
      PROVE  RecordedOnce' /\ TxFresh'
  BY <1>1 DEF RecordedOnce, TxFresh
<1>2. ASSUME Commit PROVE RecordedOnce' /\ TxFresh'
  <2>1. tx \in Txs /\ tx' = None /\ Writes(tx.entries) /\ Plain \subseteq Entries
    BY <1>2 DEF Commit, Inv, Held, Entries
  <2>2. tx.entries \in Seq(Entries) /\ Fresh(log, tx.entries)
    BY <2>1, <1>2 DEF Txs, TxFresh, Commit
  <2>3. QED
    BY <2>1, <2>2, WritesOnce DEF Inv, TxFresh
<1>3. ASSUME Flush \/ VisitFlushes \/ VisitEnds PROVE RecordedOnce' /\ TxFresh'
  BY <1>3, FlushOnce DEF Flush, VisitFlushes, VisitEnds, Inv
<1>4. ASSUME Reseal PROVE RecordedOnce' /\ TxFresh'
  <2>1. tx = None /\ tx' = None
    BY <1>4 DEF Reseal
  <2>2. RecordedOnce'
    BY <1>4, AcknowledgesOnce DEF Reseal, Inv, disk, RecordedOnce
  <2>3. QED
    BY <2>1, <2>2 DEF TxFresh
<1>5. ASSUME Rollback \/ (\E h \in late : Committed(h)) \/ Boot
             \/ Visit
             \/ VisitChecks \/ VisitWalks \/ VisitAdopts \/ VisitFails \/ Crash \/ UNCHANGED vars
      PROVE  RecordedOnce' /\ TxFresh'
  BY <1>1, <1>5 DEF Rollback, Committed, Boot, Visit, VisitChecks, VisitWalks, VisitAdopts,
                    VisitFails, Crash, vars, disk
<1>6. ASSUME CommitHook PROVE RecordedOnce' /\ TxFresh'
  <2>1. tx # None /\ tx \in Txs /\ log' = log
    BY <1>6 DEF CommitHook, Inv, Held, disk
  <2>2. tx'.entries = tx.entries
    BY <1>6, <2>1 DEF CommitHook, Txs
  <2>3. QED
    BY <1>1, <2>1, <2>2
<1>7. QED
  BY <1>2, <1>3, <1>4, <1>5, <1>6, AppendOnce, CliOnce, LossOnce DEF Next, VisitStep

(* A break is recorded once, however many walks, appends, restarts and     *)
(* other writers find it and whatever is lost in between, as long as the   *)
(* row its recording links to is there.                                    *)
THEOREM RecordedAtMostOnce == Spec => []RecordedOnce
BY InitInv, StepInv, InitOnce, StepOnce, PTL DEF Spec

-----------------------------------------------------------------------------
(***************************************************************************)
(* AuditChain implements AuditAlarm, for any number of rows, reseals and   *)
(* crashes, as long as rows are lost once and the root CLI does not record *)
(* or reseal while the server verifies.                                    *)
(***************************************************************************)
(* Rows appended to L.                                                     *)
NewRow(e, h) == [kind |-> e.kind, brk |-> e.brk, by |-> e.by, hash |-> h, body |-> h]

Appended(L, X, s, entries) ==
    /\ DOMAIN X = DOMAIN L \cup {Top(L) + i : i \in DOMAIN entries}
    /\ Top(L) \in DOMAIN L /\ Top(X) = Top(L) + Len(entries)
    /\ \A n \in DOMAIN L : X[n] = L[n] /\ n \in Nat /\ n >= 1 /\ n <= Top(L)
    /\ DOMAIN entries = 1..Len(entries) /\ Len(entries) \in Nat
    /\ \A i \in DOMAIN entries :
          Top(L) + i \notin DOMAIN L /\ X[Top(L) + i] = NewRow(entries[i], s + i)

LEMMA ExtendedAppends ==
    ASSUME NEW L, NEW s \in Nat, LogOK(L, s), NEW entries \in Seq(Entries)
    PROVE  Appended(L, Extended(L, s, entries), s, entries)
<1> DEFINE X == Extended(L, s, entries)
           T == Top(L)
<1>1. DOMAIN entries = 1..Len(entries) /\ Len(entries) \in Nat
  OBVIOUS
<1>2. T \in DOMAIN L /\ T \in Nat /\ \A n \in DOMAIN L : n \in Nat /\ n >= 1 /\ n <= T
  BY TopIsLast DEF LogOK
<1>3. DOMAIN X = DOMAIN L \cup {T + i : i \in DOMAIN entries}
  BY DEF Extended
<1>4. \A n \in DOMAIN L : X[n] = L[n]
  BY DEF Extended
<1>5. ASSUME NEW i \in DOMAIN entries
      PROVE  T + i \notin DOMAIN L /\ X[T + i] = NewRow(entries[i], s + i)
  <2>1. i \in Nat /\ i >= 1
    BY <1>1
  <2>2. T + i \notin DOMAIN L
    BY <1>2, <2>1
  <2>3. (T + i) - T = i /\ s + (T + i) - T = s + i
    BY <1>2, <2>1
  <2>4. X[T + i] = [kind |-> entries[i].kind, brk |-> entries[i].brk, by |-> entries[i].by,
                    hash |-> s + (T + i) - T, body |-> s + (T + i) - T]
    BY <2>2, <2>3 DEF Extended
  <2>5. QED
    BY <2>2, <2>3, <2>4 DEF NewRow
<1> HIDE DEF X
<1>6. Top(X) = T + Len(entries)
  <2> DEFINE t == T + Len(entries)
  <2>1. t \in DOMAIN X
    <3>1. CASE Len(entries) = 0
      BY <1>2, <1>3, <3>1
    <3>2. CASE Len(entries) # 0
      BY <1>1, <1>3, <3>2
    <3>3. QED
      BY <3>1, <3>2
  <2>2. \A n \in DOMAIN X : n \in Nat /\ n <= t
    BY <1>1, <1>2, <1>3
  <2>3. \A n \in DOMAIN X : (\A m \in DOMAIN X : m <= n) => n = t
    BY <2>1, <2>2, <1>1, <1>2
  <2>4. Top(X) \in DOMAIN X /\ \A m \in DOMAIN X : m <= Top(X)
    <3>1. \E n \in DOMAIN X : \A m \in DOMAIN X : m <= n
      BY <2>1, <2>2
    <3>2. QED
      BY <3>1 DEF Top
  <2>5. QED
    BY <2>3, <2>4
<1>7. QED
  BY <1>1, <1>2, <1>3, <1>4, <1>5, <1>6 DEF Appended, X

(* A new row is one of entries.                                            *)
LEMMA NewRows ==
    ASSUME NEW L, NEW X, NEW s, NEW entries, Appended(L, X, s, entries),
           NEW n \in DOMAIN X, n \notin DOMAIN L
    PROVE  \E i \in DOMAIN entries : n = Top(L) + i /\ X[n] = NewRow(entries[i], s + i)
BY DEF Appended

LEMMA BeforeIs ==
    ASSUME NEW L, NEW s \in Nat, LogOK(L, s), NEW n \in DOMAIN L, n > 1
    PROVE  /\ Before(L, n) \in DOMAIN L /\ Before(L, n) \in Nat /\ Before(L, n) < n
           /\ \A k \in DOMAIN L : k < n => k <= Before(L, n)
<1> DEFINE S == {m \in DOMAIN L : m < n}
<1>1. S \subseteq Nat /\ 1 \in S /\ n \in Nat /\ \A m \in S : m <= n
  BY DEF LogOK
<1>2. \E m \in S : \A k \in S : k <= m
  BY <1>1, Greatest
<1>3. \E m \in DOMAIN L : m < n /\ \A k \in DOMAIN L : k < n => k <= m
  BY <1>2
<1>4. QED
  BY <1>3, BeforeTyped DEF Before

IsGap(L, n) == n \in DOMAIN L /\ n > 1 /\ n - 1 \notin DOMAIN L
Gap(L, n) == Broken(Before(L, n) + 1, "gap", L[n].hash, L[n].body)
Bad(L, n) == Broken(n, "row", L[n].hash, L[n].body)

LEMMA FoundIs ==
    ASSUME NEW L, NEW b
    PROVE  b \in Found(L) <=> \/ \E n \in DOMAIN L : IsGap(L, n) /\ b = Gap(L, n)
                             \/ \E n \in DOMAIN L : ~Intact(L, n) /\ b = Bad(L, n)
BY DEF Found, IsGap, Gap, Bad

(* Neither a gap nor a bad row is where a head or a recording was.         *)
LEMMA FoundAt ==
    ASSUME NEW L, NEW s \in Nat, LogOK(L, s), NEW b \in Found(L)
    PROVE  b \in Breaks /\ b.at <= Top(L) /\ b.class # "recorded" /\ ~HeadClass(b)
<1>1. b \in Breaks
  BY FoundTyped DEF BreakSet
<1>2. Top(L) \in Nat /\ \A n \in DOMAIN L : n \in Nat /\ n <= Top(L)
  BY TopIsLast DEF LogOK
<1>3. CASE \E n \in DOMAIN L : IsGap(L, n) /\ b = Gap(L, n)
  <2>1. PICK n \in DOMAIN L : IsGap(L, n) /\ b = Gap(L, n)
    BY <1>3
  <2>2. Before(L, n) \in Nat /\ Before(L, n) < n
    BY <2>1, BeforeIs DEF IsGap
  <2>3. QED
    BY <1>1, <1>2, <2>1, <2>2 DEF Gap, Broken, HeadClass
<1>4. CASE \E n \in DOMAIN L : ~Intact(L, n) /\ b = Bad(L, n)
  BY <1>1, <1>2, <1>4 DEF Bad, Broken, HeadClass
<1>5. QED
  BY <1>3, <1>4, FoundIs

-----------------------------------------------------------------------------
(* What the walk sees of a log that only grew.                             *)
LEMMA FoundKept ==
    ASSUME NEW L, NEW X, NEW s \in Nat, NEW t \in Nat, NEW entries,
           LogOK(L, s), LogOK(X, t), Appended(L, X, s, entries)
    PROVE  Found(X) = Found(L)
<1>1. /\ DOMAIN L \subseteq DOMAIN X
      /\ \A n \in DOMAIN L : X[n] = L[n] /\ n \in Nat /\ n >= 1 /\ n <= Top(L)
      /\ Top(L) \in Nat
  BY DEF Appended
<1>2. \A n \in DOMAIN X \ DOMAIN L : n \in Nat /\ n > Top(L)
  BY <1>1, NewRows DEF Appended
<1>3. ASSUME NEW n \in DOMAIN X, n \notin DOMAIN L
      PROVE  Intact(X, n) /\ n - 1 \in DOMAIN X
  <2>1. PICK i \in DOMAIN entries : n = Top(L) + i /\ X[n] = NewRow(entries[i], s + i)
    BY <1>3, NewRows
  <2>2. i = 1 \/ i - 1 \in DOMAIN entries
    BY DEF Appended
  <2>3. i \in Nat /\ (i = 1 => n - 1 = Top(L)) /\ n - 1 = Top(L) + (i - 1)
    BY <1>1, <2>1 DEF Appended
  <2>4. n - 1 \in DOMAIN X
    BY <2>2, <2>3 DEF Appended
  <2>5. QED
    BY <2>1, <2>4 DEF Intact, NewRow
<1>4. \A n \in DOMAIN L : Intact(X, n) <=> Intact(L, n)
  BY <1>1 DEF Intact
<1>5. \A n \in DOMAIN L : IsGap(X, n) <=> IsGap(L, n)
  BY <1>1, <1>2 DEF IsGap
<1>6. ASSUME NEW n \in DOMAIN L, IsGap(L, n)
      PROVE  Gap(X, n) = Gap(L, n)
  <2>1. /\ Before(L, n) \in DOMAIN L /\ Before(L, n) \in Nat /\ Before(L, n) < n
        /\ \A k \in DOMAIN L : k < n => k <= Before(L, n)
    BY <1>6, BeforeIs DEF IsGap
  <2>2. n \in DOMAIN X
    BY <1>1
  <2>3. /\ Before(X, n) \in DOMAIN X /\ Before(X, n) \in Nat /\ Before(X, n) < n
        /\ \A k \in DOMAIN X : k < n => k <= Before(X, n)
    BY <1>6, <2>2, BeforeIs DEF IsGap
  <2>4. Before(X, n) \in DOMAIN L
    BY <1>1, <1>2, <2>3
  <2>5. Before(X, n) = Before(L, n)
    BY <1>1, <2>1, <2>3, <2>4
  <2>6. QED
    BY <1>1, <2>5 DEF Gap
<1>7. \A n \in DOMAIN L : Bad(X, n) = Bad(L, n)
  BY <1>1 DEF Bad
<1>8. ASSUME NEW b PROVE b \in Found(X) <=> b \in Found(L)
  <2>1. b \in Found(L) => b \in Found(X)
    BY <1>1, <1>4, <1>5, <1>6, <1>7, FoundIs
  <2>2. b \in Found(X) => b \in Found(L)
    <3>1. ASSUME NEW n \in DOMAIN X, IsGap(X, n) PROVE n \in DOMAIN L
      BY <1>3, <3>1 DEF IsGap
    <3>2. ASSUME NEW n \in DOMAIN X, ~Intact(X, n) PROVE n \in DOMAIN L
      BY <1>3, <3>2
    <3>3. QED
      BY <3>1, <3>2, <1>4, <1>5, <1>6, <1>7, FoundIs
  <2>3. QED
    BY <2>1, <2>2
<1>9. QED
  BY <1>8

(* First recordings of breaks the walk cannot see.                         *)
FirstUnseen(L, n) ==
    /\ n \in Recordings(L)
    /\ HeadClass(L[n].brk) \/ \A b \in Found(L) : b.at # L[n].brk.at
    /\ \A m \in Recordings(L) : m < n => L[m].brk # L[n].brk

LEMMA UnseenIs ==
    ASSUME NEW L
    PROVE  /\ \A b \in Unseen(L) : \E n \in Recordings(L) : FirstUnseen(L, n) /\ b = Recorded(L, n)
           /\ \A n \in Recordings(L) : FirstUnseen(L, n) => Recorded(L, n) \in Unseen(L)
BY DEF Unseen, FirstUnseen

LEMMA RecordedIs ==
    ASSUME NEW L, NEW n
    PROVE  /\ Recorded(L, n).class = "recorded" /\ Recorded(L, n).at = L[n].brk.at
           /\ Recorded(L, n).proof[1] = L[n].hash /\ Recorded(L, n).proof[2] = n
BY DEF Recorded, Broken

(* Old rows record and acknowledge what they did.                          *)
LEMMA RecordingsKept ==
    ASSUME NEW L, NEW X, NEW s \in Nat, NEW t \in Nat, NEW entries,
           LogOK(L, s), LogOK(X, t), Appended(L, X, s, entries)
    PROVE  /\ Recordings(L) \subseteq Recordings(X)
           /\ \A n \in Recordings(X) : n \in DOMAIN L => n \in Recordings(L)
           /\ \A n \in DOMAIN L : FirstUnseen(X, n) <=> FirstUnseen(L, n)
           /\ \A n \in DOMAIN L : Recorded(X, n) = Recorded(L, n)
           /\ Unseen(L) \subseteq Unseen(X)
           /\ Acked(L) \subseteq Acked(X)
           /\ \A b : IsRecorded(L, b) => IsRecorded(X, b)
<1>1. /\ DOMAIN L \subseteq DOMAIN X
      /\ \A n \in DOMAIN L : X[n] = L[n] /\ n \in Nat /\ n >= 1 /\ n <= Top(L)
      /\ Top(L) \in Nat
  BY DEF Appended
<1>2. \A n \in DOMAIN X \ DOMAIN L : n \in Nat /\ n > Top(L)
  BY <1>1, NewRows DEF Appended
<1>3. \A n \in DOMAIN L : n \in Recordings(X) <=> n \in Recordings(L)
  BY <1>1 DEF Recordings, Intact
<1>4. Recordings(L) \subseteq DOMAIN L /\ Recordings(X) \subseteq DOMAIN X
  BY DEF Recordings
<1>5. \A n \in DOMAIN L : \A m \in DOMAIN X : m < n => m \in DOMAIN L
  BY <1>1, <1>2
<1>6. \A n \in DOMAIN L : FirstUnseen(X, n) <=> FirstUnseen(L, n)
  <2>1. Found(X) = Found(L)
    BY FoundKept
  <2>2. SUFFICES ASSUME NEW n \in DOMAIN L PROVE FirstUnseen(X, n) <=> FirstUnseen(L, n)
    OBVIOUS
  <2>3. X[n] = L[n] /\ (n \in Recordings(X) <=> n \in Recordings(L))
    BY <1>1, <1>3
  <2>4. \A m : m \in Recordings(X) /\ m < n <=> m \in Recordings(L) /\ m < n
    BY <1>3, <1>4, <1>5
  <2>5. \A m \in Recordings(L) : X[m] = L[m]
    BY <1>1, <1>4
  <2>6. (\A m \in Recordings(X) : m < n => X[m].brk # X[n].brk)
            <=> (\A m \in Recordings(L) : m < n => L[m].brk # L[n].brk)
    BY <2>3, <2>4, <2>5
  <2>7. QED
    BY <2>1, <2>3, <2>6 DEF FirstUnseen
<1>7. \A n \in DOMAIN L : Recorded(X, n) = Recorded(L, n)
  BY <1>1 DEF Recorded
<1>8. Unseen(L) \subseteq Unseen(X)
  <2>1. SUFFICES ASSUME NEW b \in Unseen(L) PROVE b \in Unseen(X)
    OBVIOUS
  <2>2. PICK n \in Recordings(L) : FirstUnseen(L, n) /\ b = Recorded(L, n)
    BY UnseenIs
  <2>3. n \in Recordings(X) /\ FirstUnseen(X, n) /\ b = Recorded(X, n)
    BY <1>3, <1>4, <1>6, <1>7, <2>2
  <2>4. QED
    BY <2>3, UnseenIs
<1>9. Acked(L) \subseteq Acked(X)
  <2>1. SUFFICES ASSUME NEW n \in DOMAIN L, L[n].kind = "resealed", Intact(L, n),
                        NEW m \in Recordings(L), m < n, L[m].hash = L[n].by,
                        \/ L[n].brk.at < n
                        \/ L[n].brk.class = "recorded" /\ HeadClass(L[m].brk)
                 PROVE  L[n].brk \in Acked(X)
    BY DEF Acked
  <2>2. n \in DOMAIN X /\ X[n] = L[n] /\ X[m] = L[m] /\ m \in Recordings(X)
    BY <1>1, <1>3, <1>4
  <2>3. QED
    BY <2>1, <2>2 DEF Acked, Intact
<1>10. ASSUME NEW b, IsRecorded(L, b) PROVE IsRecorded(X, b)
  BY <1>1, <1>10 DEF IsRecorded, Intact
<1>11. QED
  BY <1>3, <1>4, <1>6, <1>7, <1>8, <1>9, <1>10

(* Without a reseal among the new rows, nothing more is acknowledged ...   *)
LEMMA AckedKept ==
    ASSUME NEW L, NEW X, NEW s \in Nat, NEW t \in Nat, NEW entries,
           LogOK(L, s), LogOK(X, t), Appended(L, X, s, entries),
           \A i \in DOMAIN entries : entries[i].kind # "resealed"
    PROVE  Acked(X) = Acked(L) /\ Unacked(L) \subseteq Unacked(X)
<1>1. SUFFICES ASSUME NEW n \in DOMAIN X, X[n].kind = "resealed", Intact(X, n),
                      NEW m \in Recordings(X), m < n, X[m].hash = X[n].by,
                      \/ X[n].brk.at < n
                      \/ X[n].brk.class = "recorded" /\ HeadClass(X[m].brk)
               PROVE  X[n].brk \in Acked(L)
  <2>1. Acked(L) \subseteq Acked(X) /\ Unseen(L) \subseteq Unseen(X)
    BY RecordingsKept
  <2>2. Found(X) = Found(L)
    BY FoundKept
  <2>3. Acked(X) \subseteq Acked(L)
    BY <1>1 DEF Acked
  <2>4. QED
    BY <2>1, <2>2, <2>3 DEF Unacked
<1>2. n \in DOMAIN L
  BY <1>1, NewRows DEF NewRow
<1>3. m \in DOMAIN L
  <2>1. m \in DOMAIN X
    BY DEF Recordings
  <2>2. n \in Nat /\ n <= Top(L) /\ Top(L) \in Nat
    BY <1>2 DEF Appended
  <2>3. \A i \in DOMAIN entries : i \in Nat /\ i >= 1
    BY DEF Appended
  <2>4. QED
    BY <1>1, <2>1, <2>2, <2>3, NewRows
<1>4. m \in Recordings(L) /\ X[n] = L[n] /\ X[m] = L[m]
  BY <1>2, <1>3, RecordingsKept DEF Appended
<1>5. QED
  BY <1>1, <1>2, <1>4 DEF Acked, Intact

(* ... and without a recording either, the walk sees what it saw.          *)
LEMMA UnackedKept ==
    ASSUME NEW L, NEW X, NEW s \in Nat, NEW t \in Nat, NEW entries,
           LogOK(L, s), LogOK(X, t), Appended(L, X, s, entries),
           \A i \in DOMAIN entries : entries[i].kind = "event"
    PROVE  Unacked(X) = Unacked(L) /\ Recordings(X) = Recordings(L)
<1>1. Acked(X) = Acked(L) /\ Unacked(L) \subseteq Unacked(X)
  BY AckedKept
<1>2. \A n \in Recordings(X) : n \in DOMAIN L
  BY NewRows DEF Recordings, NewRow
<1>3. Recordings(X) = Recordings(L)
  BY <1>2, RecordingsKept
<1>4. Unseen(X) \subseteq Unseen(L)
  <2>1. SUFFICES ASSUME NEW b \in Unseen(X) PROVE b \in Unseen(L)
    OBVIOUS
  <2>2. PICK n \in Recordings(X) : FirstUnseen(X, n) /\ b = Recorded(X, n)
    BY UnseenIs
  <2>3. n \in Recordings(L) /\ FirstUnseen(L, n) /\ b = Recorded(L, n)
    BY <1>2, <1>3, <2>2, RecordingsKept
  <2>4. QED
    BY <2>3, UnseenIs
<1>5. QED
  BY <1>1, <1>3, <1>4, FoundKept DEF Unacked

-----------------------------------------------------------------------------
(* What stands.                                                            *)

(* A recorded break is evidenced by a hash already given.                  *)
Old(b, s) == b.class = "recorded" => b.proof[1] <= s

(* A recording written now would attest to b.                              *)
Timely(b, L) == HeadClass(b) \/ b.at <= Top(L) + 1

(* Whatever is written after the loss links to the row before it.          *)
RowsHold(L, s) ==
    \A n \in DOMAIN L :
      /\ L[n].kind = "chain_broken" => Intact(L, n) /\ n - 1 \in DOMAIN L
      /\ L[n].kind = "resealed" => Old(L[n].brk, s)

LEMMA RowsHoldKept ==
    ASSUME NEW L, NEW X, NEW s \in Nat, NEW entries \in Seq(Entries), LogOK(L, s),
           RowsHold(L, s), Appended(L, X, s, entries),
           \A i \in DOMAIN entries : entries[i].kind = "resealed" => Old(entries[i].brk, s)
    PROVE  RowsHold(X, s + Len(entries))
<1>1. /\ DOMAIN L \subseteq DOMAIN X
      /\ \A n \in DOMAIN L : X[n] = L[n] /\ n \in Nat /\ n >= 1 /\ n <= Top(L)
      /\ Top(L) \in Nat
  BY DEF Appended
<1>2. ASSUME NEW b \in Breaks, Old(b, s) PROVE Old(b, s + Len(entries))
  <2>1. b.proof[1] \in Nat
    BY DEF Breaks
  <2>2. QED
    BY <1>2, <2>1 DEF Old
<1>3. ASSUME NEW n \in DOMAIN L, X[n].kind = "chain_broken"
      PROVE  Intact(X, n) /\ n - 1 \in DOMAIN X
  BY <1>1, <1>3 DEF RowsHold, Intact
<1>4. ASSUME NEW n \in DOMAIN L, X[n].kind = "resealed"
      PROVE  Old(X[n].brk, s + Len(entries))
  <2>1. X[n] = L[n] /\ L[n].brk \in Breaks /\ Old(L[n].brk, s)
    BY <1>1, <1>4 DEF RowsHold, LogOK, RowOK
  <2>2. QED
    BY <1>2, <2>1
<1>5. ASSUME NEW n \in DOMAIN X, n \notin DOMAIN L
      PROVE  /\ X[n].kind = "chain_broken" => Intact(X, n) /\ n - 1 \in DOMAIN X
             /\ X[n].kind = "resealed" => Old(X[n].brk, s + Len(entries))
  <2>1. PICK i \in DOMAIN entries : n = Top(L) + i /\ X[n] = NewRow(entries[i], s + i)
    BY <1>5, NewRows
  <2>2. i = 1 \/ i - 1 \in DOMAIN entries
    BY DEF Appended
  <2>3. i \in Nat /\ (i = 1 => n - 1 = Top(L)) /\ n - 1 = Top(L) + (i - 1)
    BY <1>1, <2>1 DEF Appended
  <2>4. n - 1 \in DOMAIN X
    BY <2>2, <2>3 DEF Appended
  <2>5. Intact(X, n) /\ X[n].kind = entries[i].kind /\ X[n].brk = entries[i].brk
    BY <2>1 DEF Intact, NewRow
  <2>6. entries[i] \in Entries /\ (entries[i].kind = "resealed" => entries[i].brk \in Breaks)
    BY DEF Entries, Plain
  <2>7. QED
    BY <1>2, <2>4, <2>5, <2>6
<1>6. QED
  BY <1>3, <1>4, <1>5 DEF RowsHold

(* A break stands on, whatever is written but a reseal, if it stays to be  *)
(* recorded or is.                                                         *)
LEMMA StandsOn ==
    ASSUME NEW L, NEW X, NEW s \in Nat, NEW t \in Nat, NEW entries \in Seq(Entries),
           LogOK(L, s), LogOK(X, t), RowsHold(L, s), Appended(L, X, s, entries),
           \A i \in DOMAIN entries : entries[i].kind # "resealed",
           NEW m, NEW w, NEW b \in Breaks, Stands(b, m, L),
           b \in ToRecord(m, L) =>
              \/ b \in w.unrecorded
              \/ \E i \in DOMAIN entries : entries[i].kind = "chain_broken" /\ entries[i].brk = b
    PROVE  Stands(b, w, X)
<1>1. Found(X) = Found(L) /\ Acked(X) = Acked(L) /\ Unacked(L) \subseteq Unacked(X)
  BY FoundKept, AckedKept
<1>2. SeenAt(b, X) = SeenAt(b, L)
  BY <1>1 DEF SeenAt
<1>3. CASE b \in Unacked(L) \/ ~SeenAt(b, L) \subseteq Acked(L)
  BY <1>1, <1>2, <1>3 DEF Stands
<1>4. CASE SeenAt(b, L) = {} /\ Attested(b, m, L)
  <2>1. CASE \E n \in Recordings(L) : L[n].brk = b /\ Recorded(L, n) \in Unacked(L)
    <3>1. PICK n \in Recordings(L) : L[n].brk = b /\ Recorded(L, n) \in Unacked(L)
      BY <2>1
    <3>2. n \in Recordings(X) /\ n \in DOMAIN L /\ X[n] = L[n]
      <4>1. n \in Recordings(X)
        BY RecordingsKept
      <4>2. n \in DOMAIN L
        BY DEF Recordings
      <4>3. QED
        BY <4>1, <4>2 DEF Appended
    <3>3. Recorded(X, n) \in Unacked(X)
      BY <1>1, <3>1, <3>2, RecordingsKept
    <3>4. QED
      BY <1>2, <1>4, <3>1, <3>2, <3>3 DEF Stands, Attested
  <2>2. CASE b \in ToRecord(m, L) /\ Timely(b, L)
    <3>1. /\ Top(L) \in Nat /\ Top(X) \in Nat /\ Top(L) <= Top(X) /\ b.at \in Nat
          /\ \A n \in DOMAIN L : n \in Nat /\ n <= Top(L)
      BY DEF Appended, Breaks
    <3>2. Timely(b, X)
      BY <2>2, <3>1 DEF Timely
    <3>3. CASE ~IsRecorded(X, b) /\ b \in w.unrecorded
      <4>1. b \in ToRecord(w, X)
        BY <3>3 DEF ToRecord
      <4>2. QED
        BY <1>2, <1>4, <3>2, <4>1 DEF Stands, Attested, Timely
    <3>4. CASE IsRecorded(X, b) \/ \E i \in DOMAIN entries :
                   entries[i].kind = "chain_broken" /\ entries[i].brk = b
      <4> DEFINE R == {n \in Recordings(X) : X[n].brk = b}
      <4>1. \A n \in DOMAIN L : ~(L[n].kind = "chain_broken" /\ L[n].brk = b)
        BY <2>2 DEF ToRecord, IsRecorded, RowsHold
      <4>2. \A n \in DOMAIN X : n \in DOMAIN L => X[n] = L[n]
        BY DEF Appended
      <4>3. \A n \in DOMAIN X \ DOMAIN L : n \in Nat /\ n > Top(L) /\ X[n].hash > s /\ Intact(X, n)
        <5>1. SUFFICES ASSUME NEW n \in DOMAIN X, n \notin DOMAIN L
                       PROVE  n \in Nat /\ n > Top(L) /\ X[n].hash > s /\ Intact(X, n)
          OBVIOUS
        <5>2. PICK i \in DOMAIN entries : n = Top(L) + i /\ X[n] = NewRow(entries[i], s + i)
          BY <5>1, NewRows
        <5>3. i \in Nat /\ i >= 1
          BY DEF Appended
        <5>4. QED
          BY <3>1, <5>2, <5>3 DEF NewRow, Intact
      <4>4. \E n \in DOMAIN X : X[n].kind = "chain_broken" /\ X[n].brk = b
        <5>1. CASE IsRecorded(X, b)
          BY <5>1 DEF IsRecorded
        <5>2. CASE \E i \in DOMAIN entries :
                       entries[i].kind = "chain_broken" /\ entries[i].brk = b
          <6>1. PICK i \in DOMAIN entries :
                    entries[i].kind = "chain_broken" /\ entries[i].brk = b
            BY <5>2
          <6>2. Top(L) + i \in DOMAIN X /\ X[Top(L) + i] = NewRow(entries[i], s + i)
            BY DEF Appended
          <6>3. QED
            BY <6>1, <6>2 DEF NewRow
        <5>3. QED
          BY <3>4, <5>1, <5>2
      <4>5. \A n \in DOMAIN X : X[n].kind = "chain_broken" /\ X[n].brk = b
                                => n \notin DOMAIN L /\ n \in R
        <5>1. SUFFICES ASSUME NEW n \in DOMAIN X, X[n].kind = "chain_broken", X[n].brk = b
                       PROVE  n \notin DOMAIN L /\ n \in R
          OBVIOUS
        <5>2. n \notin DOMAIN L
          BY <4>1, <4>2, <5>1
        <5>3. n \in Nat /\ n > Top(L) /\ Intact(X, n)
          BY <4>3, <5>2
        <5>4. b.at <= n \/ HeadClass(b)
          BY <2>2, <3>1, <5>3 DEF Timely
        <5>5. QED
          BY <5>1, <5>2, <5>3, <5>4 DEF Recordings
      <4>6. R # {} /\ R \subseteq Nat
        BY <4>4, <4>5, <3>1, <4>3 DEF Recordings
      <4>7. PICK n \in R : \A k \in R : n <= k
        BY <4>6, Least
      <4>8. n \in Recordings(X) /\ n \in DOMAIN X /\ X[n].brk = b /\ n \notin DOMAIN L /\ n \in Nat
        BY <4>5, <4>6 DEF Recordings
      <4>9. FirstUnseen(X, n)
        <5>1. HeadClass(b) \/ \A c \in Found(X) : c.at # b.at
          BY <1>1, <1>4 DEF SeenAt
        <5>2. \A k \in Recordings(X) : k < n => X[k].brk # b
          <6>1. SUFFICES ASSUME NEW k \in Recordings(X), k < n, X[k].brk = b PROVE FALSE
            OBVIOUS
          <6>2. k \in R
            BY <6>1
          <6>3. k \in Nat /\ n <= k
            BY <4>6, <4>7, <6>2
          <6>4. QED
            BY <4>8, <6>1, <6>3
        <5>3. QED
          BY <4>8, <5>1, <5>2 DEF FirstUnseen
      <4>10. Recorded(X, n) \in Unseen(X)
        BY <4>8, <4>9, UnseenIs
      <4>11. Recorded(X, n) \notin Acked(L)
        <5>1. SUFFICES ASSUME NEW k \in DOMAIN L, L[k].kind = "resealed",
                              L[k].brk = Recorded(X, n) PROVE FALSE
          BY DEF Acked
        <5>2. Old(Recorded(X, n), s)
          BY <5>1 DEF RowsHold
        <5>3. X[n].hash > s /\ X[n].hash <= s
          BY <4>3, <4>8, <5>2, RecordedIs DEF Old
        <5>4. X[n].hash \in Nat
          BY <4>8, RecordingsTyped
        <5>5. QED
          BY <5>3, <5>4
      <4>12. Recorded(X, n) \in Unacked(X)
        BY <1>1, <4>10, <4>11 DEF Unacked
      <4>13. QED
        BY <1>2, <1>4, <4>8, <4>12 DEF Stands, Attested
    <3>5. QED
      BY <2>2, <3>3, <3>4
  <2>3. QED
    BY <1>4, <2>1, <2>2 DEF Attested, Timely
<1>5. QED
  BY <1>3, <1>4 DEF Stands

(* A break stands no less for there being more to record.                  *)
LEMMA StandsMore ==
    ASSUME NEW b, NEW m, NEW w, NEW L, m.unrecorded \subseteq w.unrecorded, Stands(b, m, L)
    PROVE  Stands(b, w, L)
<1>1. ToRecord(m, L) \subseteq ToRecord(w, L)
  BY DEF ToRecord
<1>2. QED
  BY <1>1 DEF Stands, Attested

(* New rows make no break stand that did not, unless they record another   *)
(* one than a break the walk sees.                                         *)
LEMMA StoodBefore ==
    ASSUME NEW L, NEW X, NEW s \in Nat, NEW t \in Nat, NEW entries \in Seq(Entries),
           LogOK(L, s), LogOK(X, t), Appended(L, X, s, entries),
           \A i \in DOMAIN entries : entries[i].kind = "chain_broken" => entries[i].brk \in Unacked(L),
           NEW m, NEW w, m.unrecorded = w.unrecorded, NEW b, Old(b, s),
           b \in m.unrecorded => Timely(b, L), Stands(b, w, X)
    PROVE  Stands(b, m, L)
<1>1. Found(X) = Found(L) /\ Acked(L) \subseteq Acked(X)
  BY FoundKept, RecordingsKept
<1>2. SeenAt(b, X) = SeenAt(b, L)
  BY <1>1 DEF SeenAt
<1>3. ASSUME NEW n \in Recordings(X), n \in DOMAIN L, Recorded(X, n) \in Unacked(X)
      PROVE  n \in Recordings(L) /\ X[n] = L[n] /\ Recorded(L, n) \in Unacked(L)
  <2>1. n \in Recordings(L) /\ X[n] = L[n] /\ Recorded(X, n) = Recorded(L, n)
    BY <1>3, RecordingsKept DEF Appended
  <2>2. Recorded(X, n) \in Unseen(X) /\ Recorded(X, n) \notin Acked(L)
    BY <1>1, <1>3, FoundAt, RecordedIs DEF Unacked
  <2>3. PICK k \in Recordings(X) : FirstUnseen(X, k) /\ Recorded(X, n) = Recorded(X, k)
    BY <2>2, UnseenIs
  <2>4. k = n
    BY <2>3, RecordedIs
  <2>5. Recorded(L, n) \in Unseen(L)
    BY <1>3, <2>1, <2>3, <2>4, RecordingsKept, UnseenIs
  <2>6. QED
    BY <2>1, <2>2, <2>5 DEF Unacked
<1>4. ASSUME NEW n \in Recordings(X), n \notin DOMAIN L
      PROVE  X[n].hash \in Nat /\ X[n].hash > s /\ X[n].brk \in Unacked(L)
  <2>1. n \in DOMAIN X /\ X[n].kind = "chain_broken" /\ X[n].hash \in Nat
    BY RecordingsTyped DEF Recordings
  <2>2. PICK i \in DOMAIN entries : n = Top(L) + i /\ X[n] = NewRow(entries[i], s + i)
    BY <1>4, <2>1, NewRows
  <2>3. i \in Nat /\ i >= 1
    BY DEF Appended
  <2>4. QED
    BY <2>1, <2>2, <2>3 DEF NewRow
<1>5. CASE b \in Unacked(X)
  <2>1. CASE b \in Found(X)
    BY <1>1, <1>5, <2>1 DEF Unacked, Stands
  <2>2. CASE b \in Unseen(X)
    <3>1. PICK n \in Recordings(X) : FirstUnseen(X, n) /\ b = Recorded(X, n)
      BY <2>2, UnseenIs
    <3>2. n \in DOMAIN L
      <4>1. SUFFICES ASSUME n \notin DOMAIN L PROVE FALSE
        OBVIOUS
      <4>2. X[n].hash \in Nat /\ X[n].hash > s
        BY <1>4, <4>1
      <4>3. X[n].hash <= s
        BY <3>1, RecordedIs DEF Old
      <4>4. QED
        BY <4>2, <4>3
    <3>3. b \in Unacked(L)
      BY <1>3, <1>5, <3>1, <3>2, RecordingsKept
    <3>4. QED
      BY <3>3 DEF Stands
  <2>3. QED
    BY <1>5, <2>1, <2>2 DEF Unacked
<1>6. CASE ~SeenAt(b, X) \subseteq Acked(X)
  BY <1>1, <1>2, <1>6 DEF Stands
<1>7. CASE SeenAt(b, X) = {} /\ Attested(b, w, X)
  <2>1. CASE \E n \in Recordings(X) : X[n].brk = b /\ Recorded(X, n) \in Unacked(X)
    <3>1. PICK n \in Recordings(X) : X[n].brk = b /\ Recorded(X, n) \in Unacked(X)
      BY <2>1
    <3>2. CASE n \in DOMAIN L
      BY <1>2, <1>3, <1>7, <3>1, <3>2 DEF Stands, Attested
    <3>3. CASE n \notin DOMAIN L
      BY <1>4, <3>1, <3>3 DEF Stands
    <3>4. QED
      BY <3>2, <3>3
  <2>2. CASE b \in ToRecord(w, X)
    <3>1. b \in ToRecord(m, L) /\ Timely(b, L)
      BY <2>2, RecordingsKept DEF ToRecord
    <3>2. QED
      BY <1>2, <1>7, <3>1 DEF Stands, Attested, Timely
  <2>3. QED
    BY <1>7, <2>1, <2>2 DEF Attested
<1>8. QED
  BY <1>5, <1>6, <1>7 DEF Stands

(* Nothing stands when the walk sees nothing and nothing is to be recorded.*)
LEMMA NothingStands ==
    ASSUME NEW L, NEW m, NEW b, Unacked(L) = {}, m.unrecorded = {}
    PROVE  ~Stands(b, m, L)
<1>1. SeenAt(b, L) \subseteq Acked(L)
  BY DEF SeenAt, Unacked
<1>2. ~Attested(b, m, L)
  BY DEF Attested, ToRecord
<1>3. QED
  BY <1>1, <1>2 DEF Stands

(* A walk names the first breaks there are, if any.                        *)
LEMMA WalkNames ==
    ASSUME NEW L, NEW s \in Nat, LogOK(L, s), Outstanding(L) = {}
    PROVE  Unacked(L) = {}
<1> SUFFICES ASSUME Unacked(L) # {} PROVE FALSE
  OBVIOUS
<1> DEFINE U == Unacked(L)
           A == {b.at : b \in U}
<1>1. \A b \in U : b \in Breaks /\ b.at \in Nat /\ Rank(b) \in Nat
  <2>1. U \subseteq Breaks
    BY OutstandingTyped
  <2>2. QED
    BY <2>1 DEF Breaks, Rank
<1>2. A # {} /\ A \subseteq Nat
  BY <1>1
<1>3. PICK a \in A : \A c \in A : a <= c
  BY <1>2, Least
<1> DEFINE V == {b \in U : b.at = a}
           R == {Rank(b) : b \in V}
<1>4. R # {} /\ R \subseteq Nat
  BY <1>1, <1>3
<1>5. PICK r \in R : \A c \in R : r <= c
  BY <1>4, Least
<1>6. PICK b \in V : Rank(b) = r
  BY <1>5
<1>7. ASSUME NEW c \in U PROVE b.at < c.at \/ (b.at = c.at /\ Rank(b) <= Rank(c))
  <2>1. a <= c.at /\ b.at = a /\ a \in Nat /\ c.at \in Nat
    BY <1>1, <1>2, <1>3, <1>6
  <2>2. CASE c.at = a
    <3>1. Rank(c) \in R
      BY <2>2
    <3>2. QED
      BY <1>5, <1>6, <2>1, <2>2, <3>1
  <2>3. CASE c.at # a
    BY <2>1, <2>3
  <2>4. QED
    BY <2>2, <2>3
<1>8. b \in Outstanding(L)
  BY <1>6, <1>7 DEF Outstanding
<1>9. QED
  BY <1>8

(* What it names is on record, or is a break of rows.                      *)
LEMMA WalkFinds ==
    ASSUME NEW L, NEW s \in Nat, LogOK(L, s), NEW b \in Outstanding(L)
    PROVE  Old(b, s) /\ (~IsNoted(L) => Timely(b, L))
<1>1. b \in Breaks /\ (b \in Found(L) \/ b \in Unseen(L))
  BY OutstandingTyped DEF Outstanding, Unacked
<1>2. CASE b \in Found(L)
  <2>1. b.at <= Top(L) /\ b.class # "recorded" /\ b.at \in Nat /\ Top(L) \in Nat
    BY <1>1, <1>2, FoundAt, TopIsLast DEF Breaks, LogOK
  <2>2. QED
    BY <2>1 DEF Old, Timely
<1>3. CASE b \in Unseen(L)
  <2>1. PICK n \in Recordings(L) : b = Recorded(L, n)
    BY <1>3, UnseenIs
  <2>2. L[n].hash <= s /\ n \in Nat /\ n >= 1 /\ n \in DOMAIN L
    BY RecordingsTyped DEF LogOK
  <2>3. Old(b, s)
    BY <2>1, <2>2, RecordedIs DEF Old
  <2>4. Rank(b) = n
    BY <2>1, RecordedIs DEF Rank
  <2>5. ASSUME NEW c \in Outstanding(L) PROVE RecordedBy(L, c) # {}
    <3>1. c \in Unacked(L) /\ b \in Unacked(L) /\ c \in Breaks
      BY OutstandingTyped DEF Outstanding
    <3>2. c.at = b.at /\ Rank(b) <= Rank(c)
      BY <1>1, <3>1 DEF Outstanding, Breaks
    <3>3. c.class = "recorded"
      BY <2>2, <2>4, <3>2 DEF Rank
    <3>4. c \in Unseen(L)
      BY <3>1, <3>3, FoundAt DEF Unacked
    <3>5. PICK k \in Recordings(L) : c = Recorded(L, k)
      BY <3>4, UnseenIs
    <3>6. QED
      BY <3>3, <3>5 DEF RecordedBy
  <2>6. IsNoted(L)
    BY <2>5 DEF IsNoted
  <2>7. QED
    BY <2>3, <2>6
<1>4. QED
  BY <1>1, <1>2, <1>3

-----------------------------------------------------------------------------
(* The server's view changes.                                              *)

(* The alarm is about the breaks the server knows of that stand.           *)
Watched(m) == m.unrecorded \cup ({m.degraded} \ {None})

ViewOK(m, L, s) ==
    /\ \A b \in m.unrecorded : Timely(b, L) /\ Old(b, s)
    /\ m.degraded # None => Old(m.degraded, s)

LEMMA HeadBreakIs ==
    ASSUME NEW L, NEW s \in Nat, LogOK(L, s), NEW k, NEW forward,
           NEW b \in HeadBreaks(k, L, forward)
    PROVE  Timely(b, L) /\ Old(b, s) /\ (HeadClass(b) \/ b \in Found(L))
<1>1. HeadClass(b) \/ b \in Found(L)
  BY DEF HeadBreaks, HeadClass, Broken, First
<1>2. CASE HeadClass(b)
  BY <1>2 DEF HeadClass, Timely, Old
<1>3. CASE b \in Found(L)
  <2>1. b \in Breaks /\ b.at <= Top(L) /\ b.class # "recorded" /\ Top(L) \in Nat
    BY <1>3, FoundAt, TopIsLast DEF LogOK
  <2>2. b.at \in Nat
    BY <2>1 DEF Breaks
  <2>3. QED
    BY <1>1, <2>1, <2>2 DEF Timely, Old
<1>4. QED
  BY <1>1, <1>2, <1>3

LEMMA NotedView ==
    ASSUME NEW L, NEW s, NEW m, ViewOK(m, L, s), NEW B,
           \A b \in B : b # None /\ Timely(b, L) /\ Old(b, s),
           NEW w, w = Noted(m, B, L)
    PROVE  /\ ViewOK(w, L, s) /\ m.unrecorded \subseteq w.unrecorded
           /\ m.degraded # None => w.degraded = m.degraded
           /\ w.degraded = None => w = m /\ B = {}
           /\ w.degraded # m.degraded => w.degraded \in w.unrecorded \/ IsRecorded(L, w.degraded)
<1>1. CASE B = {}
  BY <1>1 DEF Noted
<1>2. CASE B # {}
  <2> DEFINE b == CHOOSE b \in B : TRUE
             u == m.unrecorded \cup {c \in {b} : ~IsRecorded(L, c)}
             d == IF m.degraded = None THEN b ELSE m.degraded
             h == IF HeadClass(b) THEN HeadOf(L) ELSE m.known
  <2>1. b \in B
    BY <1>2
  <2>2. b # None
    BY <2>1
  <2>3. Timely(b, L) /\ Old(b, s)
    BY <2>1
  <2>4. w = [known |-> h, degraded |-> d, unrecorded |-> u, checked |-> m.checked]
    BY <1>2 DEF Noted, Mind
  <2> HIDE DEF b
  <2>5. ViewOK(w, L, s)
    BY <2>3, <2>4 DEF ViewOK
  <2>6. w.degraded # None
    BY <2>2, <2>4
  <2>7. w.degraded # m.degraded => w.degraded = b
    BY <2>4
  <2>8. b \in w.unrecorded \/ IsRecorded(L, b)
    BY <2>4
  <2>9. QED
    BY <2>4, <2>5, <2>6, <2>7, <2>8
<1>3. QED
  BY <1>1, <1>2

(* A verdict is adopted: with none found and none to record, a clean one.  *)
LEMMA AdoptedView ==
    ASSUME NEW L, NEW s, NEW m, ViewOK(m, L, s), NEW seen, None \notin seen \cup m.unrecorded,
           NEW noted \in BOOLEAN, \A b \in seen : Old(b, s) /\ (~noted => Timely(b, L)),
           NEW head, NEW w \in Adopted(m, seen, noted, head)
    PROVE  /\ ViewOK(w, L, s) /\ m.unrecorded \subseteq w.unrecorded
           /\ w.degraded = None => seen = {} /\ w.unrecorded = {}
           /\ seen # {} => w.degraded \in seen /\ (noted \/ w.unrecorded # {})
           /\ seen = {} => w.unrecorded = m.unrecorded
           /\ seen = {} /\ m.unrecorded = {} => w.degraded = None /\ w.known = head
<1> DEFINE u == m.unrecorded \cup {b \in seen : ~noted}
           rep == IF seen # {} THEN seen ELSE IF u # {} THEN u ELSE {None}
<1>1. PICK d \in rep : w = [known |-> IF d = None THEN head ELSE m.known, degraded |-> d,
                            unrecorded |-> u, checked |-> m.checked]
  BY DEF Adopted, Mind
<1>2. \A b \in u : Timely(b, L) /\ Old(b, s)
  BY DEF ViewOK
<1>3. d # None => Old(d, s)
  BY <1>2
<1>4. ViewOK(w, L, s)
  BY <1>1, <1>2, <1>3 DEF ViewOK
<1>5. d = None => seen = {} /\ u = {}
  OBVIOUS
<1>6. seen # {} => d \in seen /\ (noted \/ u # {})
  OBVIOUS
<1>7. seen = {} => u = m.unrecorded
  OBVIOUS
<1>8. seen = {} /\ m.unrecorded = {} => d = None
  OBVIOUS
<1>9. m.unrecorded \subseteq u
  OBVIOUS
<1>10. w.degraded = d /\ w.unrecorded = u /\ (d = None => w.known = head)
  BY <1>1
<1> HIDE DEF u, rep
<1>11. QED
  BY <1>4, <1>5, <1>6, <1>7, <1>8, <1>9, <1>10

-----------------------------------------------------------------------------
(* The inductive invariant.                                                *)
NoRecords(L) == \A n \in DOMAIN L : L[n].kind # "chain_broken"

(* The head is that of a row still there.                                  *)
Holds(h, L) == h # None => h.seq \in DOMAIN L /\ L[h.seq].hash = h.hash

(* Before the loss there is nothing to see.                                *)
Pristine ==
    losses = 0 =>
      /\ Found(log) = {}
      /\ \A n \in DOMAIN log : log[n].kind \notin {"chain_broken", "resealed"}
      /\ mind.degraded = None /\ mind.unrecorded = {} /\ open = {} /\ visit.seen = {}
      /\ Holds(mind.known, log) /\ Holds(visit.head, log) /\ \A h \in late : Holds(h, log)

VerdictOK(L, s) == \A b \in visit.seen : Old(b, s) /\ (~visit.noted => Timely(b, L))

BreaksHold == ViewOK(mind, log, stamp) /\ VerdictOK(log, stamp)

OpenStands ==
    /\ \A b \in open : Stands(b, mind, log)
    /\ \A b \in Watched(mind) : Stands(b, mind, log) => b \in open

(* What a transaction records is still to be recorded, and an access       *)
(* change records nothing.                                                 *)
TxRecords ==
    tx # None => \A i \in DOMAIN tx.entries : tx.entries[i].kind # "event" =>
                    /\ tx.entries[i].kind = "chain_broken"
                    /\ tx.entries[i].brk \in mind.unrecorded
                    /\ ~tx.change

(* A server that serves, or is about to, reports a break that stands.      *)
AlarmReported ==
    (serving \/ visit.at = "record") /\ open # {} => mind.degraded # None

(* A verdict about to be adopted that found nothing is no news of old: the *)
(* chain is as clean as it was, or was damaged since and holds no record   *)
(* of it.                                                                  *)
VerdictHolds ==
    visit.at = "adopt" /\ visit.seen = {} /\ mind.unrecorded = {} =>
      open = {} /\ (Unacked(log) = {} \/ NoRecords(log))

AlarmInv ==
    /\ Pristine /\ RowsHold(log, stamp) /\ BreaksHold /\ OpenStands /\ TxRecords
    /\ AlarmReported /\ VerdictHolds

-----------------------------------------------------------------------------
(* Steps of AuditAlarm.                                                    *)
Admits == tx # None /\ tx.change

AlarmStep == [Alarm!Next]_(Alarm!vars)

LEMMA Raises ==
    ASSUME UNCHANGED <<reseals, losses, crashes>>, Admits' <=> Admits, open # {} => open' # {}
    PROVE  AlarmStep
BY DEF AlarmStep, Alarm!Next, Alarm!Raise, Alarm!vars, Admits

LEMMA Grants ==
    ASSUME UNCHANGED <<reseals, losses, crashes>>, ~Admits, Admits', open = {}, open' = {}
    PROVE  AlarmStep
BY DEF AlarmStep, Alarm!Next, Alarm!Admit, Alarm!vars, Admits

LEMMA Settles ==
    ASSUME UNCHANGED <<reseals, losses, crashes>>, Admits, ~Admits', open = {} <=> open' = {}
    PROVE  AlarmStep
BY DEF AlarmStep, Alarm!Next, Alarm!Settle, Alarm!vars, Admits

LEMMA Acknowledged ==
    ASSUME UNCHANGED <<losses, crashes>>, reseals' = reseals + 1, Admits' <=> Admits,
           open = {} => open' = {}
    PROVE  AlarmStep
BY DEF AlarmStep, Alarm!Next, Alarm!Reseal, Alarm!vars, Admits

LEMMA Troubles ==
    ASSUME Counted, \/ losses' = losses + 1 /\ crashes' = crashes
                    \/ crashes' = crashes + 1 /\ losses' = losses,
           UNCHANGED reseals, Admits' => Admits
    PROVE  AlarmStep
<1>1. losses' + crashes' = losses + crashes + 1
  BY DEF Counted
<1>2. QED
  BY <1>1 DEF AlarmStep, Alarm!Next, Alarm!Trouble, Alarm!vars, Admits

-----------------------------------------------------------------------------
(* What the server watches after a step.                                   *)
LEMMA SeesAll == ASSUME Sees PROVE OpenStands'
BY DEF Sees, Standing, OpenStands, Watched

LEMMA SeesNoMore ==
    ASSUME Sees, mind'.unrecorded = {}, mind'.degraded = None PROVE open' \subseteq open
BY DEF Sees, Standing

LEMMA OpenMore ==
    ASSUME OpenStands, Sees, log' = log, mind.unrecorded \subseteq mind'.unrecorded
    PROVE  open \subseteq open'
BY StandsMore DEF OpenStands, Sees, Standing

LEMMA OpenSame ==
    ASSUME OpenStands, Sees, log' = log, mind'.unrecorded = mind.unrecorded,
           mind'.degraded = mind.degraded
    PROVE  open' = open
<1>1. open \subseteq open'
  BY OpenMore
<1>2. \A b \in open' : b \in open \cup Watched(mind) /\ Stands(b, mind', log)
  BY DEF Sees, Standing, Watched
<1>3. \A b \in open' : Stands(b, mind, log)
  BY <1>2, StandsMore
<1>4. QED
  BY <1>1, <1>2, <1>3 DEF OpenStands

LEMMA WritesAppends ==
    ASSUME Inv, NEW entries \in Seq(Entries), Writes(entries)
    PROVE  Appended(log, log', stamp, entries) /\ stamp' = stamp + Len(entries)
BY ExtendedAppends DEF Writes, Inv, Stored

(* Rows are written, and what is to be recorded is among them or stays to  *)
(* be.                                                                     *)
LEMMA OpenKept ==
    ASSUME Inv, Inv', OpenStands, RowsHold(log, stamp), Sees,
           NEW entries \in Seq(Entries), Writes(entries),
           \A i \in DOMAIN entries : entries[i].kind # "resealed",
           \A b \in ToRecord(mind, log) :
              \/ b \in mind'.unrecorded
              \/ \E i \in DOMAIN entries : entries[i].kind = "chain_broken" /\ entries[i].brk = b
    PROVE  open \subseteq open'
<1>1. SUFFICES ASSUME NEW b \in open PROVE Stands(b, mind', log')
  BY DEF Sees, Standing
<1>2. b \in Breaks /\ Stands(b, mind, log)
  BY DEF Inv, OpenStands
<1>3. Appended(log, log', stamp, entries)
  BY WritesAppends
<1>4. LogOK(log, stamp) /\ LogOK(log', stamp') /\ stamp \in Nat /\ stamp' \in Nat
  BY DEF Inv, Stored
<1>5. QED
  BY <1>2, <1>3, <1>4, StandsOn

(* Rows are written, and nothing else is recorded than a break the walk    *)
(* sees.                                                                   *)
LEMMA OpenNoMore ==
    ASSUME Inv, Inv', OpenStands, BreaksHold, Sees,
           NEW entries \in Seq(Entries), Writes(entries),
           \A i \in DOMAIN entries :
              entries[i].kind = "chain_broken" => entries[i].brk \in Unacked(log),
           mind'.unrecorded = mind.unrecorded, mind'.degraded = mind.degraded
    PROVE  open' \subseteq open
<1>1. SUFFICES ASSUME NEW b \in open' PROVE b \in open
  OBVIOUS
<1>2. CASE b \in Watched(mind)
  <2>1. Stands(b, mind', log')
    BY DEF Sees, Standing
  <2>2. Appended(log, log', stamp, entries)
    BY WritesAppends
  <2>3. LogOK(log, stamp) /\ LogOK(log', stamp') /\ stamp \in Nat /\ stamp' \in Nat
    BY DEF Inv, Stored
  <2>4. Old(b, stamp) /\ (b \in mind.unrecorded => Timely(b, log))
    BY <1>2 DEF BreaksHold, ViewOK, Watched
  <2>5. Stands(b, mind, log)
    BY <2>1, <2>2, <2>3, <2>4, StoodBefore
  <2>6. QED
    BY <1>2, <2>5 DEF OpenStands
<1>3. CASE b \notin Watched(mind)
  BY <1>3 DEF Sees, Standing, Watched
<1>4. QED
  BY <1>2, <1>3

(* What holds of breaks holds on as rows are written.                      *)
LEMMA ViewGrows ==
    ASSUME NEW L, NEW X, NEW s \in Nat, NEW entries, Appended(L, X, s, entries),
           NEW b \in Breaks
    PROVE  /\ Old(b, s) => Old(b, s + Len(entries))
           /\ Timely(b, L) => Timely(b, X)
<1>1. b.proof[1] \in Nat /\ b.at \in Nat
  BY DEF Breaks
<1>2. Len(entries) \in Nat /\ Top(L) \in Nat /\ Top(X) = Top(L) + Len(entries)
  BY DEF Appended
<1>3. QED
  BY <1>1, <1>2 DEF Old, Timely

LEMMA WritesKeep ==
    ASSUME Inv, RowsHold(log, stamp), BreaksHold, NEW entries \in Seq(Entries), Writes(entries),
           \A i \in DOMAIN entries : entries[i].kind = "resealed" => Old(entries[i].brk, stamp)
    PROVE  /\ RowsHold(log', stamp')
           /\ ViewOK(mind, log', stamp') /\ VerdictOK(log', stamp')
<1>1. Appended(log, log', stamp, entries) /\ stamp' = stamp + Len(entries)
  BY WritesAppends
<1>2. LogOK(log, stamp) /\ stamp \in Nat
  BY DEF Inv, Stored
<1>3. RowsHold(log', stamp')
  BY <1>1, <1>2, RowsHoldKept
<1>4. mind.unrecorded \subseteq Breaks /\ mind.degraded \in Breaks \cup {None}
      /\ visit.seen \subseteq Breaks
  BY DEF Inv, MindOK, Minds, Visited, Visits
<1>5. \A b \in Breaks : /\ Old(b, stamp) => Old(b, stamp')
                        /\ Timely(b, log) => Timely(b, log')
  BY <1>1, <1>2, ViewGrows
<1>6. ViewOK(mind, log', stamp')
  BY <1>4, <1>5 DEF ViewOK, BreaksHold
<1>7. VerdictOK(log', stamp')
  BY <1>4, <1>5 DEF VerdictOK, BreaksHold
<1>8. QED
  BY <1>3, <1>6, <1>7

(* Before the loss, the walk and the head find nothing, and only events    *)
(* are written.                                                            *)
LEMMA PristineFinds ==
    ASSUME Inv, Pristine, losses = 0
    PROVE  /\ Unacked(log) = {} /\ Outstanding(log) = {}
           /\ \A k, forward : Holds(k, log) => HeadBreaks(k, log, forward) = {}
<1>1. Recordings(log) = {}
  BY DEF Recordings, Pristine
<1>2. Unseen(log) = {}
  BY <1>1, UnseenIs
<1>3. Unacked(log) = {} /\ Outstanding(log) = {}
  BY <1>2 DEF Unacked, Outstanding, Pristine
<1>4. ASSUME NEW k, NEW forward, Holds(k, log) PROVE HeadBreaks(k, log, forward) = {}
  BY <1>4 DEF Holds, HeadBreaks, First, Pristine
<1>5. QED
  BY <1>3, <1>4

LEMMA PristineWrites ==
    ASSUME Inv, Inv', Pristine, losses = 0, NEW entries \in Seq(Entries), Writes(entries),
           \A i \in DOMAIN entries : entries[i].kind = "event"
    PROVE  /\ Found(log') = {}
           /\ \A n \in DOMAIN log' : log'[n].kind \notin {"chain_broken", "resealed"}
           /\ \A h : Holds(h, log) => Holds(h, log')
           /\ Holds(HeadOf(log'), log')
<1>1. Appended(log, log', stamp, entries)
  BY WritesAppends
<1>2. LogOK(log, stamp) /\ LogOK(log', stamp') /\ stamp \in Nat /\ stamp' \in Nat
  BY DEF Inv, Stored
<1>3. Found(log') = {}
  BY <1>1, <1>2, FoundKept DEF Pristine
<1>4. ASSUME NEW n \in DOMAIN log' PROVE log'[n].kind \notin {"chain_broken", "resealed"}
  <2>1. CASE n \in DOMAIN log
    BY <1>1, <2>1 DEF Appended, Pristine
  <2>2. CASE n \notin DOMAIN log
    BY <1>1, <2>2, NewRows DEF NewRow
  <2>3. QED
    BY <2>1, <2>2
<1>5. ASSUME NEW h, Holds(h, log) PROVE Holds(h, log')
  BY <1>1, <1>5 DEF Holds, Appended
<1>6. Holds(HeadOf(log'), log')
  BY <1>2, TopIsLast DEF Holds, HeadOf
<1>7. QED
  BY <1>3, <1>4, <1>5, <1>6

-----------------------------------------------------------------------------
(* Appends.                                                                *)

(* A verdict the append reaches by walking again.                          *)
LEMMA RecheckedView ==
    ASSUME NEW L, NEW s \in Nat, LogOK(L, s), NEW m, MindOK(m), ViewOK(m, L, s),
           NEW w \in Rechecked(m, L)
    PROVE  /\ ViewOK(w, L, s) /\ m.unrecorded \subseteq w.unrecorded
           /\ \/ w = m
              \/ /\ m.degraded # None
                 /\ w.degraded = None => Outstanding(L) = {} /\ w.unrecorded = {}
                 /\ Outstanding(L) # {} => IsNoted(L) \/ w.unrecorded # {}
                 /\ Outstanding(L) = {} /\ w.unrecorded = {} => w.degraded = None
<1>1. CASE m.degraded = None \/ ~\E n \in Reseals(m, L) : n > m.checked
  <2>1. w = m
    BY <1>1 DEF Rechecked
  <2>2. QED
    BY <2>1
<1>2. CASE m.degraded # None /\ \E n \in Reseals(m, L) : n > m.checked
  <2> DEFINE h == Noted(m, HeadBreaks(m.known, L, FALSE), L)
             n == CHOOSE n \in Reseals(m, L) : \A k \in Reseals(m, L) : k <= n
             v == [known |-> h.known, degraded |-> h.degraded, unrecorded |-> h.unrecorded,
                   checked |-> n]
             seen == Outstanding(L)
  <2>1. m.known \in Heads \cup {None}
    BY DEF MindOK, Minds
  <2>2. MindOK(h)
    BY <2>1, HeadBreaksTyped, NotedTyped
  <2>3. ViewOK(h, L, s) /\ m.unrecorded \subseteq h.unrecorded
    <3> DEFINE B == HeadBreaks(m.known, L, FALSE)
    <3>1. h = Noted(m, B, L)
      OBVIOUS
    <3>2. B \subseteq Breaks
      BY <2>1, HeadBreaksTyped
    <3>3. \A b \in B : b # None /\ Timely(b, L) /\ Old(b, s)
      BY <3>2, HeadBreakIs, NoneAssumption
    <3> HIDE DEF h, n, v, seen, B
    <3>4. QED
      BY <3>1, <3>3, NotedView
  <2>4. w \in Adopted(v, seen, IsNoted(L), HeadOf(L))
    BY <1>2 DEF Rechecked, Mind
  <2> HIDE DEF h, n
  <2>5. ViewOK(v, L, s) /\ v.unrecorded = h.unrecorded
    BY <2>3 DEF ViewOK
  <2>6. None \notin seen \cup v.unrecorded /\ IsNoted(L) \in BOOLEAN
    BY <2>2, OutstandingTyped, NoneAssumption DEF BreakSet, MindOK, Minds, IsNoted
  <2>7. \A b \in seen : Old(b, s) /\ (~IsNoted(L) => Timely(b, L))
    BY WalkFinds
  <2> HIDE DEF v, seen
  <2>8. /\ ViewOK(w, L, s) /\ v.unrecorded \subseteq w.unrecorded
        /\ w.degraded = None => seen = {} /\ w.unrecorded = {}
        /\ seen # {} => w.degraded \in seen /\ (IsNoted(L) \/ w.unrecorded # {})
        /\ seen = {} => w.unrecorded = v.unrecorded
        /\ seen = {} /\ v.unrecorded = {} => w.degraded = None
    BY <2>4, <2>5, <2>6, <2>7, AdoptedView
  <2>9. QED
    BY <1>2, <2>3, <2>5, <2>8 DEF seen
<1>3. QED
  BY <1>1, <1>2

LEMMA AppendAlarm ==
    ASSUME Inv, Inv', AlarmInv, NEW change \in BOOLEAN, AppendEvent(change)
    PROVE  AlarmInv' /\ AlarmStep
<1>1. PICK m0 \in Rechecked(mind, log) :
        LET m == Noted(m0, HeadBreaks(m0.known, log, TRUE), log) IN
        IF m.degraded # None /\ change THEN Refused(m) ELSE Inserted(m, change)
  BY DEF AppendEvent
<1> DEFINE B == HeadBreaks(m0.known, log, TRUE)
           m == Noted(m0, B, log)
<1>2. /\ log' = log /\ stamp' = stamp /\ serving /\ tx = None /\ Sees
      /\ UNCHANGED <<late, visit, serving, reseals, events, losses, crashes>>
  BY DEF AppendEvent, disk
<1>3. LogOK(log, stamp) /\ stamp \in Nat /\ MindOK(mind) /\ ViewOK(mind, log, stamp)
  BY DEF Inv, Stored, AlarmInv, BreaksHold
<1>4. MindOK(m0)
  BY <1>3, RecheckedTyped
<1>5. /\ ViewOK(m0, log, stamp) /\ mind.unrecorded \subseteq m0.unrecorded
      /\ \/ m0 = mind
         \/ /\ mind.degraded # None
            /\ m0.degraded = None => Outstanding(log) = {} /\ m0.unrecorded = {}
            /\ Outstanding(log) # {} => IsNoted(log) \/ m0.unrecorded # {}
            /\ Outstanding(log) = {} /\ m0.unrecorded = {} => m0.degraded = None
  BY <1>3, RecheckedView
<1>6. m0.known \in Heads \cup {None}
  BY <1>4 DEF MindOK, Minds
<1>7. /\ ViewOK(m, log, stamp) /\ m0.unrecorded \subseteq m.unrecorded
      /\ m.degraded = None => m = m0 /\ B = {}
      /\ m.degraded # m0.degraded => m.degraded \in m.unrecorded \/ IsRecorded(log, m.degraded)
  <2>1. B \subseteq Breaks
    BY <1>3, <1>6, HeadBreaksTyped
  <2>2. \A b \in B : b # None /\ Timely(b, log) /\ Old(b, stamp)
    BY <1>3, <2>1, HeadBreakIs, NoneAssumption
  <2>3. m = Noted(m0, B, log)
    OBVIOUS
  <2> HIDE DEF m, B
  <2>4. QED
    BY <1>5, <2>2, <2>3, NotedView
<1>8. \/ Refused(m)
      \/ Inserted(m, change) /\ (change => m.degraded = None)
  BY <1>1
<1>9. losses = 0 => m = mind
  <2>1. ASSUME losses = 0 PROVE m = mind
    <3>1. mind.degraded = None /\ Holds(mind.known, log)
      BY <2>1 DEF AlarmInv, Pristine
    <3>2. m0 = mind
      BY <3>1 DEF Rechecked
    <3>3. B = {}
      BY <2>1, <3>1, <3>2, PristineFinds DEF AlarmInv
    <3>4. QED
      BY <3>2, <3>3 DEF Noted
  <2>2. QED
    BY <2>1
<1> HIDE DEF m, B
<1>10. mind' = m /\ MindOK(m)
  <2>1. mind' = m
    BY <1>8 DEF Refused, Inserted
  <2>2. QED
    BY <2>1 DEF Inv
<1>11. open \subseteq open' /\ OpenStands'
  BY <1>2, <1>5, <1>7, <1>10, OpenMore, SeesAll DEF AlarmInv
<1>12. ASSUME m.degraded = None PROVE open = {} /\ open' = {}
  <2>1. m = m0 /\ m.unrecorded = {}
    BY <1>7, <1>10, <1>12 DEF MindOK, Reported
  <2>2. CASE m0 = mind
    <3>1. open = {}
      BY <1>2, <1>12, <2>1, <2>2 DEF AlarmInv, AlarmReported
    <3>2. open' \subseteq open
      BY <1>2, <1>10, <1>12, <2>1, SeesNoMore
    <3>3. QED
      BY <3>1, <3>2
  <2>3. CASE m0 # mind
    <3>1. Outstanding(log) = {}
      BY <1>5, <1>12, <2>1, <2>3
    <3>2. Unacked(log) = {}
      BY <1>3, <3>1, WalkNames
    <3>3. open' = {}
      BY <1>2, <1>10, <1>11, <2>1, <3>2, NothingStands DEF OpenStands
    <3>4. QED
      BY <1>11, <3>3
  <2>4. QED
    BY <2>2, <2>3
<1>13. Pristine'
  <2>1. ASSUME losses = 0 PROVE open' = {}
    <3>1. open = {} /\ m.unrecorded = {} /\ m.degraded = None
      BY <1>9, <2>1 DEF AlarmInv, Pristine
    <3>2. QED
      BY <1>12, <3>1
  <2>2. QED
    BY <1>2, <1>9, <1>10, <2>1 DEF AlarmInv, Pristine
<1>14. RowsHold(log', stamp') /\ BreaksHold'
  BY <1>2, <1>7, <1>10 DEF AlarmInv, BreaksHold, VerdictOK
<1>15. TxRecords' /\ (Admits' => m.degraded = None)
  <2>1. CASE Refused(m)
    BY <1>2, <2>1 DEF Refused, TxRecords, Admits
  <2>2. CASE Inserted(m, change) /\ (change => m.degraded = None)
    <3> DEFINE S == IF m.degraded = None THEN {} ELSE ToRecord(m, log)
    <3>1. PICK order \in Orders(S) :
            tx' = [entries |-> Append(Recording(order), Entry("event", None, 0)),
                 change |-> change, told |-> FALSE]
      BY <2>2 DEF Inserted
    <3>2. BreakSet(S) /\ S \subseteq m.unrecorded /\ (change => S = {})
      BY <1>10, <2>2, ToRecordTyped, FS_EmptySet DEF BreakSet, ToRecord
    <3>3. Recording(order) \in Seq(Plain)
      BY <3>2, RecordingTyped
    <3>4. /\ DOMAIN Recording(order) = DOMAIN order
          /\ \A i \in DOMAIN order : order[i] \in S /\ Recording(order)[i].kind = "chain_broken"
                                     /\ Recording(order)[i].brk = order[i]
      BY DEF Orders, Recording, Entry
    <3> DEFINE r == Recording(order)
               e == Entry("event", None, 0)
    <3>5. e.kind = "event"
      BY DEF Entry
    <3> HIDE DEF r, e, S
    <3>6. ASSUME NEW i \in DOMAIN Append(r, e), Append(r, e)[i].kind # "event"
          PROVE  i \in DOMAIN r /\ Append(r, e)[i] = r[i]
      <4>1. r \in Seq(Plain) /\ DOMAIN Append(r, e) = 1..Len(r) + 1 /\ Len(r) \in Nat
        BY <3>3 DEF r
      <4>2. i # Len(r) + 1
        BY <3>5, <3>6, <4>1
      <4>3. QED
        BY <4>1, <4>2
    <3>7. ASSUME NEW i \in DOMAIN tx'.entries, tx'.entries[i].kind # "event"
          PROVE  /\ tx'.entries[i].kind = "chain_broken" /\ tx'.entries[i].brk \in mind'.unrecorded
                 /\ ~tx'.change
      <4>1. tx'.entries = Append(r, e) /\ tx'.change = change
        BY <3>1 DEF r, e
      <4>2. i \in DOMAIN r /\ tx'.entries[i] = r[i]
        BY <3>6, <3>7, <4>1
      <4>3. tx'.entries[i].kind = "chain_broken" /\ tx'.entries[i].brk \in S
        BY <3>4, <4>2 DEF r
      <4>4. QED
        BY <1>10, <3>2, <4>1, <4>3
    <3>8. tx'.change = change
      BY <3>1
    <3>9. QED
      BY <2>2, <3>7, <3>8 DEF TxRecords, Admits
  <2>3. QED
    BY <1>8, <2>1, <2>2
<1>16. AlarmReported'
  BY <1>10, <1>12 DEF AlarmReported
<1>17. VerdictHolds'
  <2>1. SUFFICES ASSUME visit.at = "adopt", visit.seen = {}, m.unrecorded = {}
                 PROVE  open' = {} /\ (Unacked(log) = {} \/ NoRecords(log))
    BY <1>2, <1>10 DEF VerdictHolds
  <2>2. mind.unrecorded = {} /\ m0.unrecorded = {}
    BY <1>5, <1>7, <2>1
  <2>3. open = {} /\ (Unacked(log) = {} \/ NoRecords(log))
    BY <2>1, <2>2 DEF AlarmInv, VerdictHolds
  <2>4. CASE Unacked(log) = {}
    <3>1. open' = {}
      BY <1>2, <1>10, <1>11, <2>1, <2>4, NothingStands DEF OpenStands
    <3>2. QED
      BY <2>3, <3>1
  <2>5. CASE NoRecords(log) /\ Unacked(log) # {}
    <3>1. SUFFICES ASSUME NEW b \in open' PROVE FALSE
      BY <2>5
    <3>2. b = m.degraded /\ b # None /\ Stands(b, m, log)
      BY <1>2, <1>10, <2>1, <2>3 DEF Sees, Standing
    <3>3. b # mind.degraded
      <4>1. SUFFICES ASSUME b = mind.degraded PROVE FALSE
        OBVIOUS
      <4>2. Stands(b, mind, log)
        BY <2>1, <2>2, <3>2, StandsMore
      <4>3. b \in open
        BY <3>2, <4>1, <4>2 DEF AlarmInv, OpenStands, Watched
      <4>4. QED
        BY <2>3, <4>3
    <3>4. ~IsRecorded(log, b)
      BY <2>5 DEF IsRecorded, NoRecords
    <3>5. m.degraded = m0.degraded
      BY <1>7, <2>1, <3>2, <3>4
    <3>6. m0 # mind
      BY <3>2, <3>3, <3>5
    <3>7. Outstanding(log) # {}
      BY <1>3, <2>5, WalkNames
    <3>8. IsNoted(log)
      BY <1>5, <2>2, <3>6, <3>7
    <3>9. Recordings(log) = {}
      BY <2>5 DEF Recordings, NoRecords
    <3>10. QED
      BY <3>7, <3>8, <3>9 DEF IsNoted, RecordedBy
  <2>6. QED
    BY <2>3, <2>4, <2>5
<1>18. AlarmStep
  <2>1. ~Admits /\ UNCHANGED <<reseals, losses, crashes>>
    BY <1>2 DEF Admits
  <2>2. CASE Admits'
    <3>1. m.degraded = None
      BY <1>15, <2>2
    <3>2. QED
      BY <1>12, <2>1, <2>2, <3>1, Grants
  <2>3. CASE ~Admits'
    BY <1>11, <2>1, <2>3, Raises
  <2>4. QED
    BY <2>2, <2>3
<1>19. QED
  BY <1>11, <1>13, <1>14, <1>15, <1>16, <1>17, <1>18 DEF AlarmInv

-----------------------------------------------------------------------------
(* Every break to record is in the order they are recorded in.             *)
LEMMA OrdersCover ==
    ASSUME NEW S, IsFiniteSet(S), NEW order \in Orders(S)
    PROVE  \A b \in S : \E i \in DOMAIN order : order[i] = b
<1> DEFINE n == Cardinality(S)
           I == 1..n
<1>1. n \in Nat
  BY FS_CardinalityType
<1>2. order \in [I -> S] /\ \A i, j \in I : order[i] = order[j] => i = j
  BY DEF Orders
<1>3. IsFiniteSet(I) /\ Cardinality(I) = n
  BY <1>1, FS_Interval
<1> HIDE DEF I
<1>4. order \in Injection(I, S)
  BY <1>2 DEF Injection, IsInjective
<1>5. order \in Surjection(I, S)
  BY <1>3, <1>4, FS_Injection
<1>6. QED
  BY <1>2, <1>5 DEF Surjection

-----------------------------------------------------------------------------
(* Rows of events and of breaks still to be recorded are written; the      *)
(* server's view stays.                                                    *)
LEMMA WriteAlarm ==
    ASSUME Inv, Inv', AlarmInv, Sees, NEW entries \in Seq(Entries), Writes(entries),
           \A i \in DOMAIN entries : entries[i].kind # "event" =>
              entries[i].kind = "chain_broken" /\ entries[i].brk \in mind.unrecorded,
           UNCHANGED <<mind, visit, serving, losses>>, tx' = None,
           late' \subseteq late \cup {HeadOf(log')}
    PROVE  /\ AlarmInv' /\ open \subseteq open'
           /\ (\A i \in DOMAIN entries : entries[i].kind = "event") => open' \subseteq open
<1>1. \A i \in DOMAIN entries : entries[i].kind # "resealed"
  OBVIOUS
<1>2. mind.unrecorded = {} => \A i \in DOMAIN entries : entries[i].kind = "event"
  OBVIOUS
<1>3. open \subseteq open'
  BY <1>1, OpenKept DEF AlarmInv, ToRecord
<1>4. ASSUME \A i \in DOMAIN entries : entries[i].kind = "event" PROVE open' \subseteq open
  BY <1>4, OpenNoMore DEF AlarmInv
<1>5. Pristine'
  <2>1. SUFFICES ASSUME losses = 0 PROVE Pristine'
    BY DEF Pristine
  <2>2. mind.unrecorded = {} /\ open = {} /\ Holds(mind.known, log) /\ Holds(visit.head, log)
        /\ (\A h \in late : Holds(h, log)) /\ mind.degraded = None /\ visit.seen = {}
    BY <2>1 DEF AlarmInv, Pristine
  <2>3. /\ Found(log') = {}
        /\ \A n \in DOMAIN log' : log'[n].kind \notin {"chain_broken", "resealed"}
        /\ \A h : Holds(h, log) => Holds(h, log')
        /\ Holds(HeadOf(log'), log')
    BY <1>2, <2>1, <2>2, PristineWrites DEF AlarmInv
  <2>4. open' = {}
    BY <1>2, <1>4, <2>2
  <2>5. QED
    BY <2>2, <2>3, <2>4 DEF Pristine
<1>6. RowsHold(log', stamp') /\ BreaksHold'
  BY <1>1, WritesKeep DEF AlarmInv, BreaksHold, VerdictOK
<1>7. OpenStands' /\ TxRecords'
  BY SeesAll DEF TxRecords
<1>8. AlarmReported'
  <2>1. mind.degraded = None => mind.unrecorded = {}
    BY DEF Inv, MindOK, Reported
  <2>2. mind.degraded = None => open' \subseteq open
    BY <1>2, <1>4, <2>1
  <2>3. QED
    BY <2>2 DEF AlarmInv, AlarmReported
<1>9. VerdictHolds'
  <2>1. SUFFICES ASSUME visit.at = "adopt", visit.seen = {}, mind.unrecorded = {}
                 PROVE  open' = {} /\ (Unacked(log') = {} \/ NoRecords(log'))
    BY DEF VerdictHolds
  <2>2. open = {} /\ (Unacked(log) = {} \/ NoRecords(log))
    BY <2>1 DEF AlarmInv, VerdictHolds
  <2>3. \A i \in DOMAIN entries : entries[i].kind = "event"
    BY <1>2, <2>1
  <2>4. open' = {}
    BY <1>4, <2>2, <2>3
  <2>5. Appended(log, log', stamp, entries)
    BY WritesAppends
  <2>6. LogOK(log, stamp) /\ LogOK(log', stamp') /\ stamp \in Nat /\ stamp' \in Nat
    BY DEF Inv, Stored
  <2>7. Unacked(log') = Unacked(log)
    BY <2>3, <2>5, <2>6, UnackedKept
  <2>8. NoRecords(log) => NoRecords(log')
    <3>1. SUFFICES ASSUME NoRecords(log), NEW n \in DOMAIN log'
                   PROVE  log'[n].kind # "chain_broken"
      BY DEF NoRecords
    <3>2. CASE n \in DOMAIN log
      BY <2>5, <3>1, <3>2 DEF Appended, NoRecords
    <3>3. CASE n \notin DOMAIN log
      BY <2>3, <2>5, <3>3, NewRows DEF NewRow
    <3>4. QED
      BY <3>2, <3>3
  <2>9. QED
    BY <2>2, <2>4, <2>7, <2>8
<1>10. QED
  BY <1>3, <1>4, <1>5, <1>6, <1>7, <1>8, <1>9 DEF AlarmInv

LEMMA CommitAlarm ==
    ASSUME Inv, Inv', AlarmInv, Commit
    PROVE  AlarmInv' /\ AlarmStep
<1>1. /\ tx # None /\ tx \in Txs /\ tx' = None /\ Sees /\ Writes(tx.entries)
      /\ UNCHANGED <<mind, visit, serving, losses, reseals, crashes>>
      /\ late' \subseteq late \cup {HeadOf(log')}
  BY DEF Commit, Inv, Held
<1>2. tx.entries \in Seq(Entries)
  <2>1. Plain \subseteq Entries
    BY DEF Entries
  <2>2. QED
    BY <1>1, <2>1 DEF Txs
<1>3. \A i \in DOMAIN tx.entries : tx.entries[i].kind # "event" =>
         /\ tx.entries[i].kind = "chain_broken" /\ tx.entries[i].brk \in mind.unrecorded
         /\ ~tx.change
  BY <1>1 DEF AlarmInv, TxRecords
<1> DEFINE entries == tx.entries
<1>4. entries \in Seq(Entries) /\ Writes(entries)
      /\ \A i \in DOMAIN entries : entries[i].kind # "event" =>
            /\ entries[i].kind = "chain_broken" /\ entries[i].brk \in mind.unrecorded
            /\ ~tx.change
  BY <1>1, <1>2, <1>3
<1> HIDE DEF entries
<1>5. /\ AlarmInv' /\ open \subseteq open'
      /\ (\A i \in DOMAIN entries : entries[i].kind = "event") => open' \subseteq open
  BY <1>1, <1>4, WriteAlarm
<1>6. AlarmStep
  <2>1. CASE tx.change
    <3>1. open' \subseteq open
      BY <1>4, <1>5, <2>1
    <3>2. QED
      BY <1>1, <1>5, <2>1, <3>1, Settles DEF Admits
  <2>2. CASE ~tx.change
    BY <1>1, <1>5, <2>2, Raises DEF Admits
  <2>3. QED
    BY <2>1, <2>2
<1>7. QED
  BY <1>5, <1>6

LEMMA CliAppendsAlarm ==
    ASSUME Inv, Inv', AlarmInv, CliAppends
    PROVE  AlarmInv' /\ AlarmStep
<1> DEFINE e == <<Entry("event", None, 0)>>
<1>1. e \in Seq(Entries) /\ \A i \in DOMAIN e : e[i].kind = "event"
  BY DEF Entry, Entries, Plain
<1>2. /\ Writes(e) /\ Sees /\ tx = None /\ tx' = None
      /\ UNCHANGED <<mind, visit, serving, losses, late, reseals, crashes>>
  BY DEF CliAppends
<1> HIDE DEF e
<1>3. AlarmInv' /\ open \subseteq open' /\ open' \subseteq open
  BY <1>1, <1>2, WriteAlarm
<1>4. QED
  BY <1>2, <1>3, Raises DEF Admits

-----------------------------------------------------------------------------
(* Flushes and visits.                                                     *)

(* The server comes to report no more than it did.                         *)
Quiet == serving' \/ visit'.at = "record" => serving \/ visit.at = "record"

(* A visit that holds no verdict.                                          *)
NoVerdict ==
    /\ visit'.at # "adopt"
    /\ visit' = visit \/ (visit'.seen = {} /\ visit'.head = None)

LEMMA Stays ==
    ASSUME Inv, Inv', AlarmInv, Sees, UNCHANGED <<disk, losses>>, late' \subseteq late,
           mind'.unrecorded = mind.unrecorded, mind'.degraded = mind.degraded,
           losses = 0 => Holds(mind'.known, log), NoVerdict, Quiet, tx' = tx
    PROVE  AlarmInv' /\ open' = open
<1>1. open' = open
  BY OpenSame DEF AlarmInv, disk
<1>2. log' = log /\ stamp' = stamp
  BY DEF disk
<1>3. Pristine'
  BY <1>1, <1>2 DEF AlarmInv, Pristine, NoVerdict, Holds
<1>4. RowsHold(log', stamp') /\ BreaksHold'
  BY <1>2 DEF AlarmInv, BreaksHold, ViewOK, VerdictOK, NoVerdict
<1>5. OpenStands' /\ TxRecords'
  BY SeesAll DEF AlarmInv, TxRecords
<1>6. AlarmReported' /\ VerdictHolds'
  BY <1>1 DEF AlarmInv, AlarmReported, VerdictHolds, NoVerdict, Quiet
<1>7. QED
  BY <1>1, <1>3, <1>4, <1>5, <1>6 DEF AlarmInv

LEMMA FlushAlarm ==
    ASSUME Inv, Inv', AlarmInv, Sees, FlushLocked, UNCHANGED <<tx, late, tally>>, NoVerdict, Quiet
    PROVE  AlarmInv' /\ AlarmStep
<1>1. losses' = losses /\ UNCHANGED <<losses, reseals, crashes>> /\ tx' = tx /\ late' = late
  BY DEF tally
<1>2. CASE mind.unrecorded = {}
  <2>1. UNCHANGED disk /\ mind' = mind
    BY <1>2 DEF FlushLocked
  <2>2. AlarmInv' /\ open' = open
    BY <1>1, <2>1, Stays DEF AlarmInv, Pristine
  <2>3. QED
    BY <1>1, <2>2, Raises DEF Admits
<1>3. CASE mind.unrecorded # {}
  <2> DEFINE S == ToRecord(mind, log)
  <2>1. PICK order \in Orders(S) :
            /\ Writes(Recording(order))
            /\ LET m == IF order = <<>> THEN mind ELSE Remembering(mind, HeadOf(log'))
               IN  mind' = Mind(m.known, m.degraded, {}, m.checked)
    BY <1>3 DEF FlushLocked
  <2>2. tx = None /\ losses # 0 /\ mind.degraded # None
    BY <1>3 DEF FlushLocked, AlarmInv, Pristine, Inv, MindOK, Reported
  <2>3. mind'.unrecorded = {} /\ mind'.degraded = mind.degraded
    BY <2>1 DEF Remembering, Mind
  <2> DEFINE r == Recording(order)
  <2>4. BreakSet(S)
    BY ToRecordTyped DEF Inv
  <2>5. r \in Seq(Entries) /\ Writes(r)
    BY <2>1, <2>4, RecordingTyped
  <2>6. DOMAIN r = DOMAIN order
        /\ \A i \in DOMAIN r : r[i].kind = "chain_broken" /\ r[i].brk = order[i]
    BY DEF Recording, Entry
  <2>7. \A b \in S : \E i \in DOMAIN order : order[i] = b
    BY <2>4, OrdersCover DEF BreakSet
  <2> HIDE DEF r
  <2>8. \A i \in DOMAIN r : r[i].kind # "resealed"
    BY <2>6
  <2>9. \A b \in S : \E i \in DOMAIN r : r[i].kind = "chain_broken" /\ r[i].brk = b
    BY <2>6, <2>7
  <2>10. open \subseteq open'
    BY <2>5, <2>8, <2>9, OpenKept DEF AlarmInv
  <2>11. Pristine' /\ OpenStands' /\ TxRecords'
    BY <1>1, <2>2, SeesAll DEF Pristine, TxRecords
  <2>12. RowsHold(log', stamp') /\ ViewOK(mind, log', stamp') /\ VerdictOK(log', stamp')
    BY <2>5, <2>8, WritesKeep DEF AlarmInv
  <2>13. BreaksHold'
    BY <2>3, <2>12 DEF BreaksHold, ViewOK, VerdictOK, NoVerdict
  <2>14. AlarmReported' /\ VerdictHolds'
    BY <2>2, <2>3 DEF AlarmReported, VerdictHolds, NoVerdict
  <2>15. AlarmStep
    BY <1>1, <2>10, Raises DEF Admits
  <2>16. QED
    BY <2>11, <2>12, <2>13, <2>14, <2>15 DEF AlarmInv
<1>4. QED
  BY <1>2, <1>3

LEMMA FlushesAlarm ==
    ASSUME Inv, Inv', AlarmInv, Flush \/ VisitFlushes \/ VisitEnds
    PROVE  AlarmInv' /\ AlarmStep
<1>1. /\ FlushLocked \/ UNCHANGED <<disk, mind>>
      /\ Sees /\ UNCHANGED <<tx, late, tally>>
  BY DEF Flush, VisitFlushes, VisitEnds
<1>2. NoVerdict /\ Quiet
  BY DEF NoVerdict, Quiet, Flush, VisitFlushes, VisitEnds, At, NoVisit
<1>3. CASE FlushLocked
  BY <1>1, <1>2, <1>3, FlushAlarm
<1>4. CASE UNCHANGED <<disk, mind>>
  <2>1. tx' = tx /\ late' = late /\ mind' = mind /\ UNCHANGED <<losses, reseals, crashes>>
    BY <1>1, <1>4 DEF tally
  <2>2. AlarmInv' /\ open' = open
    BY <1>1, <1>2, <1>4, <2>1, Stays DEF AlarmInv, Pristine
  <2>3. QED
    BY <2>1, <2>2, Raises DEF Admits
<1>5. QED
  BY <1>1, <1>3, <1>4

(* A visit starts, or ends early.                                          *)
LEMMA StartsAlarm ==
    ASSUME Inv, Inv', AlarmInv,
           Boot \/ VisitFails \/ Visit
    PROVE  AlarmInv' /\ AlarmStep
<1>1. UNCHANGED <<disk, mind, tx, late, serving, open, tally>>
  BY DEF Boot, Visit, VisitFails
<1>2. visit'.at \in {"flush", "none"} /\ visit'.seen = {} /\ visit'.head = None
  BY DEF Boot, Visit, VisitFails, Starting, NoVisit
<1>3. log' = log /\ stamp' = stamp /\ UNCHANGED <<losses, reseals, crashes>>
  BY <1>1 DEF disk, tally
<1>4. Pristine'
  BY <1>1, <1>2, <1>3 DEF AlarmInv, Pristine, Holds
<1>5. RowsHold(log', stamp') /\ BreaksHold' /\ OpenStands' /\ TxRecords'
  BY <1>1, <1>2, <1>3 DEF AlarmInv, BreaksHold, ViewOK, VerdictOK, OpenStands, TxRecords
<1>6. AlarmReported' /\ VerdictHolds'
  BY <1>1, <1>2 DEF AlarmInv, AlarmReported, VerdictHolds
<1>7. AlarmStep
  BY <1>1, <1>3, Raises DEF Admits
<1>8. QED
  BY <1>4, <1>5, <1>6, <1>7 DEF AlarmInv

LEMMA ChecksAlarm ==
    ASSUME Inv, Inv', AlarmInv, VisitChecks
    PROVE  AlarmInv' /\ AlarmStep
<1> DEFINE B == HeadBreaks(mind.known, log, FALSE)
<1>1. /\ mind' = Noted(mind, B, log) /\ Sees /\ visit.at = "check"
      /\ UNCHANGED <<disk, tx, late, serving, tally>>
      /\ visit'.at \in {"walk", "again"} /\ visit'.seen = {} /\ visit'.head = None
  BY DEF VisitChecks, At
<1>2. log' = log /\ stamp' = stamp /\ UNCHANGED <<losses, reseals, crashes>>
  BY <1>1 DEF disk, tally
<1>3. LogOK(log, stamp) /\ stamp \in Nat /\ mind.known \in Heads \cup {None}
      /\ ViewOK(mind, log, stamp)
  BY DEF Inv, Stored, MindOK, Minds, AlarmInv, BreaksHold
<1>4. \A b \in B : b # None /\ Timely(b, log) /\ Old(b, stamp)
  <2>1. B \subseteq Breaks
    BY <1>3, HeadBreaksTyped
  <2>2. QED
    BY <1>3, <2>1, HeadBreakIs, NoneAssumption
<1>5. losses = 0 => B = {}
  <2>1. losses = 0 => Holds(mind.known, log)
    BY DEF AlarmInv, Pristine
  <2>2. QED
    BY <2>1, PristineFinds DEF AlarmInv
<1> HIDE DEF B
<1>6. /\ ViewOK(mind', log, stamp) /\ mind.unrecorded \subseteq mind'.unrecorded
      /\ mind.degraded # None => mind'.degraded = mind.degraded
      /\ mind'.degraded = None => mind' = mind /\ B = {}
  BY <1>1, <1>3, <1>4, NotedView
<1>7. open \subseteq open' /\ OpenStands'
  BY <1>1, <1>2, <1>6, OpenMore, SeesAll DEF AlarmInv
<1>8. mind'.degraded = None => open' = open
  BY <1>1, <1>2, <1>6, OpenSame DEF AlarmInv
<1>9. Pristine'
  <2>1. ASSUME losses = 0 PROVE mind' = mind /\ open' = open
    <3>1. mind' = mind
      BY <1>1, <1>5, <2>1 DEF Noted
    <3>2. QED
      BY <1>1, <1>2, <3>1, OpenSame DEF AlarmInv
  <2>2. QED
    BY <1>1, <1>2, <2>1 DEF AlarmInv, Pristine, Holds
<1>10. RowsHold(log', stamp') /\ BreaksHold'
  BY <1>1, <1>2, <1>6 DEF AlarmInv, BreaksHold, VerdictOK
<1>11. TxRecords'
  BY <1>1, <1>6 DEF AlarmInv, TxRecords
<1>12. AlarmReported' /\ VerdictHolds'
  BY <1>1, <1>6, <1>8 DEF AlarmInv, AlarmReported, VerdictHolds
<1>13. AlarmStep
  BY <1>1, <1>2, <1>7, Raises DEF Admits
<1>14. QED
  BY <1>7, <1>9, <1>10, <1>11, <1>12, <1>13 DEF AlarmInv

LEMMA WalksAlarm ==
    ASSUME Inv, Inv', AlarmInv, VisitWalks
    PROVE  AlarmInv' /\ AlarmStep
<1>1. /\ UNCHANGED <<disk, mind, tx, late, serving, open, tally>>
      /\ visit'.at = "adopt" /\ visit'.seen = Outstanding(log)
      /\ visit'.noted = IsNoted(log) /\ visit'.head = HeadOf(log)
  BY DEF VisitWalks
<1>2. log' = log /\ stamp' = stamp /\ UNCHANGED <<losses, reseals, crashes>>
  BY <1>1 DEF disk, tally
<1>3. LogOK(log, stamp) /\ stamp \in Nat
  BY DEF Inv, Stored
<1>4. Pristine'
  <2>1. losses = 0 => Outstanding(log) = {}
    BY PristineFinds DEF AlarmInv
  <2>2. Holds(HeadOf(log), log)
    BY <1>3, TopIsLast DEF Holds, HeadOf
  <2>3. QED
    BY <1>1, <1>2, <2>1, <2>2 DEF AlarmInv, Pristine
<1>5. VerdictOK(log, stamp)'
  BY <1>1, <1>2, <1>3, WalkFinds DEF VerdictOK
<1>6. RowsHold(log', stamp') /\ BreaksHold' /\ OpenStands' /\ TxRecords'
  BY <1>1, <1>2, <1>5 DEF AlarmInv, BreaksHold, OpenStands, TxRecords
<1>7. AlarmReported'
  BY <1>1 DEF AlarmInv, AlarmReported
<1>8. VerdictHolds'
  <2>1. Outstanding(log) = {} => Unacked(log) = {}
    BY <1>3, WalkNames
  <2>2. Unacked(log) = {} /\ mind.unrecorded = {} => open = {}
    BY NothingStands DEF AlarmInv, OpenStands
  <2>3. QED
    BY <1>1, <1>2, <2>1, <2>2 DEF VerdictHolds
<1>9. AlarmStep
  BY <1>1, <1>2, Raises DEF Admits
<1>10. QED
  BY <1>4, <1>6, <1>7, <1>8, <1>9 DEF AlarmInv

LEMMA AdoptsAlarm ==
    ASSUME Inv, Inv', AlarmInv, VisitAdopts
    PROVE  AlarmInv' /\ AlarmStep
<1>1. /\ mind' \in Adopted(mind, visit.seen, visit.noted, visit.head) /\ Sees
      /\ UNCHANGED <<disk, tx, late, serving, tally>> /\ visit.at = "adopt"
      /\ visit'.at = "record" /\ visit'.seen = {} /\ visit'.head = None
  BY DEF VisitAdopts, At
<1>2. log' = log /\ stamp' = stamp /\ UNCHANGED <<losses, reseals, crashes>>
  BY <1>1 DEF disk, tally
<1>3. /\ None \notin visit.seen \cup mind.unrecorded /\ visit.noted \in BOOLEAN
      /\ ViewOK(mind, log, stamp) /\ VerdictOK(log, stamp)
  BY NoneAssumption DEF Inv, Visited, Visits, MindOK, Minds, AlarmInv, BreaksHold
<1>4. /\ ViewOK(mind', log, stamp) /\ mind.unrecorded \subseteq mind'.unrecorded
      /\ mind'.degraded = None => visit.seen = {} /\ mind'.unrecorded = {}
      /\ visit.seen = {} => mind'.unrecorded = mind.unrecorded
      /\ visit.seen = {} /\ mind.unrecorded = {} => mind'.degraded = None /\ mind'.known = visit.head
  <2>1. \A b \in visit.seen : Old(b, stamp) /\ (~visit.noted => Timely(b, log))
    BY <1>3 DEF VerdictOK
  <2>2. QED
    BY <1>1, <1>3, <2>1, AdoptedView
<1>5. open \subseteq open' /\ OpenStands'
  BY <1>1, <1>2, <1>4, OpenMore, SeesAll DEF AlarmInv
<1>6. mind'.degraded = None => open' = {}
  <2>1. SUFFICES ASSUME mind'.degraded = None PROVE open' = {}
    OBVIOUS
  <2>2. mind'.unrecorded = {} /\ mind.unrecorded = {} /\ visit.seen = {}
    BY <1>4, <2>1
  <2>3. open = {}
    BY <1>1, <2>2 DEF AlarmInv, VerdictHolds
  <2>4. open' \subseteq open
    BY <1>1, <2>1, <2>2, SeesNoMore
  <2>5. QED
    BY <2>3, <2>4
<1>7. Pristine'
  BY <1>1, <1>2, <1>4, <1>6 DEF AlarmInv, Pristine, Holds
<1>8. RowsHold(log', stamp') /\ BreaksHold'
  BY <1>1, <1>2, <1>4 DEF AlarmInv, BreaksHold, VerdictOK
<1>9. TxRecords'
  BY <1>1, <1>4 DEF AlarmInv, TxRecords
<1>10. AlarmReported' /\ VerdictHolds'
  BY <1>1, <1>6 DEF AlarmReported, VerdictHolds
<1>11. AlarmStep
  BY <1>1, <1>2, <1>5, Raises DEF Admits
<1>12. QED
  BY <1>5, <1>7, <1>8, <1>9, <1>10, <1>11 DEF AlarmInv

LEMMA CommittedAlarm ==
    ASSUME Inv, Inv', AlarmInv, \E h \in late : Committed(h)
    PROVE  AlarmInv' /\ AlarmStep
<1>1. PICK h \in late : Committed(h)
  OBVIOUS
<1>2. /\ UNCHANGED <<disk, tx, visit, serving, tally>> /\ Sees /\ late' \subseteq late
      /\ mind' = Remembering(mind, h)
  BY <1>1 DEF Committed
<1>3. UNCHANGED <<losses, reseals, crashes>>
  BY <1>2 DEF tally
<1>4. mind'.unrecorded = mind.unrecorded /\ mind'.degraded = mind.degraded
      /\ mind'.known \in {mind.known, h}
  BY <1>2 DEF Remembering, Mind
<1>5. losses = 0 => Holds(mind'.known, log)
  BY <1>4 DEF AlarmInv, Pristine
<1>6. CASE visit.at = "adopt"
  <2>1. open' = open /\ log' = log /\ stamp' = stamp
    BY <1>2, <1>4, OpenSame DEF AlarmInv, disk
  <2>2. Pristine'
    BY <1>2, <1>3, <1>4, <1>5, <2>1 DEF AlarmInv, Pristine
  <2>3. RowsHold(log', stamp') /\ BreaksHold' /\ OpenStands' /\ TxRecords'
    BY <1>2, <1>4, <2>1, SeesAll DEF AlarmInv, BreaksHold, ViewOK, VerdictOK, TxRecords
  <2>4. AlarmReported' /\ VerdictHolds'
    BY <1>2, <1>4, <2>1 DEF AlarmInv, AlarmReported, VerdictHolds
  <2>5. AlarmStep
    BY <1>2, <1>3, <2>1, Raises DEF Admits
  <2>6. QED
    BY <2>2, <2>3, <2>4, <2>5 DEF AlarmInv
<1>7. CASE visit.at # "adopt"
  <2>1. NoVerdict /\ Quiet
    BY <1>2, <1>7 DEF NoVerdict, Quiet
  <2>2. AlarmInv' /\ open' = open
    BY <1>2, <1>3, <1>4, <1>5, <2>1, Stays
  <2>3. QED
    BY <1>2, <1>3, <2>2, Raises DEF Admits
<1>8. QED
  BY <1>6, <1>7

(* A rollback may use up hashes: what is known of breaks stays true.       *)
LEMMA RollbackAlarm ==
    ASSUME Inv, Inv', AlarmInv, Rollback \/ UNCHANGED vars
    PROVE  AlarmInv' /\ AlarmStep
<1>1. UNCHANGED <<log, mind, late, visit, serving, open, tally>> /\ tx' \in {tx, None}
  BY DEF Rollback, vars, disk
<1>2. UNCHANGED <<log, losses, reseals, crashes>>
  BY <1>1 DEF tally
<1>3. Pristine' /\ TxRecords'
  BY <1>1, <1>2 DEF AlarmInv, Pristine, TxRecords
<1>4. OpenStands'
  BY <1>1, <1>2 DEF AlarmInv, OpenStands
<1>5. RowsHold(log', stamp') /\ BreaksHold'
  <2>1. stamp \in Nat /\ stamp' \in Nat /\ stamp' >= stamp
    <3>1. tx # None => Len(tx.entries) \in Nat
      BY DEF Inv, Held, Txs
    <3>2. stamp' = stamp \/ (tx # None /\ stamp' = stamp + Len(tx.entries))
      BY DEF Rollback, vars, disk
    <3>3. QED
      BY <3>1, <3>2 DEF Inv, Stored
  <2>2. \A b \in Breaks : Old(b, stamp) => Old(b, stamp')
    BY <2>1 DEF Breaks, Old
  <2>3. \A n \in DOMAIN log : log[n].kind \in {"chain_broken", "resealed"} => log[n].brk \in Breaks
    BY DEF Inv, Stored, LogOK, RowOK
  <2>4. RowsHold(log, stamp')
    BY <2>2, <2>3 DEF AlarmInv, RowsHold
  <2>5. mind.unrecorded \subseteq Breaks /\ mind.degraded \in Breaks \cup {None}
        /\ visit.seen \subseteq Breaks
    BY DEF Inv, MindOK, Minds, Visited, Visits
  <2>6. ViewOK(mind, log, stamp') /\ VerdictOK(log, stamp')
    BY <2>2, <2>5 DEF AlarmInv, BreaksHold, ViewOK, VerdictOK
  <2>7. QED
    BY <1>1, <1>2, <2>4, <2>6 DEF BreaksHold, ViewOK, VerdictOK
<1>6. AlarmReported' /\ VerdictHolds'
  BY <1>1, <1>2 DEF AlarmInv, AlarmReported, VerdictHolds
<1>7. AlarmStep
  BY <1>1, <1>2, Raises, Settles DEF Admits
<1>8. QED
  BY <1>3, <1>4, <1>5, <1>6, <1>7 DEF AlarmInv

-----------------------------------------------------------------------------
(* Reseals, and what the root CLI records.                                 *)
LEMMA AcknowledgesWrites ==
    ASSUME Inv, NEW b \in Outstanding(log), Acknowledges(b)
    PROVE  \E entries \in Seq(Entries) :
              /\ Writes(entries)
              /\ \A i \in DOMAIN entries : entries[i].brk = b
<1> DEFINE by == RecordedBy(log, b)
           n == CHOOSE n \in by : \A k \in by : n <= k
           one == <<Entry("resealed", b, log[n].hash)>>
           two == <<Entry("chain_broken", b, 0), Entry("resealed", b, stamp + 1)>>
<1>1. b \in Breaks /\ stamp \in Nat
  BY OutstandingTyped DEF Inv, Stored, BreakSet
<1>2. CASE by # {}
  <2>1. by \subseteq Recordings(log) /\ Recordings(log) \subseteq Nat
    BY RecordingsTyped DEF RecordedBy, Inv, Stored
  <2>2. \E k \in by : \A i \in by : k <= i
    BY <1>2, <2>1, Least
  <2>3. n \in Recordings(log)
    BY <2>1, <2>2
  <2>4. log[n].hash \in Nat
    BY <2>3, RecordingsTyped DEF Inv, Stored
  <2>5. Writes(one)
    BY <1>2 DEF Acknowledges
  <2> HIDE DEF n
  <2>6. one \in Seq(Entries) /\ \A i \in DOMAIN one : one[i].brk = b
    BY <1>1, <2>4 DEF Entry, Entries
  <2> HIDE DEF one
  <2>7. QED
    BY <2>5, <2>6
<1>3. CASE by = {}
  <2>1. Writes(two)
    BY <1>3 DEF Acknowledges
  <2>2. two \in Seq(Entries) /\ DOMAIN two = {1, 2} /\ two[1].brk = b /\ two[2].brk = b
    BY <1>1 DEF Entry, Entries, Plain
  <2> HIDE DEF two
  <2>3. QED
    BY <2>1, <2>2
<1>4. QED
  BY <1>2, <1>3

(* What is resealed or recorded is a break the walk sees: no other break   *)
(* comes to stand.                                                         *)
LEMMA MarksAlarm ==
    ASSUME Inv, Inv', AlarmInv, Sees, NEW b \in Outstanding(log),
           NEW entries \in Seq(Entries), Writes(entries),
           \A i \in DOMAIN entries : entries[i].brk = b,
           mind'.unrecorded = mind.unrecorded, mind'.degraded = mind.degraded,
           tx' = None, losses' = losses, NoVerdict, Quiet
    PROVE  AlarmInv' /\ open' \subseteq open
<1>1. LogOK(log, stamp) /\ stamp \in Nat
  BY DEF Inv, Stored
<1>2. b \in Unacked(log) /\ Old(b, stamp)
  BY <1>1, WalkFinds DEF Outstanding
<1>3. losses # 0
  BY PristineFinds DEF AlarmInv
<1>4. open' \subseteq open
  BY <1>2, OpenNoMore DEF AlarmInv
<1>5. RowsHold(log', stamp') /\ ViewOK(mind, log', stamp') /\ VerdictOK(log', stamp')
  BY <1>2, WritesKeep DEF AlarmInv
<1>6. BreaksHold'
  BY <1>5 DEF BreaksHold, ViewOK, VerdictOK, NoVerdict
<1>7. Pristine' /\ OpenStands' /\ TxRecords'
  BY <1>3, SeesAll DEF Pristine, TxRecords
<1>8. AlarmReported' /\ VerdictHolds'
  BY <1>4 DEF AlarmInv, AlarmReported, VerdictHolds, NoVerdict, Quiet
<1>9. QED
  BY <1>4, <1>5, <1>6, <1>7, <1>8 DEF AlarmInv

LEMMA ResealAlarm ==
    ASSUME Inv, Inv', AlarmInv, Reseal
    PROVE  AlarmInv' /\ AlarmStep
<1>1. /\ visit.at = "reseal" /\ tx = None /\ tx' = None /\ late' = late /\ Sees
      /\ UNCHANGED <<serving, losses, crashes>>
  BY DEF Reseal
<1>2. visit'.at \in {"flush", "none"} /\ visit'.seen = {} /\ visit'.head = None
  BY DEF Reseal, Starting, NoVisit
<1>3. NoVerdict /\ Quiet
  BY <1>1, <1>2 DEF NoVerdict, Quiet
<1>4. CASE (\E b \in Outstanding(log) : Acknowledges(b))
           /\ mind' = Remembering(mind, HeadOf(log')) /\ reseals' = reseals + 1
  <2>1. mind'.unrecorded = mind.unrecorded /\ mind'.degraded = mind.degraded
    BY <1>4 DEF Remembering, Mind
  <2>2. PICK b \in Outstanding(log) : Acknowledges(b)
    BY <1>4
  <2>3. PICK entries \in Seq(Entries) : Writes(entries) /\ \A i \in DOMAIN entries : entries[i].brk = b
    BY <2>2, AcknowledgesWrites
  <2>4. AlarmInv' /\ open' \subseteq open
    BY <1>1, <1>3, <2>1, <2>3, MarksAlarm
  <2>5. QED
    BY <1>1, <1>4, <2>4, Acknowledged DEF Admits
<1>5. CASE UNCHANGED <<disk, mind, reseals>>
  <2>1. losses = 0 => Holds(mind'.known, log)
    BY <1>5 DEF AlarmInv, Pristine
  <2>2. AlarmInv' /\ open' = open
    BY <1>1, <1>3, <1>5, <2>1, Stays
  <2>3. QED
    BY <1>1, <1>5, <2>2, Raises DEF Admits
<1>6. QED
  BY <1>4, <1>5 DEF Reseal

LEMMA CliMarksAlarm ==
    ASSUME CliRaces = FALSE, Inv, Inv', AlarmInv, CliRecords \/ CliReseals
    PROVE  AlarmInv' /\ AlarmStep
<1>1. /\ tx = None /\ tx' = None /\ visit.at = "none" /\ visit' = visit /\ Sees
      /\ UNCHANGED <<mind, late, serving, losses, crashes>>
  BY DEF CliRecords, CliReseals, CliTurn, tally
<1>2. NoVerdict /\ Quiet
  BY <1>1 DEF NoVerdict, Quiet
<1>3. CASE CliRecords
  <2>1. PICK b \in Outstanding(log) : Writes(<<Entry("chain_broken", b, 0)>>)
    BY <1>3 DEF CliRecords
  <2>2. b \in Breaks
    BY OutstandingTyped DEF Inv, Stored, BreakSet
  <2> DEFINE e == <<Entry("chain_broken", b, 0)>>
  <2>3. e \in Seq(Entries) /\ Writes(e)
        /\ \A i \in DOMAIN e : e[i].kind = "chain_broken" /\ e[i].brk = b
    BY <2>1, <2>2 DEF Entry, Entries, Plain
  <2> HIDE DEF e
  <2>4. AlarmInv' /\ open' \subseteq open
    BY <1>1, <1>2, <2>3, MarksAlarm
  <2>5. \A i \in DOMAIN e : e[i].kind # "resealed"
    BY <2>3
  <2>6. open \subseteq open'
    BY <1>1, <2>3, <2>5, OpenKept DEF AlarmInv, ToRecord
  <2>7. reseals' = reseals
    BY <1>3 DEF CliRecords, tally
  <2>8. QED
    BY <1>1, <2>4, <2>6, <2>7, Raises DEF Admits
<1>4. CASE CliReseals
  <2>1. PICK b \in Outstanding(log) : Acknowledges(b)
    BY <1>4 DEF CliReseals
  <2>2. PICK entries \in Seq(Entries) : Writes(entries) /\ \A i \in DOMAIN entries : entries[i].brk = b
    BY <2>1, AcknowledgesWrites
  <2>3. AlarmInv' /\ open' \subseteq open
    BY <1>1, <1>2, <2>2, MarksAlarm
  <2>4. reseals' = reseals + 1
    BY <1>4 DEF CliReseals
  <2>5. QED
    BY <1>1, <2>3, <2>4, Acknowledged DEF Admits
<1>5. QED
  BY <1>3, <1>4

-----------------------------------------------------------------------------
(* The loss of rows, and crashes.                                          *)
LEMMA LosesAlarm ==
    ASSUME MaxLosses <= 1, Inv, Inv', AlarmInv, NEW how, NEW L, Loses(how, L),
           DOMAIN L \subseteq DOMAIN log, \A n \in DOMAIN L : L[n].kind = log[n].kind
    PROVE  AlarmInv' /\ AlarmStep
<1>1. /\ log' = L /\ losses' = losses + 1 /\ losses < MaxLosses /\ Sees /\ tx = None
      /\ UNCHANGED <<stamp, mind, tx, late, visit, serving, reseals, crashes>>
  BY DEF Loses
<1>2. losses = 0 /\ losses' = 1
  BY <1>1, BoundsAssumption DEF Inv, Counted
<1>3. /\ \A n \in DOMAIN L : L[n].kind \notin {"chain_broken", "resealed"}
      /\ mind.degraded = None /\ mind.unrecorded = {} /\ open = {} /\ visit.seen = {}
  BY <1>2 DEF AlarmInv, Pristine
<1>4. open' = {}
  BY <1>1, <1>3, SeesNoMore
<1>5. Pristine' /\ OpenStands' /\ TxRecords'
  BY <1>1, <1>2, SeesAll DEF Pristine, TxRecords
<1>6. RowsHold(log', stamp') /\ BreaksHold'
  BY <1>1, <1>3 DEF RowsHold, BreaksHold, ViewOK, VerdictOK
<1>7. AlarmReported' /\ VerdictHolds'
  BY <1>1, <1>3, <1>4 DEF AlarmReported, VerdictHolds, NoRecords
<1>8. AlarmStep
  BY <1>1, Troubles DEF Admits, Inv
<1>9. QED
  BY <1>5, <1>6, <1>7, <1>8 DEF AlarmInv

(* A head the server is told of and that may never come is trouble too.    *)
LEMMA HookAlarm ==
    ASSUME MaxLosses <= 1, Inv, Inv', AlarmInv, CommitHook
    PROVE  AlarmInv' /\ AlarmStep
<1>1. /\ log' = log /\ stamp' = stamp /\ losses' = losses + 1 /\ losses < MaxLosses
      /\ Sees /\ UNCHANGED <<late, visit, serving, reseals, crashes>>
      /\ mind' = Remembering(mind, HeadOf(Extended(log, stamp, tx.entries)))
  BY DEF CommitHook, disk
<1>2. losses = 0 /\ losses' = 1
  BY <1>1, BoundsAssumption DEF Inv, Counted
<1>3. tx # None /\ tx' # None /\ tx'.entries = tx.entries /\ tx'.change = tx.change
  <2>1. tx # None /\ tx \in Txs /\ tx' = [tx EXCEPT !.told = TRUE]
    BY DEF CommitHook, Inv, Held
  <2>2. tx' \in Txs /\ tx'.entries = tx.entries /\ tx'.change = tx.change
    BY <2>1 DEF Txs
  <2>3. QED
    BY <2>1, <2>2, NoneAssumption
<1>4. mind'.degraded = mind.degraded /\ mind'.unrecorded = mind.unrecorded
  BY <1>1 DEF Remembering, Mind
<1>5. /\ \A n \in DOMAIN log : log[n].kind \notin {"chain_broken", "resealed"}
      /\ mind.degraded = None /\ mind.unrecorded = {} /\ open = {} /\ visit.seen = {}
  BY <1>2 DEF AlarmInv, Pristine
<1>6. open' = {}
  BY <1>1, <1>4, <1>5, SeesNoMore
<1>7. Pristine' /\ OpenStands' /\ TxRecords'
  BY <1>1, <1>2, <1>3, <1>4, SeesAll DEF AlarmInv, Pristine, TxRecords
<1>8. RowsHold(log', stamp') /\ BreaksHold'
  BY <1>1, <1>4, <1>5 DEF AlarmInv, RowsHold, BreaksHold, ViewOK, VerdictOK
<1>9. AlarmReported' /\ VerdictHolds'
  BY <1>1, <1>5, <1>6 DEF AlarmReported, VerdictHolds, NoRecords
<1>10. AlarmStep
  BY <1>1, <1>3, Troubles DEF Admits, Inv
<1>11. QED
  BY <1>7, <1>8, <1>9, <1>10 DEF AlarmInv

LEMMA LossAlarm ==
    ASSUME MaxLosses <= 1, Inv, Inv', AlarmInv, LoseTail \/ LoseRow \/ AlterRow
    PROVE  AlarmInv' /\ AlarmStep
<1>1. CASE LoseTail
  <2>1. PICK n \in DOMAIN log \ {1} :
            Loses("tail", [k \in {k \in DOMAIN log : k < n} |-> log[k]])
    BY <1>1 DEF LoseTail
  <2>2. QED
    BY <2>1, LosesAlarm
<1>2. CASE LoseRow
  <2>1. PICK n \in DOMAIN log \ {1, Top(log)} :
            Loses("row", [k \in DOMAIN log \ {n} |-> log[k]])
    BY <1>2 DEF LoseRow
  <2>2. QED
    BY <2>1, LosesAlarm
<1>3. CASE AlterRow
  <2>1. PICK n \in DOMAIN log \ {1} :
            Loses("altered", [k \in DOMAIN log |-> IF k = n THEN Forged(log[k]) ELSE log[k]])
    BY <1>3 DEF AlterRow
  <2> DEFINE L == [k \in DOMAIN log |-> IF k = n THEN Forged(log[k]) ELSE log[k]]
  <2>2. DOMAIN L \subseteq DOMAIN log /\ \A k \in DOMAIN L : L[k].kind = log[k].kind
    BY DEF Forged
  <2>3. Loses("altered", L)
    BY <2>1
  <2> HIDE DEF L
  <2>4. QED
    BY <2>2, <2>3, LosesAlarm
<1>4. QED
  BY <1>1, <1>2, <1>3

LEMMA CrashAlarm ==
    ASSUME Inv, Inv', AlarmInv, Crash
    PROVE  AlarmInv' /\ AlarmStep
<1>1. /\ mind'.known = None /\ mind'.degraded = None /\ mind'.unrecorded = {}
      /\ visit'.at = "none" /\ visit'.seen = {} /\ visit'.head = None
      /\ late' = {} /\ serving' = FALSE /\ tx' = None /\ Sees
      /\ UNCHANGED <<log, stamp, reseals, losses>> /\ crashes' = crashes + 1
  BY DEF Crash, NewMind, Mind, NoVisit, disk
<1>2. open' \subseteq open
  BY <1>1, SeesNoMore
<1>3. Pristine'
  BY <1>1, <1>2 DEF AlarmInv, Pristine, Holds
<1>4. RowsHold(log', stamp') /\ BreaksHold' /\ OpenStands' /\ TxRecords'
  BY <1>1, SeesAll DEF AlarmInv, BreaksHold, ViewOK, VerdictOK, TxRecords
<1>5. AlarmReported' /\ VerdictHolds'
  BY <1>1 DEF AlarmReported, VerdictHolds
<1>6. AlarmStep
  BY <1>1, Troubles DEF Admits, Inv
<1>7. QED
  BY <1>3, <1>4, <1>5, <1>6 DEF AlarmInv

-----------------------------------------------------------------------------
LEMMA InitAlarm == Init => AlarmInv /\ Alarm!Init
<1> SUFFICES ASSUME Init PROVE AlarmInv /\ Alarm!Init
  OBVIOUS
<1>1. DOMAIN log = {1} /\ log[1].kind = "created" /\ log[1].hash = 1 /\ log[1].body = 1
  BY DEF Init
<1>2. /\ mind.known = None /\ mind.degraded = None /\ mind.unrecorded = {}
      /\ visit.at = "none" /\ visit.seen = {} /\ visit.head = None
      /\ late = {} /\ open = {} /\ tx = None /\ reseals = 0 /\ losses = 0 /\ crashes = 0
  BY DEF Init, NewMind, Mind, NoVisit
<1>3. \A n \in DOMAIN log : ~IsGap(log, n) /\ Intact(log, n)
  BY <1>1 DEF IsGap, Intact
<1>4. Found(log) = {}
  BY <1>3, FoundIs
<1>5. Pristine /\ RowsHold(log, stamp)
  BY <1>1, <1>2, <1>4 DEF Pristine, RowsHold, Holds
<1>6. BreaksHold /\ OpenStands /\ TxRecords /\ AlarmReported /\ VerdictHolds
  BY <1>2 DEF BreaksHold, ViewOK, VerdictOK, OpenStands, Watched, TxRecords, AlarmReported,
              VerdictHolds
<1>7. Alarm!Init
  BY <1>2 DEF Alarm!Init
<1>8. QED
  BY <1>5, <1>6, <1>7 DEF AlarmInv

LEMMA StepAlarm ==
    ASSUME MaxLosses <= 1, CliRaces = FALSE, Inv, Inv', AlarmInv, [Next]_vars
    PROVE  AlarmInv' /\ AlarmStep
BY AppendAlarm, HookAlarm, CommitAlarm, CommittedAlarm, RollbackAlarm, FlushesAlarm, StartsAlarm,
   ChecksAlarm, WalksAlarm, AdoptsAlarm, ResealAlarm, CliMarksAlarm, CliAppendsAlarm,
   LossAlarm, CrashAlarm DEF Next, VisitStep

(* The server refuses access changes as long as a break it has seen is not *)
(* resealed: with one loss of rows (or one commit that fails after its     *)
(* hook told the server of it), and a root CLI that waits for the server's *)
(* verification to end, it takes a reseal or a crash to have it admit one  *)
(* again.                                                                  *)
THEOREM ChainRefusesWhileBroken ==
    ASSUME MaxLosses <= 1, CliRaces = FALSE
    PROVE  Spec => RefusesWhileBroken
<1>1. Init => Inv /\ AlarmInv /\ Alarm!Init
  BY InitInv, InitAlarm
<1>2. Inv /\ AlarmInv /\ [Next]_vars => Inv' /\ AlarmInv' /\ [Alarm!Next]_(Alarm!vars)
  BY StepInv, StepAlarm DEF AlarmStep
<1>3. QED
  BY <1>1, <1>2, PTL DEF Spec, RefusesWhileBroken, Alarm!Spec
=============================================================================
