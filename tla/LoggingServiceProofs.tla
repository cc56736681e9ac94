------------------------ MODULE LoggingServiceProofs ------------------------
(***************************************************************************)
(* Theorems about LoggingService for every BUFFER_SIZE, every number of    *)
(* log calls and every number of failing writes.                           *)
(***************************************************************************)
EXTENDS LoggingService, RangeLemmas, FiniteSetTheorems, TLAPS

\* What flushLogs leaves in the buffer and under way: the same entries.
LEMMA FlushKeeps ==
    ASSUME NEW buffer \in Seq(Entries), flushLogs(buffer),
           \A b \in flushes : b \in Seq(Entries) /\ b # <<>>
    PROVE  /\ logs' \in Seq(Entries)
           /\ \A b \in flushes' : b \in Seq(Entries) /\ b # <<>>
           /\ InFlight' = InFlight \cup Range(buffer)
           /\ Range(logs') = {}
<1>1. logs' = <<>> /\ <<>> \in Seq(Entries) /\ Range(<<>>) = {}
  BY EmptySeq DEF flushLogs, Range
<1>2. CASE buffer = <<>>
  <2>1. flushes' = flushes
    BY <1>2 DEF flushLogs
  <2> QED BY <1>1, <1>2, <2>1 DEF InFlight
<1>3. CASE buffer # <<>>
  <2>1. flushes' = flushes \cup {buffer}
    BY <1>3 DEF flushLogs
  <2>2. ASSUME NEW x PROVE x \in InFlight' <=> x \in InFlight \cup Range(buffer)
    <3>1. x \in InFlight' <=> \E b \in flushes' : x \in Range(b)
      BY DEF InFlight
    <3>2. x \in InFlight <=> \E b \in flushes : x \in Range(b)
      BY DEF InFlight
    <3> QED BY <2>1, <3>1, <3>2
  <2> QED BY <1>1, <1>3, <2>1, <2>2 DEF InFlight
<1> QED BY <1>2, <1>3

\* A batch that leaves takes at most its own entries with it.
LEMMA BatchLeaves ==
    ASSUME NEW b \in flushes, flushes' = flushes \ {b}
    PROVE  InFlight \subseteq InFlight' \cup Range(b)
BY DEF InFlight

LEMMA StoreType ==
    ASSUME TypeOK, NEW S
    PROVE  /\ Store(S) \in [Entries -> Nat]
           /\ \A i \in Entries : i \in S => Store(S)[i] > 0
           /\ \A i \in Entries : stored[i] > 0 => Store(S)[i] > 0
BY DEF Store, TypeOK

LEMMA SliceType ==
    ASSUME NEW b \in Seq(Entries)
    PROVE  slice(b) \in Seq(Entries) /\ Range(slice(b)) \subseteq Range(b)
<1>1. (IF Len(b) < BUFFER_SIZE THEN Len(b) ELSE BUFFER_SIZE) \in 0 .. Len(b)
  BY SizeAssumption
<1> QED BY <1>1, RangePrefix DEF slice

LEMMA RangeType ==
    ASSUME NEW b \in Seq(Entries)
    PROVE  Range(b) \subseteq Entries
BY DEF Range

\* The invariant that is inductive: types, and every entry written is somewhere.
NothingLost == TypeOK /\ NothingVanishes

LEMMA Started == Init => NothingLost
<1> SUFFICES ASSUME Init PROVE NothingLost
  OBVIOUS
<1>1. <<>> \in Seq(Entries)
  BY EmptySeq
<1>2. TypeOK
  BY <1>1, BoundsAssumption DEF Init, TypeOK
<1>3. 1 .. written = {}
  BY DEF Init
<1> QED BY <1>2, <1>3 DEF NothingLost, NothingVanishes

LEMMA Logged ==
    ASSUME NothingLost, NEW error \in BOOLEAN, applicationLog(error)
    PROVE  NothingLost'
<1> DEFINE pushed == Append(logs, written + 1)
<1>1. /\ written + 1 \in Entries /\ written' = written + 1 /\ written' \in 0 .. MaxEntries
      /\ 1 .. written' = (1 .. written) \cup {written + 1}
  BY BoundsAssumption DEF applicationLog, NothingLost, TypeOK, Entries
<1>2. logs \in Seq(Entries) /\ \A b \in flushes : b \in Seq(Entries) /\ b # <<>>
  BY DEF NothingLost, TypeOK
<1>3. pushed \in Seq(Entries) /\ Range(pushed) = Range(logs) \cup {written + 1}
  BY <1>1, <1>2, RangeAppend
<1>4. flushLogs(pushed) \/ (logs' = pushed /\ flushes' = flushes)
  BY DEF applicationLog
<1>5. UNCHANGED <<creating, stored, dropped, refused, partly, failures, phase, awaited>>
  BY DEF applicationLog
<1> HIDE DEF pushed
<1>6. /\ logs' \in Seq(Entries) /\ \A b \in flushes' : b \in Seq(Entries) /\ b # <<>>
      /\ Range(logs') \cup InFlight' = Range(logs) \cup InFlight \cup {written + 1}
  <2>1. CASE flushLogs(pushed)
    BY <1>2, <1>3, <2>1, FlushKeeps
  <2>2. CASE logs' = pushed /\ flushes' = flushes
    BY <1>2, <1>3, <2>2 DEF InFlight
  <2> QED BY <1>4, <2>1, <2>2
<1>7. TypeOK'
  BY <1>1, <1>5, <1>6 DEF NothingLost, TypeOK
<1>8. NothingVanishes'
  BY <1>1, <1>5, <1>6 DEF NothingLost, NothingVanishes
<1> QED BY <1>7, <1>8 DEF NothingLost

LEMMA Flushed ==
    ASSUME NothingLost, flushLogs(logs), written' = written, awaited' \in Seq(Entries),
           phase' \in {"running", "closing", "closed"},
           UNCHANGED <<creating, stored, dropped, refused, partly, failures>>
    PROVE  NothingLost'
<1>1. /\ logs' \in Seq(Entries) /\ \A b \in flushes' : b \in Seq(Entries) /\ b # <<>>
      /\ Range(logs') \cup InFlight' = Range(logs) \cup InFlight
  BY FlushKeeps DEF NothingLost, TypeOK
<1>2. TypeOK'
  BY <1>1 DEF NothingLost, TypeOK
<1>3. NothingVanishes'
  BY <1>1 DEF NothingLost, NothingVanishes
<1> QED BY <1>2, <1>3 DEF NothingLost

LEMMA Succeeded ==
    ASSUME NothingLost, NEW b \in flushes, InsertSucceeds(b)
    PROVE  NothingLost'
<1>1. stored' = Store(Range(b)) /\ flushes' = flushes \ {b}
  BY DEF InsertSucceeds
<1>2. UNCHANGED <<logs, creating, dropped, refused, partly, failures, written, awaited>>
  BY DEF InsertSucceeds
<1>3. phase' \in {"running", "closing", "closed"}
  BY DEF InsertSucceeds, Returned, NothingLost, TypeOK
<1>4. /\ stored' \in [Entries -> Nat]
      /\ \A i \in Entries : i \in Range(b) \/ stored[i] > 0 => stored'[i] > 0
  BY <1>1, StoreType DEF NothingLost
<1>5. InFlight \subseteq InFlight' \cup Range(b)
  BY <1>1, BatchLeaves
<1>6. 1 .. written \subseteq Entries
  BY BoundsAssumption DEF NothingLost, TypeOK, Entries
<1>7. TypeOK'
  BY <1>1, <1>2, <1>3, <1>4 DEF NothingLost, TypeOK
<1>8. NothingVanishes'
  BY <1>2, <1>4, <1>5, <1>6 DEF NothingLost, NothingVanishes
<1> QED BY <1>7, <1>8 DEF NothingLost

LEMMA Failed ==
    ASSUME NothingLost, NEW b \in flushes, NEW part \in SUBSET Range(b), InsertFails(b, part)
    PROVE  NothingLost'
<1>1. /\ stored' = Store(part) /\ flushes' = flushes \ {b} /\ logs' = slice(b) \o logs
      /\ dropped' = dropped \cup (Range(b) \ Range(slice(b))) /\ partly' = partly \cup part
  BY DEF InsertFails, putBack
<1>2. UNCHANGED <<creating, refused, written, awaited>>
  BY DEF InsertFails
<1>3. phase' \in {"running", "closing", "closed"} /\ failures' \in 0 .. MaxFailures
  BY BoundsAssumption DEF InsertFails, Returned, NothingLost, TypeOK
<1>4. b \in Seq(Entries) /\ logs \in Seq(Entries) /\ Range(b) \subseteq Entries
  BY RangeType DEF NothingLost, TypeOK
<1>5. slice(b) \in Seq(Entries) /\ Range(slice(b)) \subseteq Range(b)
  BY <1>4, SliceType
<1>6. logs' \in Seq(Entries) /\ Range(logs') = Range(slice(b)) \cup Range(logs)
  BY <1>1, <1>4, <1>5, RangeJoin
<1>7. stored' \in [Entries -> Nat] /\ \A i \in Entries : stored[i] > 0 => stored'[i] > 0
  BY <1>1, StoreType DEF NothingLost
<1>8. InFlight \subseteq InFlight' \cup Range(b)
  BY <1>1, BatchLeaves
<1>9. 1 .. written \subseteq Entries
  BY BoundsAssumption DEF NothingLost, TypeOK, Entries
<1>10. TypeOK'
  BY <1>1, <1>2, <1>3, <1>4, <1>6, <1>7 DEF NothingLost, TypeOK
<1>11. NothingVanishes'
  BY <1>1, <1>2, <1>6, <1>7, <1>8, <1>9 DEF NothingLost, NothingVanishes
<1> QED BY <1>10, <1>11 DEF NothingLost

LEMMA Written ==
    ASSUME NothingLost,
           WriteDirectly \/ \E i \in Entries, ok \in BOOLEAN : CreateDone(i, ok)
    PROVE  NothingLost'
<1>1. UNCHANGED <<logs, flushes, dropped, partly, failures, phase, awaited>> /\ InFlight' = InFlight
  BY DEF WriteDirectly, CreateDone, InFlight
<1>2. 1 .. written \subseteq Entries
  BY BoundsAssumption DEF NothingLost, TypeOK, Entries
<1>3. CASE WriteDirectly
  <2>1. /\ written + 1 \in Entries /\ written' = written + 1 /\ written' \in 0 .. MaxEntries
        /\ 1 .. written' = (1 .. written) \cup {written + 1}
    BY <1>3, BoundsAssumption DEF WriteDirectly, NothingLost, TypeOK, Entries
  <2>2. creating' = creating \cup {written + 1} /\ UNCHANGED <<stored, refused>>
    BY <1>3 DEF WriteDirectly
  <2>3. TypeOK'
    BY <1>1, <2>1, <2>2 DEF NothingLost, TypeOK
  <2>4. NothingVanishes'
    BY <1>1, <2>1, <2>2 DEF NothingLost, NothingVanishes
  <2> QED BY <2>3, <2>4 DEF NothingLost
<1>4. ASSUME NEW i \in Entries, NEW ok \in BOOLEAN, CreateDone(i, ok) PROVE NothingLost'
  <2>1. creating' = creating \ {i} /\ written' = written
    BY <1>4 DEF CreateDone
  <2>2. CASE ok
    <3>1. stored' = Store({i}) /\ refused' = refused
      BY <1>4, <2>2 DEF CreateDone
    <3>2. /\ stored' \in [Entries -> Nat] /\ stored'[i] > 0
          /\ \A j \in Entries : stored[j] > 0 => stored'[j] > 0
      BY <3>1, StoreType DEF NothingLost
    <3>3. TypeOK'
      BY <1>1, <2>1, <3>1, <3>2 DEF NothingLost, TypeOK
    <3>4. NothingVanishes'
      BY <1>1, <1>2, <2>1, <3>1, <3>2 DEF NothingLost, NothingVanishes
    <3> QED BY <3>3, <3>4 DEF NothingLost
  <2>3. CASE ~ok
    <3>1. refused' = refused \cup {i} /\ stored' = stored
      BY <1>4, <2>3 DEF CreateDone
    <3>2. TypeOK'
      BY <1>1, <2>1, <3>1 DEF NothingLost, TypeOK
    <3>3. NothingVanishes'
      BY <1>1, <2>1, <3>1 DEF NothingLost, NothingVanishes
    <3> QED BY <3>2, <3>3 DEF NothingLost
  <2> QED BY <2>2, <2>3
<1> QED BY <1>3, <1>4

LEMMA NothingLostStep == NothingLost /\ [Next]_vars => NothingLost'
<1> SUFFICES ASSUME NothingLost, [Next]_vars PROVE NothingLost'
  OBVIOUS
<1>1. ASSUME NEW error \in BOOLEAN, applicationLog(error) PROVE NothingLost'
  BY <1>1, Logged
<1>2. CASE startFlushTimer
  BY <1>2, Flushed DEF startFlushTimer, NothingLost, TypeOK
<1>3. CASE onModuleDestroy
  <2>1. phase' \in {"running", "closing", "closed"} /\ awaited' \in Seq(Entries)
    BY <1>3 DEF onModuleDestroy, NothingLost, TypeOK
  <2> QED BY <1>3, <2>1, Flushed DEF onModuleDestroy
<1>4. CASE WriteDirectly \/ \E i \in Entries, ok \in BOOLEAN : CreateDone(i, ok)
  BY <1>4, Written
<1>5. CASE InsertDone
  BY <1>5, Succeeded, Failed DEF InsertDone
<1>6. CASE UNCHANGED vars
  BY <1>6 DEF vars, NothingLost, TypeOK, NothingVanishes, InFlight
<1> QED BY <1>1, <1>2, <1>3, <1>4, <1>5, <1>6 DEF Next

\* Buffer, batches, documents and counters keep their shape in every behaviour.
THEOREM Typing == Spec => []TypeOK
<1>1. NothingLost => TypeOK
  BY DEF NothingLost
<1> QED BY <1>1, Started, NothingLostStep, PTL DEF Spec

\* However flushes, failures, shutdown and log calls interleave, an entry that was
\* logged is in the buffer, under way, in MongoDB, or one the code gave up openly.
THEOREM NothingVanishesEver == Spec => []NothingVanishes
<1>1. NothingLost => NothingVanishes
  BY DEF NothingLost
<1> QED BY <1>1, Started, NothingLostStep, PTL DEF Spec

-----------------------------------------------------------------------------
(* Every entry is in one place: what keeps flushes from storing it twice. *)

Distinct(s) == \A j, k \in DOMAIN s : j # k => s[j] # s[k]
Waiting == Range(logs) \cup InFlight \cup creating

Separate ==
    /\ Distinct(logs) /\ \A b \in flushes : Distinct(b)
    /\ Range(logs) \cap InFlight = {} /\ creating \cap (Range(logs) \cup InFlight) = {}
    /\ \A a, b \in flushes : a # b => Range(a) \cap Range(b) = {}

Once ==
    /\ Waiting \cup dropped \cup refused \subseteq 1 .. written
    /\ \A i \in Entries : stored[i] > 0 => i \in 1 .. written
    /\ \A i \in Entries \ partly : stored[i] <= 1 /\ (stored[i] = 1 => i \notin Waiting)

OnceInv == NothingLost /\ Separate /\ Once

\* What every step does: it keeps the invariant and is one of the sink's.
Goes == OnceInv' /\ (Sink!Next \/ UNCHANGED Sink!vars)

LEMMA DistinctAppend ==
    ASSUME NEW S, NEW s \in Seq(S), NEW x \in S, Distinct(s), x \notin Range(s)
    PROVE  Distinct(Append(s, x))
<1>1. /\ DOMAIN s = 1 .. Len(s) /\ Len(s) \in Nat /\ DOMAIN Append(s, x) = 1 .. (Len(s) + 1)
      /\ \A i \in 1 .. Len(s) : Append(s, x)[i] = s[i]
      /\ Append(s, x)[Len(s) + 1] = x
  OBVIOUS
<1>2. \A i \in 1 .. Len(s) : s[i] # x
  BY <1>1 DEF Range
<1> SUFFICES ASSUME NEW j \in 1 .. (Len(s) + 1), NEW k \in 1 .. (Len(s) + 1), j # k
             PROVE  Append(s, x)[j] # Append(s, x)[k]
  BY <1>1 DEF Distinct
<1>3. CASE j \in 1 .. Len(s) /\ k \in 1 .. Len(s)
  BY <1>1, <1>3 DEF Distinct
<1>4. CASE j = Len(s) + 1 /\ k \in 1 .. Len(s)
  BY <1>1, <1>2, <1>4
<1>5. CASE k = Len(s) + 1 /\ j \in 1 .. Len(s)
  BY <1>1, <1>2, <1>5
<1> QED BY <1>1, <1>3, <1>4, <1>5

LEMMA DistinctJoin ==
    ASSUME NEW S, NEW s \in Seq(S), NEW t \in Seq(S), Distinct(s), Distinct(t), Range(s) \cap Range(t) = {}
    PROVE  Distinct(s \o t)
<1>1. /\ DOMAIN s = 1 .. Len(s) /\ DOMAIN t = 1 .. Len(t) /\ Len(s) \in Nat /\ Len(t) \in Nat
      /\ DOMAIN (s \o t) = 1 .. (Len(s) + Len(t))
      /\ \A i \in 1 .. (Len(s) + Len(t)) :
            (s \o t)[i] = IF i <= Len(s) THEN s[i] ELSE t[i - Len(s)]
  OBVIOUS
<1>2. \A i \in 1 .. Len(s), k \in 1 .. Len(t) : s[i] # t[k]
  BY <1>1 DEF Range
<1> SUFFICES ASSUME NEW j \in 1 .. (Len(s) + Len(t)), NEW k \in 1 .. (Len(s) + Len(t)), j # k
             PROVE  (s \o t)[j] # (s \o t)[k]
  BY <1>1 DEF Distinct
<1>3. CASE j <= Len(s) /\ k <= Len(s)
  BY <1>1, <1>3 DEF Distinct
<1>4. CASE ~(j <= Len(s)) /\ ~(k <= Len(s))
  <2>1. j - Len(s) \in 1 .. Len(t) /\ k - Len(s) \in 1 .. Len(t) /\ j - Len(s) # k - Len(s)
    BY <1>1, <1>4
  <2> QED BY <1>1, <1>4, <2>1 DEF Distinct
<1>5. CASE j <= Len(s) /\ ~(k <= Len(s))
  <2>1. j \in 1 .. Len(s) /\ k - Len(s) \in 1 .. Len(t)
    BY <1>1, <1>5
  <2> QED BY <1>1, <1>2, <1>5, <2>1
<1>6. CASE ~(j <= Len(s)) /\ k <= Len(s)
  <2>1. k \in 1 .. Len(s) /\ j - Len(s) \in 1 .. Len(t)
    BY <1>1, <1>6
  <2> QED BY <1>1, <1>2, <1>6, <2>1
<1> QED BY <1>3, <1>4, <1>5, <1>6

LEMMA DistinctSlice ==
    ASSUME NEW b \in Seq(Entries), Distinct(b)
    PROVE  Distinct(slice(b))
<1> DEFINE n == IF Len(b) < BUFFER_SIZE THEN Len(b) ELSE BUFFER_SIZE
<1>1. n \in 0 .. Len(b) /\ Len(b) \in Nat
  BY SizeAssumption
<1> HIDE DEF n
<1>2. /\ DOMAIN SubSeq(b, 1, n) = 1 .. n /\ 1 .. n \subseteq DOMAIN b
      /\ \A i \in 1 .. n : SubSeq(b, 1, n)[i] = b[i]
  BY <1>1
<1>3. slice(b) = SubSeq(b, 1, n)
  BY DEF slice, n
<1> QED BY <1>2, <1>3 DEF Distinct

\* What flushLogs does to entries that are in one place each.
LEMMA FlushSeparates ==
    ASSUME NEW buffer \in Seq(Entries), flushLogs(buffer), Distinct(buffer),
           \A b \in flushes : b \in Seq(Entries) /\ b # <<>> /\ Distinct(b),
           \A a, b \in flushes : a # b => Range(a) \cap Range(b) = {},
           Range(buffer) \cap InFlight = {}, creating' \cap (Range(buffer) \cup InFlight) = {}
    PROVE  Separate' /\ Range(logs') \cup InFlight' = Range(buffer) \cup InFlight
<1>1. InFlight' = InFlight \cup Range(buffer) /\ Range(logs') = {}
  BY FlushKeeps
<1>2. logs' = <<>> /\ DOMAIN <<>> = {}
  BY DEF flushLogs
<1>3. Distinct(logs')
  BY <1>2 DEF Distinct
<1>4. flushes' = flushes \/ flushes' = flushes \cup {buffer}
  BY DEF flushLogs
<1>5. \A b \in flushes : Range(b) \cap Range(buffer) = {}
  BY DEF InFlight
<1>6. \A a, b \in flushes' : a # b => Range(a) \cap Range(b) = {}
  BY <1>4, <1>5
<1>7. \A b \in flushes' : Distinct(b)
  BY <1>4
<1> QED BY <1>1, <1>3, <1>6, <1>7 DEF Separate

\* A batch that leaves takes exactly its own entries with it.
LEMMA BatchTakes ==
    ASSUME Separate, NEW b \in flushes, flushes' = flushes \ {b}
    PROVE  InFlight' = InFlight \ Range(b) /\ Range(b) \subseteq InFlight
<1>1. \A a \in flushes : a # b => Range(a) \cap Range(b) = {}
  BY DEF Separate
<1>2. ASSUME NEW x PROVE x \in InFlight' <=> x \in InFlight /\ x \notin Range(b)
  <2>1. x \in InFlight' <=> \E a \in flushes' : x \in Range(a)
    BY DEF InFlight
  <2>2. x \in InFlight <=> \E a \in flushes : x \in Range(a)
    BY DEF InFlight
  <2> QED BY <1>1, <2>1, <2>2
<1> QED BY <1>2 DEF InFlight

LEMMA OnceFacts ==
    ASSUME OnceInv
    PROVE  /\ logs \in Seq(Entries) /\ Range(logs) \subseteq Entries
           /\ \A b \in flushes : b \in Seq(Entries) /\ b # <<>> /\ Distinct(b) /\ Range(b) \subseteq Entries
           /\ stored \in [Entries -> Nat] /\ written \in Nat /\ 1 .. written \subseteq Entries
BY BoundsAssumption, RangeType DEF OnceInv, NothingLost, TypeOK, Separate, Entries

\* The next entry is nowhere yet.
LEMMA NewEntry ==
    ASSUME OnceInv, written < MaxEntries
    PROVE  /\ written + 1 \in Entries /\ 1 .. written + 1 = (1 .. written) \cup {written + 1}
           /\ written + 1 \notin Waiting \cup dropped \cup refused /\ ~(stored[written + 1] > 0)
<1>1. /\ written \in Nat /\ written + 1 \in Entries /\ written + 1 \notin 1 .. written
      /\ 1 .. written + 1 = (1 .. written) \cup {written + 1}
  <2>1. written \in 0 .. MaxEntries
    BY DEF OnceInv, NothingLost, TypeOK
  <2> QED BY <2>1, BoundsAssumption DEF Entries
<1> QED BY <1>1 DEF OnceInv, Once

\* A new entry waits in one more place, and nothing else changes.
LEMMA TakenOver ==
    ASSUME OnceInv, NothingLost', Separate', written < MaxEntries, written' = written + 1,
           Waiting' = Waiting \cup {written + 1}, UNCHANGED <<stored, dropped, refused, partly>>
    PROVE  Goes
<1>1. /\ written + 1 \in Entries /\ 1 .. written + 1 = (1 .. written) \cup {written + 1}
      /\ written + 1 \notin Waiting \cup dropped \cup refused /\ ~(stored[written + 1] > 0)
  BY NewEntry
<1>2. stored \in [Entries -> Nat]
  BY OnceFacts
<1>3. \A i \in Entries \ partly : stored[i] = 1 => i \notin Waiting /\ i # written + 1
  BY <1>1, <1>2 DEF OnceInv, Once
<1>4. Once'
  BY <1>1, <1>3 DEF OnceInv, Once
<1>5. Sink!TakeOver(written + 1)
  BY <1>1 DEF Sink!TakeOver, Waiting
<1> QED BY <1>1, <1>4, <1>5 DEF Goes, OnceInv, Sink!Next

LEMMA LogGoes ==
    ASSUME OnceInv, NEW error \in BOOLEAN, applicationLog(error)
    PROVE  Goes
<1> DEFINE n == written + 1
           pushed == Append(logs, n)
<1>1. /\ written < MaxEntries /\ written' = n
      /\ UNCHANGED <<creating, stored, dropped, refused, partly>>
      /\ flushLogs(pushed) \/ (logs' = pushed /\ flushes' = flushes)
  BY DEF applicationLog
<1>2. /\ n \in Entries /\ n \notin Waiting
  BY <1>1, NewEntry
<1>3. /\ pushed \in Seq(Entries) /\ Range(pushed) = Range(logs) \cup {n} /\ Distinct(pushed)
  BY <1>2, OnceFacts, RangeAppend, DistinctAppend DEF Waiting, OnceInv, Separate
<1> HIDE DEF n, pushed
<1>4. Separate' /\ Range(logs') \cup InFlight' = Range(pushed) \cup InFlight
  <2>1. Range(pushed) \cap InFlight = {} /\ creating \cap (Range(pushed) \cup InFlight) = {}
    BY <1>2, <1>3 DEF Waiting, OnceInv, Separate
  <2>2. CASE flushLogs(pushed)
    BY <1>1, <1>3, <2>1, <2>2, OnceFacts, FlushSeparates DEF OnceInv, Separate
  <2>3. CASE logs' = pushed /\ flushes' = flushes
    <3>1. InFlight' = InFlight
      BY <2>3 DEF InFlight
    <3> QED BY <1>1, <1>3, <2>1, <2>3, <3>1 DEF OnceInv, Separate
  <2> QED BY <1>1, <2>2, <2>3
<1>5. Waiting' = Waiting \cup {n}
  BY <1>1, <1>3, <1>4 DEF Waiting
<1>6. NothingLost'
  BY Logged DEF OnceInv
<1> QED BY <1>1, <1>4, <1>5, <1>6, TakenOver DEF n

LEMMA FlushGoes ==
    ASSUME OnceInv, NothingLost', flushLogs(logs),
           UNCHANGED <<written, creating, stored, dropped, refused, partly>>
    PROVE  Goes
<1>1. Separate' /\ Range(logs') \cup InFlight' = Range(logs) \cup InFlight
  BY OnceFacts, FlushSeparates DEF OnceInv, Separate
<1>2. Waiting' = Waiting
  BY <1>1 DEF Waiting
<1>3. Once'
  BY <1>2 DEF OnceInv, Once
<1>4. UNCHANGED Sink!vars
  BY <1>2 DEF Sink!vars, Waiting
<1> QED BY <1>1, <1>3, <1>4 DEF Goes, OnceInv

LEMMA SuccessGoes ==
    ASSUME OnceInv, NEW b \in flushes, InsertSucceeds(b)
    PROVE  Goes
<1>1. /\ flushes' = flushes \ {b} /\ stored' = Store(Range(b))
      /\ UNCHANGED <<logs, creating, dropped, refused, partly, written>>
  BY DEF InsertSucceeds
<1>2. /\ Range(b) \subseteq Entries /\ stored \in [Entries -> Nat]
      /\ Range(b) \cap Range(logs) = {} /\ Range(b) \cap creating = {}
      /\ InFlight' = InFlight \ Range(b) /\ Range(b) \subseteq InFlight
  BY <1>1, OnceFacts, BatchTakes DEF OnceInv, Separate
<1>3. Waiting' = Waiting \ Range(b) /\ Range(b) \subseteq Waiting
  BY <1>1, <1>2 DEF Waiting
<1>4. \A i \in Entries : stored'[i] = IF i \in Range(b) THEN stored[i] + 1 ELSE stored[i]
  BY <1>1 DEF Store
<1>5. Separate'
  BY <1>1, <1>2 DEF OnceInv, Separate
<1>6. Once'
  <2>1. \A i \in Entries \ partly : stored'[i] <= 1 /\ (stored'[i] = 1 => i \notin Waiting')
    <3> SUFFICES ASSUME NEW i \in Entries \ partly
                 PROVE  stored'[i] <= 1 /\ (stored'[i] = 1 => i \notin Waiting')
      OBVIOUS
    <3>1. stored[i] \in Nat /\ stored[i] <= 1 /\ (stored[i] = 1 => i \notin Waiting)
      BY <1>2 DEF OnceInv, Once
    <3>2. CASE i \in Range(b)
      BY <1>3, <1>4, <3>1, <3>2
    <3>3. CASE i \notin Range(b)
      BY <1>3, <1>4, <3>1, <3>3
    <3> QED BY <3>2, <3>3
  <2>2. \A i \in Entries : stored'[i] > 0 => i \in 1 .. written
    BY <1>2, <1>3, <1>4 DEF OnceInv, Once
  <2> QED BY <1>1, <1>3, <2>1, <2>2 DEF OnceInv, Once
<1>7. {i \in Entries : stored[i] > 0}' = {i \in Entries : stored[i] > 0} \cup Range(b)
  BY <1>2, <1>4
<1>8. Sink!Deliver
  BY <1>1, <1>3, <1>7 DEF Sink!Deliver, Waiting
<1>9. NothingLost'
  BY Succeeded DEF OnceInv
<1> QED BY <1>5, <1>6, <1>8, <1>9 DEF Goes, OnceInv, Sink!Next

LEMMA FailureGoes ==
    ASSUME OnceInv, NEW b \in flushes, NEW part \in SUBSET Range(b), InsertFails(b, part)
    PROVE  Goes
<1> DEFINE lost == Range(b) \ Range(slice(b))
<1>1. /\ flushes' = flushes \ {b} /\ stored' = Store(part) /\ partly' = partly \cup part
      /\ logs' = slice(b) \o logs /\ dropped' = dropped \cup lost
      /\ UNCHANGED <<creating, refused, written>>
  BY DEF InsertFails, putBack
<1>2. /\ b \in Seq(Entries) /\ Range(b) \subseteq Entries /\ logs \in Seq(Entries) /\ stored \in [Entries -> Nat]
      /\ Range(b) \cap Range(logs) = {} /\ Range(b) \cap creating = {} /\ Distinct(b) /\ Distinct(logs)
      /\ InFlight' = InFlight \ Range(b) /\ Range(b) \subseteq InFlight
  BY <1>1, OnceFacts, BatchTakes DEF OnceInv, Separate
<1>3. slice(b) \in Seq(Entries) /\ Range(slice(b)) \subseteq Range(b) /\ Distinct(slice(b))
  BY <1>2, SliceType, DistinctSlice
<1>4. Range(logs') = Range(slice(b)) \cup Range(logs) /\ Distinct(logs')
  BY <1>1, <1>2, <1>3, RangeJoin, DistinctJoin
<1>5. Waiting' = Waiting \ lost /\ Range(b) \subseteq Waiting
  BY <1>1, <1>2, <1>3, <1>4 DEF Waiting, OnceInv, Separate
<1>6. \A i \in Entries : stored'[i] = IF i \in part THEN stored[i] + 1 ELSE stored[i]
  BY <1>1 DEF Store
<1>7. Separate'
  BY <1>1, <1>2, <1>3, <1>4 DEF OnceInv, Separate
<1>8. Once'
  <2>1. \A i \in Entries \ partly' : stored'[i] <= 1 /\ (stored'[i] = 1 => i \notin Waiting')
    BY <1>1, <1>5, <1>6 DEF OnceInv, Once
  <2>2. \A i \in Entries : stored'[i] > 0 => i \in 1 .. written
    BY <1>2, <1>5, <1>6 DEF OnceInv, Once
  <2> QED BY <1>1, <1>5, <2>1, <2>2 DEF OnceInv, Once
<1>9. {i \in Entries : stored[i] > 0}' = {i \in Entries : stored[i] > 0} \cup part
  BY <1>2, <1>6
<1>10. Sink!Deliver
  <2>1. dropped' \cup refused' = dropped \cup refused \cup lost /\ lost \subseteq Waiting
    BY <1>1, <1>5
  <2> HIDE DEF lost
  <2> QED BY <1>5, <1>9, <2>1 DEF Sink!Deliver, Waiting
<1>11. NothingLost'
  BY Failed DEF OnceInv
<1> QED BY <1>7, <1>8, <1>10, <1>11 DEF Goes, OnceInv, Sink!Next

LEMMA WriteGoes == ASSUME OnceInv, WriteDirectly PROVE Goes
<1>1. /\ written < MaxEntries /\ written' = written + 1 /\ creating' = creating \cup {written + 1}
      /\ UNCHANGED <<logs, flushes, stored, dropped, refused, partly>> /\ InFlight' = InFlight
  BY DEF WriteDirectly, InFlight
<1>2. written + 1 \notin Waiting
  BY <1>1, NewEntry
<1>3. Separate' /\ Waiting' = Waiting \cup {written + 1}
  BY <1>1, <1>2 DEF Waiting, OnceInv, Separate
<1>4. NothingLost'
  BY Written DEF OnceInv
<1> QED BY <1>1, <1>3, <1>4, TakenOver

LEMMA CreateGoes ==
    ASSUME OnceInv, NEW i \in Entries, NEW ok \in BOOLEAN, CreateDone(i, ok)
    PROVE  Goes
<1>1. /\ i \in creating /\ creating' = creating \ {i}
      /\ UNCHANGED <<logs, flushes, dropped, partly, written>> /\ InFlight' = InFlight
      /\ \/ stored' = Store({i}) /\ refused' = refused
         \/ refused' = refused \cup {i} /\ stored' = stored
  BY DEF CreateDone, InFlight
<1>2. Waiting' = Waiting \ {i} /\ i \in Waiting /\ stored \in [Entries -> Nat]
  BY <1>1, OnceFacts DEF Waiting, OnceInv, Separate
<1>3. Separate'
  BY <1>1 DEF OnceInv, Separate
<1>4. NothingLost'
  BY Written DEF OnceInv
<1>5. CASE stored' = Store({i}) /\ refused' = refused
  <2>1. \A j \in Entries : stored'[j] = IF j = i THEN stored[j] + 1 ELSE stored[j]
    BY <1>5 DEF Store
  <2>2. \A j \in Entries \ partly : stored'[j] <= 1 /\ (stored'[j] = 1 => j \notin Waiting')
    <3> SUFFICES ASSUME NEW j \in Entries \ partly
                 PROVE  stored'[j] <= 1 /\ (stored'[j] = 1 => j \notin Waiting')
      OBVIOUS
    <3>1. stored[j] \in Nat /\ stored[j] <= 1 /\ (stored[j] = 1 => j \notin Waiting)
      BY <1>2 DEF OnceInv, Once
    <3>2. CASE j = i
      BY <1>2, <2>1, <3>1, <3>2
    <3>3. CASE j # i
      BY <1>2, <2>1, <3>1, <3>3
    <3> QED BY <3>2, <3>3
  <2>3. \A j \in Entries : stored'[j] > 0 => j \in 1 .. written
    BY <1>2, <2>1 DEF OnceInv, Once
  <2>4. Once'
    BY <1>1, <1>2, <1>5, <2>2, <2>3 DEF OnceInv, Once
  <2>5. {j \in Entries : stored[j] > 0}' = {j \in Entries : stored[j] > 0} \cup {i}
    BY <1>2, <2>1
  <2>6. Sink!Deliver
    BY <1>1, <1>2, <1>5, <2>5 DEF Sink!Deliver, Waiting
  <2> QED BY <1>3, <1>4, <2>4, <2>6 DEF Goes, OnceInv, Sink!Next
<1>6. CASE refused' = refused \cup {i} /\ stored' = stored
  <2>1. Once'
    BY <1>1, <1>2, <1>6 DEF OnceInv, Once
  <2>2. Sink!Deliver
    BY <1>1, <1>2, <1>6 DEF Sink!Deliver, Waiting
  <2> QED BY <1>3, <1>4, <2>1, <2>2 DEF Goes, OnceInv, Sink!Next
<1> QED BY <1>1, <1>5, <1>6

LEMMA OnceStep == OnceInv /\ [Next]_vars => Goes
<1> SUFFICES ASSUME OnceInv, [Next]_vars PROVE Goes
  OBVIOUS
<1>1. NothingLost'
  BY NothingLostStep DEF OnceInv
<1>2. CASE startFlushTimer \/ onModuleDestroy
  BY <1>1, <1>2, FlushGoes DEF startFlushTimer, onModuleDestroy
<1>3. CASE UNCHANGED vars
  <2>1. Separate' /\ Once' /\ UNCHANGED Sink!vars
    BY <1>3 DEF vars, OnceInv, Separate, Distinct, Once, Waiting, InFlight, Sink!vars
  <2> QED BY <1>1, <2>1 DEF Goes, OnceInv
<1> QED BY <1>2, <1>3, LogGoes, SuccessGoes, FailureGoes, WriteGoes, CreateGoes DEF Next, InsertDone

LEMMA OnceInit == Init => OnceInv /\ Sink!Init
<1> SUFFICES ASSUME Init PROVE OnceInv /\ Sink!Init
  OBVIOUS
<1>1. Range(logs) = {} /\ DOMAIN logs = {} /\ InFlight = {} /\ creating = {} /\ 1 .. written = {}
  BY DEF Init, Range, InFlight
<1>2. \A i \in Entries : stored[i] = 0
  BY DEF Init
<1>3. Separate /\ Once
  BY <1>1, <1>2 DEF Init, Separate, Distinct, Once, Waiting
<1>4. Sink!Init
  BY <1>1, <1>2 DEF Init, Sink!Init
<1> QED BY <1>3, <1>4, Started DEF OnceInv

\* No interleaving of timer, full buffer, error entries, shutdown and failures makes two
\* flushes write the same entry, or one write it that MongoDB has.
THEOREM ExactlyOnceEver == Spec => []ExactlyOnce
<1>1. OnceInv => ExactlyOnce
  <2> SUFFICES ASSUME OnceInv PROVE ExactlyOnce
    OBVIOUS
  <2>1. \A b \in flushes : Range(b) \subseteq InFlight
    BY DEF InFlight
  <2> QED BY <2>1 DEF OnceInv, Separate, Distinct, Once, Waiting, ExactlyOnce
<1>2. OnceInv /\ [Next]_vars => OnceInv'
  BY OnceStep DEF Goes
<1> QED BY <1>1, <1>2, OnceInit, PTL DEF Spec

\* The service implements at-least-once delivery, whatever the size of its buffer and
\* however many writes fail.
THEOREM Delivers == Spec => DeliversEntries
<1>1. OnceInv /\ [Next]_vars => OnceInv' /\ [Sink!Next]_(Sink!vars)
  BY OnceStep DEF Goes
<1>2. Init => OnceInv /\ Sink!Init
  BY OnceInit
<1> QED BY <1>1, <1>2, PTL DEF Spec, DeliversEntries, Sink!Spec

-----------------------------------------------------------------------------
(* Until a flush fails no batch is longer than what a failed flush puts back. *)

Short ==
    /\ failures = 0 => Len(logs) < BUFFER_SIZE /\ \A b \in flushes : Len(b) <= BUFFER_SIZE
    /\ OneFailureLosesNothing

LEMMA FlushShort ==
    ASSUME NEW buffer \in Seq(Entries), flushLogs(buffer), Len(buffer) <= BUFFER_SIZE,
           \A b \in flushes : Len(b) <= BUFFER_SIZE
    PROVE  Len(logs') < BUFFER_SIZE /\ \A b \in flushes' : Len(b) <= BUFFER_SIZE
<1>1. logs' = <<>> /\ Len(<<>>) = 0
  BY DEF flushLogs
<1> QED BY <1>1, SizeAssumption DEF flushLogs

LEMMA ShortStep == NothingLost /\ Short /\ [Next]_vars => Short'
<1> SUFFICES ASSUME NothingLost, Short, [Next]_vars PROVE Short'
  OBVIOUS
<1>1. /\ logs \in Seq(Entries) /\ Len(logs) \in Nat /\ failures \in Nat
      /\ \A b \in flushes : b \in Seq(Entries)
  <2>1. logs \in Seq(Entries) /\ failures \in 0 .. MaxFailures /\ \A b \in flushes : b \in Seq(Entries)
    BY DEF NothingLost, TypeOK
  <2> QED BY <2>1, LenProperties, BoundsAssumption
<1>2. ASSUME NEW error \in BOOLEAN, applicationLog(error) PROVE Short'
  <2> DEFINE pushed == Append(logs, written + 1)
  <2>1. /\ \/ flushLogs(pushed)
           \/ logs' = pushed /\ flushes' = flushes /\ ~(Len(pushed) >= BUFFER_SIZE)
        /\ UNCHANGED <<failures, dropped>>
    BY <1>2 DEF applicationLog
  <2>2. written + 1 \in Entries
    <3>1. written \in 0 .. MaxEntries /\ written < MaxEntries
      BY <1>2 DEF applicationLog, NothingLost, TypeOK
    <3> QED BY <3>1, BoundsAssumption DEF Entries
  <2>3. pushed \in Seq(Entries) /\ Len(pushed) = Len(logs) + 1
    BY <1>1, <2>2
  <2> HIDE DEF pushed
  <2>4. CASE failures = 0
    <3>1. Len(pushed) <= BUFFER_SIZE /\ \A b \in flushes : Len(b) <= BUFFER_SIZE
      BY <1>1, <2>3, <2>4, SizeAssumption DEF Short
    <3>2. Len(logs') < BUFFER_SIZE /\ \A b \in flushes' : Len(b) <= BUFFER_SIZE
      <4>1. CASE flushLogs(pushed)
        BY <2>3, <3>1, <4>1, FlushShort
      <4>2. CASE logs' = pushed /\ flushes' = flushes /\ ~(Len(pushed) >= BUFFER_SIZE)
        BY <1>1, <2>3, <3>1, <4>2, SizeAssumption
      <4> QED BY <2>1, <4>1, <4>2
    <3> QED BY <2>1, <3>2 DEF Short, OneFailureLosesNothing
  <2>5. CASE failures # 0
    BY <2>1, <2>5 DEF Short, OneFailureLosesNothing
  <2> QED BY <2>4, <2>5
<1>3. CASE startFlushTimer \/ onModuleDestroy
  <2>1. flushLogs(logs) /\ UNCHANGED <<failures, dropped>>
    BY <1>3 DEF startFlushTimer, onModuleDestroy
  <2>2. failures = 0 => Len(logs) <= BUFFER_SIZE /\ \A b \in flushes : Len(b) <= BUFFER_SIZE
    BY <1>1, SizeAssumption DEF Short
  <2> QED BY <1>1, <2>1, <2>2, FlushShort DEF Short, OneFailureLosesNothing
<1>4. ASSUME NEW b \in flushes, InsertSucceeds(b) PROVE Short'
  BY <1>4 DEF InsertSucceeds, Short, OneFailureLosesNothing
<1>5. ASSUME NEW b \in flushes, NEW part \in SUBSET Range(b), InsertFails(b, part) PROVE Short'
  <2>1. failures' = failures + 1 /\ dropped' = dropped \cup (Range(b) \ Range(slice(b)))
    BY <1>5 DEF InsertFails
  <2>2. CASE failures = 0
    <3>1. Len(b) <= BUFFER_SIZE /\ Len(b) \in Nat /\ dropped = {}
      BY <1>1, <2>2, LenProperties DEF Short, OneFailureLosesNothing
    <3>2. (IF Len(b) < BUFFER_SIZE THEN Len(b) ELSE BUFFER_SIZE) = Len(b)
      BY <3>1, SizeAssumption
    <3>3. slice(b) = b
      <4>1. slice(b) = SubSeq(b, 1, Len(b))
        BY <3>2 DEF slice
      <4> QED BY <1>1, <4>1
    <3>4. dropped' = {}
      BY <2>1, <3>1, <3>3
    <3> QED BY <2>1, <2>2, <3>4 DEF Short, OneFailureLosesNothing
  <2>3. CASE failures # 0
    <3>1. ~(failures' <= 1) /\ failures' # 0
      BY <1>1, <2>1, <2>3
    <3> QED BY <3>1 DEF Short, OneFailureLosesNothing
  <2> QED BY <2>2, <2>3
<1>6. CASE WriteDirectly \/ \E i \in Entries, ok \in BOOLEAN : CreateDone(i, ok)
  BY <1>6 DEF WriteDirectly, CreateDone, Short, OneFailureLosesNothing
<1>7. CASE UNCHANGED vars
  BY <1>7 DEF vars, Short, OneFailureLosesNothing
<1> QED BY <1>2, <1>3, <1>4, <1>5, <1>6, <1>7 DEF Next, InsertDone

\* Whatever BUFFER_SIZE is, one failed flush gives nothing up: log calls that go on during
\* the await do not make a batch that the slice cuts.
THEOREM OneFailureHarmless == Spec => []OneFailureLosesNothing
<1>1. Init => Short
  <2> SUFFICES ASSUME Init PROVE Short
    OBVIOUS
  <2>1. Len(logs) = 0 /\ flushes = {} /\ dropped = {}
    BY DEF Init
  <2> QED BY <2>1, SizeAssumption DEF Short, OneFailureLosesNothing
<1>2. Short => OneFailureLosesNothing
  BY DEF Short
<1> QED BY <1>1, <1>2, ShortStep, Started, NothingLostStep, PTL DEF Spec

-----------------------------------------------------------------------------
(* The buffer is limited by the flushes that overlap: each of them can put   *)
(* one slice back, and leaves when it does.                                  *)

LEMMA Slices ==
    ASSUME NEW m \in Nat
    PROVE  /\ BUFFER_SIZE * m \in Nat /\ BUFFER_SIZE * (m + 1) = BUFFER_SIZE * m + BUFFER_SIZE
           /\ \A n \in Nat : m <= n => BUFFER_SIZE * m <= BUFFER_SIZE * n
<1>1. BUFFER_SIZE \in Nat \ {0}
  BY SizeAssumption
<1>2. ASSUME NEW n \in Nat, m <= n PROVE BUFFER_SIZE * m <= BUFFER_SIZE * n
  <2>1. n - m \in Nat /\ n = m + (n - m)
    BY <1>2
  <2>2. \A k \in Nat : BUFFER_SIZE * (m + k) = BUFFER_SIZE * m + BUFFER_SIZE * k /\ BUFFER_SIZE * k \in Nat
    BY <1>1
  <2> QED BY <1>1, <2>1, <2>2
<1> QED BY <1>1, <1>2

\* While at most K flushes overlap, the slices that those under way do not take fit.
Fits(K) ==
    /\ IsFiniteSet(flushes)
    /\ Cardinality(flushes) <= K /\ Len(logs) < BUFFER_SIZE * (K - Cardinality(flushes) + 1)

\* A step that starts a flush leaves the buffer empty; one that starts none and fails none
\* leaves it shorter than a slice, or as it was.
LEMMA FitsStep ==
    ASSUME NEW K \in Nat, NothingLost, Fits(K), [Next]_vars, Cardinality(flushes') <= K
    PROVE  Fits(K)'
<1> DEFINE room == K - Cardinality(flushes)
<1>1. /\ Cardinality(flushes) \in Nat /\ room \in Nat /\ Len(logs) \in Nat
      /\ logs \in Seq(Entries) /\ \A b \in flushes : b \in Seq(Entries)
      /\ BUFFER_SIZE \in Nat \ {0}
  BY SizeAssumption, FS_CardinalityType, LenProperties DEF Fits, NothingLost, TypeOK
<1>2. Len(logs) < BUFFER_SIZE * (room + 1)
  BY DEF Fits
\* The other flushes go on: what fits is decided by the new length alone.
<1>3. ASSUME IsFiniteSet(flushes'), NEW m \in Nat, m <= K - Cardinality(flushes'),
             Len(logs') \in Nat, Len(logs') < BUFFER_SIZE * (m + 1)
      PROVE  Fits(K)'
  <2>1. K - Cardinality(flushes') \in Nat
    BY <1>3, FS_CardinalityType
  <2>2. BUFFER_SIZE * (m + 1) <= BUFFER_SIZE * (K - Cardinality(flushes') + 1)
    BY <1>3, <2>1, Slices
  <2>3. BUFFER_SIZE * (K - Cardinality(flushes') + 1) \in Nat /\ BUFFER_SIZE * (m + 1) \in Nat
    BY <1>1, <1>3, <2>1, Slices
  <2> QED BY <1>3, <2>2, <2>3 DEF Fits
<1>4. BUFFER_SIZE * 0 = 0 /\ BUFFER_SIZE * (0 + 1) = BUFFER_SIZE
  BY <1>1
<1>5. ASSUME NEW buffer, flushLogs(buffer) PROVE Fits(K)'
  <2>1. IsFiniteSet(flushes')
    BY <1>5, FS_AddElement DEF flushLogs, Fits
  <2>2. Len(logs') = 0
    BY <1>5 DEF flushLogs
  <2>3. 0 <= K - Cardinality(flushes')
    BY <2>1, FS_CardinalityType
  <2> QED BY <1>1, <1>3, <1>4, <2>1, <2>2, <2>3
<1>6. CASE UNCHANGED <<logs, flushes>>
  BY <1>6 DEF Fits
<1>7. ASSUME NEW b \in flushes, flushes' = flushes \ {b}
      PROVE  IsFiniteSet(flushes') /\ room + 1 = K - Cardinality(flushes')
  <2>1. IsFiniteSet(flushes') /\ Cardinality(flushes') = Cardinality(flushes) - 1
    BY <1>7, FS_RemoveElement DEF Fits
  <2> QED BY <1>1, <2>1
<1> HIDE DEF room
<1>8. ASSUME NEW error \in BOOLEAN, applicationLog(error) PROVE Fits(K)'
  <2> DEFINE pushed == Append(logs, written + 1)
  <2>1. flushLogs(pushed) \/ (logs' = pushed /\ flushes' = flushes /\ ~(Len(pushed) >= BUFFER_SIZE))
    BY <1>8 DEF applicationLog
  <2>2. Len(pushed) \in Nat
    <3>1. written + 1 \in Entries
      <4>1. written \in 0 .. MaxEntries /\ written < MaxEntries
        BY <1>8 DEF applicationLog, NothingLost, TypeOK
      <4> QED BY <4>1, BoundsAssumption DEF Entries
    <3> QED BY <1>1, <3>1
  <2> HIDE DEF pushed
  <2>3. CASE logs' = pushed /\ flushes' = flushes /\ ~(Len(pushed) >= BUFFER_SIZE)
    <3>1. Len(logs') < BUFFER_SIZE
      BY <1>1, <2>2, <2>3
    <3>2. IsFiniteSet(flushes') /\ 0 <= K - Cardinality(flushes')
      BY <1>1, <2>3 DEF Fits
    <3> QED BY <1>3, <1>4, <2>2, <2>3, <3>1, <3>2
  <2> QED BY <1>5, <2>1, <2>3
<1>9. CASE startFlushTimer \/ onModuleDestroy
  BY <1>5, <1>9 DEF startFlushTimer, onModuleDestroy
<1>10. ASSUME NEW b \in flushes, InsertSucceeds(b) PROVE Fits(K)'
  <2>1. flushes' = flushes \ {b} /\ logs' = logs
    BY <1>10 DEF InsertSucceeds
  <2>2. IsFiniteSet(flushes') /\ room + 1 = K - Cardinality(flushes')
    BY <1>7, <2>1
  <2>3. BUFFER_SIZE * (room + 1 + 1) = BUFFER_SIZE * (room + 1) + BUFFER_SIZE /\ BUFFER_SIZE * (room + 1) \in Nat
    BY <1>1, Slices
  <2>4. Len(logs') \in Nat /\ Len(logs') < BUFFER_SIZE * (room + 1 + 1)
    BY <1>1, <1>2, <2>1, <2>3
  <2> QED BY <1>1, <1>3, <2>2, <2>4
<1>11. ASSUME NEW b \in flushes, NEW part \in SUBSET Range(b), InsertFails(b, part) PROVE Fits(K)'
  <2>1. flushes' = flushes \ {b} /\ logs' = slice(b) \o logs
    BY <1>11 DEF InsertFails, putBack
  <2>2. IsFiniteSet(flushes') /\ room + 1 = K - Cardinality(flushes')
    BY <1>7, <2>1
  <2>3. slice(b) \in Seq(Entries) /\ Len(slice(b)) \in Nat /\ Len(slice(b)) <= BUFFER_SIZE
    <3> DEFINE n == IF Len(b) < BUFFER_SIZE THEN Len(b) ELSE BUFFER_SIZE
    <3>1. n \in 0 .. Len(b) /\ n <= BUFFER_SIZE /\ n \in Nat
      BY <1>1, LenProperties
    <3> HIDE DEF n
    <3>2. Len(SubSeq(b, 1, n)) = n
      BY <1>1, <3>1, RangePrefix
    <3>3. slice(b) = SubSeq(b, 1, n)
      BY DEF slice, n
    <3> QED BY <1>1, <3>1, <3>2, <3>3, SliceType
  <2>4. Len(logs') = Len(slice(b)) + Len(logs)
    BY <1>1, <2>1, <2>3
  <2>5. BUFFER_SIZE * (room + 1 + 1) = BUFFER_SIZE * (room + 1) + BUFFER_SIZE /\ BUFFER_SIZE * (room + 1) \in Nat
    BY <1>1, Slices
  <2>6. Len(logs') \in Nat /\ Len(logs') < BUFFER_SIZE * (room + 1 + 1)
    BY <1>1, <1>2, <2>3, <2>4, <2>5
  <2> QED BY <1>1, <1>3, <2>2, <2>6
<1>12. CASE WriteDirectly \/ \E i \in Entries, ok \in BOOLEAN : CreateDone(i, ok)
  BY <1>6, <1>12 DEF WriteDirectly, CreateDone
<1>13. CASE UNCHANGED vars
  BY <1>6, <1>13 DEF vars
<1> QED BY <1>8, <1>9, <1>10, <1>11, <1>12, <1>13 DEF Next, InsertDone

\* For every K: while never more than K flushes overlap, the buffer stays below K + 1 slices.
LEMMA OverlapLimits ==
    ASSUME NEW K \in Nat
    PROVE  Spec => ([](Cardinality(flushes) <= K) => [](Len(logs) < BUFFER_SIZE * (K + 1)))
<1> DEFINE Few == Cardinality(flushes) <= K
           Limited == Len(logs) < BUFFER_SIZE * (K + 1)
<1>1. Init => Fits(K)
  <2> SUFFICES ASSUME Init PROVE Fits(K)
    OBVIOUS
  <2>1. flushes = {} /\ Len(logs) = 0
    BY DEF Init
  <2>2. BUFFER_SIZE * (K + 1) = BUFFER_SIZE * K + BUFFER_SIZE /\ BUFFER_SIZE * K \in Nat
    BY Slices
  <2> QED BY <2>1, <2>2, SizeAssumption, FS_EmptySet DEF Fits
<1>2. NothingLost /\ Fits(K) /\ [Next]_vars /\ Few' => Fits(K)'
  BY FitsStep
<1>3. NothingLost /\ Fits(K) => Limited
  <2> SUFFICES ASSUME NothingLost, Fits(K) PROVE Limited
    OBVIOUS
  <2>1. /\ Cardinality(flushes) \in Nat /\ Len(logs) \in Nat /\ K - Cardinality(flushes) + 1 \in Nat
        /\ K - Cardinality(flushes) + 1 <= K + 1
    BY FS_CardinalityType, LenProperties DEF Fits, NothingLost, TypeOK
  <2>2. BUFFER_SIZE * (K - Cardinality(flushes) + 1) <= BUFFER_SIZE * (K + 1)
    BY <2>1, Slices
  <2>3. BUFFER_SIZE * (K - Cardinality(flushes) + 1) \in Nat /\ BUFFER_SIZE * (K + 1) \in Nat
    BY <2>1, Slices
  <2> QED BY <2>1, <2>2, <2>3 DEF Fits
<1> HIDE DEF Few, Limited
<1>4. Spec => ([]Few => []Limited)
  BY <1>1, <1>2, <1>3, Started, NothingLostStep, PTL DEF Spec
<1> QED BY <1>4 DEF Few, Limited

\* What comment 49 of the service promises is true of as many flushes as overlap: a buffer
\* of any size, however many calls log and however many writes fail.
THEOREM OverlapIsTheLimit == Spec => OverlapLimitsBuffer
<1>1. \A K \in 0 .. MaxEntries : K \in Nat
  BY BoundsAssumption
<1> QED BY <1>1, OverlapLimits DEF OverlapLimitsBuffer

-----------------------------------------------------------------------------
(* What onModuleDestroy waits for.                                           *)

Awaits ==
    /\ failures = 0 => partly = {}
    /\ phase = "closing" /\ failures = 0 => awaited \in flushes
    /\ AwaitedIsStored

LEMMA AwaitsStep == OnceInv /\ Awaits /\ [Next]_vars => Awaits'
<1> SUFFICES ASSUME OnceInv, Awaits, [Next]_vars PROVE Awaits'
  OBVIOUS
<1> USE DEF Awaits, AwaitedIsStored
\* Once stored an entry is in no batch and in no create: nothing stores it again.
<1>1. ASSUME NEW i \in Range(awaited), phase = "closed", failures = 0
      PROVE  i \in Entries /\ i \notin Waiting
  <2>1. i \in Entries /\ stored[i] = 1 /\ partly = {}
    BY <1>1, RangeType DEF OnceInv, NothingLost, TypeOK
  <2> QED BY <2>1 DEF OnceInv, Once
<1>2. ASSUME flushes \subseteq flushes', UNCHANGED <<stored, partly, failures, phase, awaited>>
      PROVE  Awaits'
  BY <1>2
<1>3. CASE startFlushTimer \/ UNCHANGED vars \/ \E error \in BOOLEAN : applicationLog(error)
  <2>1. flushes \subseteq flushes' /\ UNCHANGED <<stored, partly, failures, phase, awaited>>
    BY <1>3 DEF startFlushTimer, applicationLog, flushLogs, vars
  <2> QED BY <1>2, <2>1
<1>4. CASE WriteDirectly
  BY <1>2, <1>4 DEF WriteDirectly
<1>5. CASE onModuleDestroy
  <2>1. awaited' = logs /\ flushes' = (IF logs = <<>> THEN flushes ELSE flushes \cup {logs})
        /\ UNCHANGED <<stored, partly, failures>>
    BY <1>5 DEF onModuleDestroy, flushLogs
  <2>2. CASE logs = <<>>
    <3>1. phase' = "closed" /\ Range(awaited') = {}
      BY <1>5, <2>1, <2>2 DEF onModuleDestroy, Range
    <3> QED BY <2>1, <3>1
  <2>3. CASE logs # <<>>
    <3>1. phase' = "closing" /\ awaited' \in flushes'
      BY <1>5, <2>1, <2>3 DEF onModuleDestroy
    <3> QED BY <2>1, <3>1
  <2> QED BY <2>2, <2>3
<1>6. ASSUME NEW b \in flushes, InsertSucceeds(b) PROVE Awaits'
  <2>1. /\ flushes' = flushes \ {b} /\ stored' = Store(Range(b)) /\ phase' = Returned(b)
        /\ UNCHANGED <<awaited, failures, partly>>
    BY <1>6 DEF InsertSucceeds
  <2>2. CASE phase = "closing" /\ b = awaited
    <3>1. phase' = "closed"
      BY <2>1, <2>2 DEF Returned
    <3>2. ASSUME NEW i \in Range(b), failures = 0 PROVE stored'[i] = 1
      <4>1. i \in Entries /\ stored[i] \in Nat /\ i \in Waiting
        BY OnceFacts DEF OnceInv, NothingLost, TypeOK, Waiting, InFlight
      <4>2. i \notin partly /\ stored[i] <= 1
        BY <4>1, <3>2 DEF OnceInv, Once
      <4> QED BY <2>1, <4>1, <4>2 DEF Store, OnceInv, Once
    <3> QED BY <2>1, <2>2, <3>1, <3>2
  <2>3. CASE ~(phase = "closing" /\ b = awaited)
    <3>1. phase' = phase
      BY <2>1, <2>3 DEF Returned
    <3>2. ASSUME NEW i \in Range(awaited), phase = "closed", failures = 0 PROVE stored'[i] = 1
      BY <1>1, <2>1, <3>2 DEF Store, Waiting, InFlight
    <3> QED BY <2>1, <2>3, <3>1, <3>2
  <2> QED BY <2>2, <2>3
<1>7. ASSUME NEW b \in flushes, NEW part \in SUBSET Range(b), InsertFails(b, part) PROVE Awaits'
  <2>1. failures' = failures + 1 /\ failures \in Nat
    BY <1>7, BoundsAssumption DEF InsertFails, OnceInv, NothingLost, TypeOK
  <2> QED BY <2>1
<1>8. ASSUME NEW i \in Entries, NEW ok \in BOOLEAN, CreateDone(i, ok) PROVE Awaits'
  <2>1. /\ i \in creating /\ UNCHANGED <<flushes, failures, partly, phase, awaited>>
        /\ stored' = Store({i}) \/ stored' = stored
    BY <1>8 DEF CreateDone
  <2>2. ASSUME NEW j \in Range(awaited), phase = "closed", failures = 0 PROVE stored'[j] = 1
    <3>1. stored[j] = 1 /\ j \in Entries /\ j # i
      BY <1>1, <2>1, <2>2 DEF Waiting
    <3> QED BY <2>1, <3>1 DEF Store
  <2> QED BY <2>1, <2>2
<1> QED BY <1>3, <1>4, <1>5, <1>6, <1>7, <1>8 DEF Next, InsertDone

\* The shutdown hook waits for what it promises to flush, whatever other flushes are under
\* way: FlushedAtShutdown fails only on batches that other callers took.
THEOREM ShutdownWaits == Spec => []AwaitedIsStored
<1>1. Init => OnceInv /\ Awaits
  <2>1. Init => phase = "running" /\ partly = {}
    BY DEF Init
  <2> QED BY <2>1, OnceInit DEF Awaits, AwaitedIsStored
<1>2. OnceInv /\ [Next]_vars => OnceInv'
  BY OnceStep DEF Goes
<1>3. Awaits => AwaitedIsStored
  BY DEF Awaits
<1> QED BY <1>1, <1>2, <1>3, AwaitsStep, PTL DEF Spec
=============================================================================
