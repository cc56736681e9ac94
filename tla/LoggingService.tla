--------------------------- MODULE LoggingService ---------------------------
(***************************************************************************)
(* LoggingService: application logs gather in a buffer that a timer, a     *)
(* full buffer, an error entry and the shutdown hook hand to insertMany;   *)
(* any number of these flushes may await MongoDB at once.  Audit logs and  *)
(* performance metrics are written one by one.                             *)
(***************************************************************************)
EXTENDS Naturals, Sequences, FiniteSets, Functions

CONSTANTS
    BUFFER_SIZE,  \* flush threshold, and how much of a failed batch goes back
    MaxEntries,   \* bound: log calls in a behaviour
    MaxFailures   \* bound: MongoDB writes that fail

ASSUME SizeAssumption == BUFFER_SIZE \in Nat \ {0}
ASSUME BoundsAssumption == MaxEntries \in Nat /\ MaxFailures \in Nat

VARIABLES
    logs,      \* logBuffer.logs
    flushes,   \* batches that await insertMany
    creating,  \* audit logs and metrics that await create
    stored,    \* how many documents MongoDB holds of each entry
    dropped,   \* history: application logs that a failed flush did not put back
    refused,   \* history: audit logs and metrics whose create failed
    partly,    \* history: entries that a failed insertMany had stored
    failures,  \* history: failed flushes
    written,   \* log calls so far; the n-th call writes entry n
    phase,     \* running, closing (onModuleDestroy awaits its flush), closed
    awaited    \* the batch onModuleDestroy awaits

vars == <<logs, flushes, creating, stored, dropped, refused, partly, failures, written, phase, awaited>>

Entries == 1 .. MaxEntries
InFlight == UNION {Range(b) : b \in flushes}

\* Every variable stays in its domain.
TypeOK ==
    /\ logs \in Seq(Entries) /\ awaited \in Seq(Entries)
    /\ \A b \in flushes : b \in Seq(Entries) /\ b # <<>>
    /\ stored \in [Entries -> Nat]
    /\ {creating, dropped, refused, partly} \subseteq SUBSET Entries
    /\ failures \in 0 .. MaxFailures
    /\ written \in 0 .. MaxEntries
    /\ phase \in {"running", "closing", "closed"}

Init ==
    /\ logs = <<>> /\ awaited = <<>> /\ flushes = {}
    /\ stored = [i \in Entries |-> 0]
    /\ creating = {} /\ dropped = {} /\ refused = {} /\ partly = {}
    /\ failures = 0 /\ written = 0
    /\ phase = "running"

Store(S) == [i \in Entries |-> IF i \in S THEN stored[i] + 1 ELSE stored[i]]

\* Mutant of flushLogs: the batch is copied and the buffer emptied only when it is full.
flushLogsKeepsBuffer(buffer) ==
    /\ logs' = IF Len(buffer) >= BUFFER_SIZE THEN <<>> ELSE buffer
    /\ flushes' = IF buffer = <<>> THEN flushes ELSE flushes \cup {buffer}
\* Mutant of flushLogs: no early return for an empty buffer.
flushLogsEvenEmpty(buffer) ==
    /\ logs' = <<>>
    /\ flushes' = flushes \cup {buffer}
\* Up to the await: the whole buffer becomes a batch.
flushLogs(buffer) ==
    /\ logs' = <<>>
    /\ flushes' = IF buffer = <<>> THEN flushes ELSE flushes \cup {buffer}

\* Mutant of applicationLog: the length is compared before the push, and with >.
applicationLogLate(error) ==
    /\ written < MaxEntries /\ written' = written + 1
    /\ LET pushed == Append(logs, written + 1) IN
       IF Len(logs) > BUFFER_SIZE \/ error
       THEN flushLogs(pushed)
       ELSE logs' = pushed /\ UNCHANGED flushes
    /\ UNCHANGED <<creating, stored, dropped, refused, partly, failures, phase, awaited>>
applicationLog(error) ==
    /\ written < MaxEntries /\ written' = written + 1
    /\ LET pushed == Append(logs, written + 1) IN
       IF Len(pushed) >= BUFFER_SIZE \/ error
       THEN flushLogs(pushed)
       ELSE logs' = pushed /\ UNCHANGED flushes
    /\ UNCHANGED <<creating, stored, dropped, refused, partly, failures, phase, awaited>>

\* Mutant of startFlushTimer: the timer is not set again after a failure.
startFlushTimerOnce ==
    /\ phase = "running" /\ logs # <<>> /\ failures = 0
    /\ flushLogs(logs)
    /\ UNCHANGED <<creating, stored, dropped, refused, partly, failures, written, phase, awaited>>
\* Every FLUSH_INTERVAL.
startFlushTimer ==
    /\ phase = "running" /\ logs # <<>>
    /\ flushLogs(logs)
    /\ UNCHANGED <<creating, stored, dropped, refused, partly, failures, written, phase, awaited>>

\* Mutant of Returned: it returns when any flush does.
ReturnedWithAny(b) == IF phase = "closing" THEN "closed" ELSE phase
\* onModuleDestroy returns when the flush it started does.
Returned(b) == IF phase = "closing" /\ b = awaited THEN "closed" ELSE phase

InsertSucceeds(b) ==
    /\ b \in flushes /\ flushes' = flushes \ {b}
    /\ stored' = Store(Range(b))
    /\ phase' = Returned(b)
    /\ UNCHANGED <<logs, creating, dropped, refused, partly, failures, written, awaited>>

\* Mutant of slice: the whole batch goes back.
sliceAll(b) == b
\* slice(0, BUFFER_SIZE)
slice(b) == SubSeq(b, 1, IF Len(b) < BUFFER_SIZE THEN Len(b) ELSE BUFFER_SIZE)

\* Mutant of putBack: the failed batch replaces what was logged meanwhile.
putBackOver(b) == slice(b)
\* unshift: before what was logged meanwhile.
putBack(b) == slice(b) \o logs

\* insertMany rejects after it stored part of the batch (ordered: false).
InsertFails(b, part) ==
    /\ b \in flushes /\ flushes' = flushes \ {b}
    /\ failures < MaxFailures /\ failures' = failures + 1
    /\ stored' = Store(part) /\ partly' = partly \cup part
    /\ logs' = putBack(b)
    /\ dropped' = dropped \cup (Range(b) \ Range(slice(b)))
    /\ phase' = Returned(b)
    /\ UNCHANGED <<creating, refused, written, awaited>>

\* auditLog and performanceMetric: one create each, whose error is only logged.
WriteDirectly ==
    /\ written < MaxEntries /\ written' = written + 1
    /\ creating' = creating \cup {written + 1}
    /\ UNCHANGED <<logs, flushes, stored, dropped, refused, partly, failures, phase, awaited>>

CreateDone(i, ok) ==
    /\ i \in creating /\ creating' = creating \ {i}
    /\ IF ok THEN stored' = Store({i}) /\ UNCHANGED refused
             ELSE refused' = refused \cup {i} /\ UNCHANGED stored
    /\ UNCHANGED <<logs, flushes, dropped, partly, failures, written, phase, awaited>>

\* Clears the timer and awaits one last flush; requests may still log afterwards.
onModuleDestroy ==
    /\ phase = "running"
    /\ phase' = IF logs = <<>> THEN "closed" ELSE "closing"
    /\ awaited' = logs
    /\ flushLogs(logs)
    /\ UNCHANGED <<creating, stored, dropped, refused, partly, failures, written>>

InsertDone == \E b \in flushes : InsertSucceeds(b) \/ \E part \in SUBSET Range(b) : InsertFails(b, part)
Next ==
    \/ \E error \in BOOLEAN : applicationLog(error)
    \/ WriteDirectly \/ startFlushTimer \/ InsertDone \/ onModuleDestroy
    \/ \E i \in Entries, ok \in BOOLEAN : CreateDone(i, ok)

Spec == Init /\ [][Next]_vars
\* setInterval fires and MongoDB answers.
FairSpec == Spec /\ WF_vars(startFlushTimer) /\ WF_vars(InsertDone)

-----------------------------------------------------------------------------
\* An entry is never lost from sight: it is in the buffer, in a batch or create that
\* is under way, in MongoDB, or one the code gave up (a failed create, or the end of
\* a failed batch beyond BUFFER_SIZE).  Logging while a flush is awaited is the hazard.
NothingVanishes ==
    \A i \in 1 .. written :
        i \in Range(logs) \cup InFlight \cup creating \cup dropped \cup refused \/ stored[i] > 0

\* Unless a failed insertMany had stored it, an entry is stored at most once, and
\* while it waits it is in one place only: no flush repeats another one's entries.
ExactlyOnce ==
    /\ \A i \in Entries \ partly :
          /\ stored[i] <= 1
          /\ stored[i] = 1 => i \notin Range(logs) \cup InFlight
    /\ \A b \in flushes : Range(b) \cap Range(logs) = {}
    /\ \A a, b \in flushes : a # b => Range(a) \cap Range(b) = {}
    /\ \A j, k \in DOMAIN logs : j # k => logs[j] # logs[k]

\* A single failed flush gives nothing up: only what a first failure put back can make
\* a batch longer than the slice.
OneFailureLosesNothing == failures <= 1 => dropped = {}

\* What the buffer held at shutdown is stored, once, when onModuleDestroy returns, unless a
\* flush failed: neither a flush that other callers started nor later log calls end its wait.
AwaitedIsStored == phase = "closed" /\ failures = 0 => \A i \in Range(awaited) : stored[i] = 1

\* The service implements at-least-once delivery: whatever order log calls, flushes and
\* failures come in, an entry waits until MongoDB has it or the code gave it up, and one
\* that was given up waits nowhere else.
Sink == INSTANCE Delivery WITH
    Items <- Entries,
    waiting <- Range(logs) \cup InFlight \cup creating,
    delivered <- {i \in Entries : stored[i] > 0},
    givenUp <- dropped \cup refused
DeliversEntries == Sink!Spec

\* What is logged while the service runs reaches MongoDB if its writes fail only
\* finitely often, unless a failed batch beyond BUFFER_SIZE gave it up or the service
\* was shut down first.
EventuallyStored ==
    \A i \in Entries :
        i \in Range(logs) \cup InFlight ~> stored[i] > 0 \/ i \in dropped \/ phase # "running"

\* service 49: failed logs go back "with limit to prevent memory issues": at most a
\* slice of BUFFER_SIZE before fewer than BUFFER_SIZE new entries.
BufferLimited == Len(logs) < 2 * BUFFER_SIZE

\* What does limit it is the number of flushes that await MongoDB at the same time: the
\* buffer never holds more than a slice of each of them before fewer than BUFFER_SIZE
\* new entries.  While no two flushes overlap (K = 1) the limit of service 49 holds.
OverlapLimitsBuffer ==
    \A K \in 0 .. MaxEntries :
        [](Cardinality(flushes) <= K) => [](Len(logs) < BUFFER_SIZE * (K + 1))

\* service 115: "Flush remaining logs before shutdown".
FlushedAtShutdown == phase = "closed" /\ failures = 0 => InFlight = {}
=============================================================================
