-------------------------- MODULE LifecycleProofs --------------------------
(***************************************************************************)
(* Theorems about Lifecycle for every set of providers and every instance  *)
(* of LoggingService.                                                      *)
(***************************************************************************)
EXTENDS Lifecycle, RangeLemmas, TLAPS

\* How many connections the factory and the hook have opened.
Opened(u) ==
    (IF u \in built \cap ConnectsWhenBuilt THEN 1 ELSE 0) + (IF u \in hooked \cap ConnectsInHook THEN 1 ELSE 0)

\* A provider holds all connections it opened but the one its destroy hook closed, and
\* refers to the last one.
Holds(u) ==
    /\ made[u] = Opened(u) /\ ref[u] = made[u]
    /\ app # "exited" => open[u] = 1 .. made[u] \ (IF u \in ended THEN closes(u) ELSE {})

\* What Nest has done when.
Phases ==
    /\ made \in [Utils -> Nat] /\ ref \in [Utils -> Nat] /\ open \in [Utils -> SUBSET Nat]
    /\ {built, hooked, ended} \subseteq SUBSET Utils
    /\ app = "building" => hooked = {}
    /\ app \in {"starting", "listening", "destroying", "disposed"} => built = Utils
    /\ app \in {"listening", "destroying", "disposed"} => hooked = Utils
    /\ app \in {"building", "starting", "listening"} => ended = {}
    /\ app = "disposed" => ended = Utils
    /\ app \in {"building", "starting", "listening", "destroying", "disposed", "exited"}

\* The models come from the factory's connection.
FirstModels == models \in {0, 1} /\ (models = 1 => Mongo \in built)

Accounted == Phases /\ FirstModels /\ \A u \in Utils : Holds(u)

LEMMA InitAccounted == Init => Accounted
BY DEF Init, Accounted, Phases, FirstModels, Holds, Opened

LEMMA StepAccounted == Accounted /\ [Next]_vars => Accounted'
<1> SUFFICES ASSUME Accounted, [Next]_vars PROVE Accounted'
  OBVIOUS
<1> USE DEF Accounted, Holds, Opened
\* Steps that only move Nest on or concern the logs.
<1>1. ASSUME UNCHANGED <<connections, built, hooked, ended, models, app>>
      PROVE  Accounted'
  BY <1>1 DEF connections, Phases, FirstModels, closes
<1>2. ASSUME NEW u \in Utils, Build(u) PROVE Accounted'
  <2>1. Phases'
    BY <1>2 DEF Build, connect, connections, Phases
  <2>2. FirstModels'
    BY <1>2 DEF Build, FirstModels
  <2>3. ASSUME NEW v \in Utils PROVE Holds(v)'
    <3>1. u \notin built /\ u \notin hooked /\ ended = {} /\ made[u] = 0
      BY <1>2 DEF Build, Phases
    <3>2. CASE v = u /\ u \in ConnectsWhenBuilt
      BY <1>2, <3>1, <3>2 DEF Build, connect, Phases, closes
    <3>3. CASE v # u \/ u \notin ConnectsWhenBuilt
      BY <1>2, <3>1, <3>3 DEF Build, connect, connections, Phases, closes
    <3> QED BY <3>2, <3>3
  <2> QED BY <2>1, <2>2, <2>3
<1>3. ASSUME NEW u \in Utils, onModuleInit(u) PROVE Accounted'
  <2>1. Phases'
    BY <1>3 DEF onModuleInit, connect, connections, Phases
  <2>2. FirstModels'
    BY <1>3 DEF onModuleInit, FirstModels
  <2>3. ASSUME NEW v \in Utils PROVE Holds(v)'
    <3>1. u \notin hooked /\ ended = {}
      BY <1>3 DEF onModuleInit, Phases
    <3>2. CASE v = u /\ u \in ConnectsInHook
      BY <1>3, <3>1, <3>2 DEF onModuleInit, connect, Phases, closes
    <3>3. CASE v # u \/ u \notin ConnectsInHook
      BY <1>3, <3>1, <3>3 DEF onModuleInit, connect, connections, Phases, closes
    <3> QED BY <3>2, <3>3
  <2> QED BY <2>1, <2>2, <2>3
<1>4. CASE BuildLoggingService
  <2>1. models' = 1
    BY <1>4 DEF BuildLoggingService, Phases, ConnectsWhenBuilt, Utils
  <2> QED BY <1>4, <2>1 DEF BuildLoggingService, connections, Phases, FirstModels, closes
<1>5. CASE AllBuilt \/ Listen \/ Close \/ Dispose
  BY <1>5 DEF AllBuilt, Listen, Close, Dispose, connections, Phases, FirstModels, closes
<1>6. ASSUME NEW u \in Utils, onModuleDestroy(u) PROVE Accounted'
  <2>1. Phases'
    BY <1>6 DEF onModuleDestroy, Phases
  <2>2. FirstModels'
    BY <1>6 DEF onModuleDestroy, FirstModels
  <2>3. ASSUME NEW v \in Utils PROVE Holds(v)'
    BY <1>6 DEF onModuleDestroy, Phases, closes
  <2> QED BY <2>1, <2>2, <2>3
<1>7. CASE BootFails \/ Kill
  BY <1>7 DEF BootFails, Kill, Exit, Phases, FirstModels
<1>8. CASE DestroyLogging \/ Logs \/ TimerFires \/ MongoAnswers
  BY <1>1, <1>8 DEF DestroyLogging, Logs, TimerFires, MongoAnswers
<1>9. CASE UNCHANGED vars
  BY <1>1, <1>9 DEF vars
<1> QED BY <1>2, <1>3, <1>4, <1>5, <1>6, <1>7, <1>8, <1>9 DEF Next, Boots, Closes

\* Every connection is accounted for: the inductive invariant of the theorems below.
THEOREM AlwaysAccounted == Spec => []Accounted
BY InitAccounted, StepAccounted, PTL DEF Spec

\* What Typing needs beside Accounted.
Bounded ==
    /\ written \in 0 .. MaxEntries /\ before \in 0 .. MaxEntries /\ failed \in BOOLEAN
    /\ app = "exited" => open = [u \in Utils |-> {}]

LEMMA StepBounded == Bounded /\ [Next]_vars => Bounded'
<1> SUFFICES ASSUME Bounded, [Next]_vars PROVE Bounded'
  OBVIOUS
<1> USE LoggingAssumption DEF Bounded
<1>1. CASE Boots \/ DestroyLogging \/ (\E u \in Utils : onModuleDestroy(u)) \/ Dispose
  BY <1>1 DEF Boots, Build, onModuleInit, BuildLoggingService, AllBuilt, Listen, DestroyLogging,
       Log!onModuleDestroy, onModuleDestroy, Dispose, logging
<1>2. CASE BootFails \/ Kill
  BY <1>2 DEF BootFails, Kill, Exit, logging
<1>3. CASE Close
  BY <1>3 DEF Close, logging
<1>4. CASE Logs
  <2>1. app # "exited" /\ app' = app /\ before' = before /\ failed' = failed
    BY <1>4 DEF Logs
  <2>2. written < MaxEntries /\ written' = written + 1
    BY <1>4 DEF Logs, Log!applicationLog, Log!WriteDirectly
  <2> QED BY <2>1, <2>2
<1>5. CASE TimerFires
  BY <1>5 DEF TimerFires, Log!startFlushTimer
<1>6. CASE MongoAnswers
  <2>1. app # "exited" /\ app' = app /\ before' = before
    BY <1>6 DEF MongoAnswers
  <2>2. written' = written
    BY <1>6 DEF MongoAnswers, Log!InsertSucceeds, Log!InsertFails, Log!CreateDone
  <2>3. failed' \in BOOLEAN
    <3>1. \A ok \in BOOLEAN : (failed \/ ok) \in BOOLEAN
      OBVIOUS
    <3> QED BY <1>6, <3>1 DEF MongoAnswers
  <2> QED BY <2>1, <2>2, <2>3
<1>7. CASE UNCHANGED vars
  BY <1>7 DEF vars, connections, logging
<1> QED BY <1>1, <1>2, <1>3, <1>4, <1>5, <1>6, <1>7 DEF Next, Closes

\* Every provider opens at most two connections, and only what was logged counts.
THEOREM Typing == Spec => []TypeOK
<1>1. Init => Bounded
  <2>1. Init => failed \in BOOLEAN /\ app = "building" /\ before = 0 /\ written = 0
    BY DEF Init, Log!Init
  <2> QED BY <2>1, LoggingAssumption DEF Bounded
<1>2. Accounted /\ Bounded => TypeOK
  <2> SUFFICES ASSUME Accounted, Bounded PROVE TypeOK
    OBVIOUS
  <2>1. ASSUME NEW u \in Utils PROVE made[u] \in 0 .. 2 /\ ref[u] \in 0 .. 2 /\ open[u] \subseteq 1 .. 2
    <3>1. made[u] \in 0 .. 2 /\ ref[u] = made[u]
      BY DEF Accounted, Holds, Opened
    <3>2. CASE app = "exited"
      BY <3>1, <3>2 DEF Bounded
    <3>3. CASE app # "exited"
      BY <3>1, <3>3 DEF Accounted, Holds
    <3> QED BY <3>1, <3>2, <3>3
  <2>2. made \in [Utils -> 0 .. 2] /\ ref \in [Utils -> 0 .. 2] /\ open \in [Utils -> SUBSET (1 .. 2)]
    BY <2>1 DEF Accounted, Phases
  <2>3. models \in 0 .. 2
    BY DEF Accounted, FirstModels
  <2> QED BY <2>2, <2>3 DEF Accounted, Phases, Bounded, TypeOK
<1> QED BY <1>1, <1>2, StepBounded, AlwaysAccounted, PTL DEF Spec

LEMMA KeepsConnection == Accounted => ModelsConnected
<1> SUFFICES ASSUME Accounted, models # 0, app # "exited" PROVE 1 \in open[Mongo]
  BY DEF Accounted, FirstModels, ModelsConnected
<1>1. Mongo \in Utils /\ Mongo \in built /\ Mongo \in ConnectsWhenBuilt /\ Mongo \in ConnectsInHook
  BY DEF Accounted, FirstModels, Utils, ConnectsWhenBuilt, ConnectsInHook
<1>2. Mongo \in ended => Mongo \in hooked
  BY <1>1 DEF Accounted, Phases
<1>3. made[Mongo] = (IF Mongo \in hooked THEN 2 ELSE 1) /\ ref[Mongo] = made[Mongo]
  BY <1>1 DEF Accounted, Holds, Opened
<1>4. open[Mongo] = 1 .. made[Mongo] \ (IF Mongo \in ended THEN {ref[Mongo]} ELSE {})
  BY <1>1, UtilsAssumption DEF Accounted, Holds, closes
<1> QED BY <1>2, <1>3, <1>4

\* LoggingService's models never lose their connection while the process runs: MongoUtil
\* closes its second one.
THEOREM ModelsKeepConnection == Spec => []ModelsConnected
BY KeepsConnection, AlwaysAccounted, PTL

\* app.close() leaves open the connections of the factories that the hooks replaced and
\* the Redis client, and nothing else.
THEOREM LeavesOpen == Spec => []LeftOpen
<1>1. Accounted => LeftOpen
  <2> SUFFICES ASSUME Accounted, app = "disposed", NEW u \in Utils
               PROVE  open[u] = IF u \in {Mongo} \cup Queues \cup Caches THEN {1} ELSE {}
    BY DEF Accounted, Phases, LeftOpen
  <2>1. u \in built /\ u \in hooked /\ u \in ended
    BY DEF Accounted, Phases
  <2>2. open[u] = 1 .. made[u] \ closes(u) /\ ref[u] = made[u]
    BY <2>1 DEF Accounted, Holds
  <2>3. CASE u \in {Mongo} \cup Queues
    <3>1. made[u] = 2 /\ closes(u) = {2}
      BY <2>1, <2>2, <2>3, UtilsAssumption
         DEF Accounted, Holds, Opened, ConnectsWhenBuilt, ConnectsInHook, closes
    <3> QED BY <2>2, <2>3, <3>1
  <2>4. CASE u \in Caches
    <3>1. made[u] = 1 /\ closes(u) = {}
      BY <2>1, <2>2, <2>4, UtilsAssumption
         DEF Accounted, Holds, Opened, ConnectsWhenBuilt, ConnectsInHook, closes
    <3> QED BY <2>2, <2>4, <3>1
  <2>5. CASE u \in Pools \cup Sqs
    <3>1. made[u] \in {0, 1} /\ closes(u) = {made[u]}
      BY <2>1, <2>2, <2>5, UtilsAssumption
         DEF Accounted, Holds, Opened, ConnectsWhenBuilt, ConnectsInHook, closes
    <3> QED BY <2>2, <2>5, <3>1, UtilsAssumption
  <2> QED BY <2>3, <2>4, <2>5 DEF Utils
<1> QED BY <1>1, AlwaysAccounted, PTL

-----------------------------------------------------------------------------
(* LoggingService inside the lifecycle: every step of the process is one of  *)
(* its steps or leaves it alone, so its invariants carry over.               *)

LogProofs == INSTANCE LoggingServiceProofs

\* Writes that nothing but a failing MongoDB spoils.
Spoilt == partly \cup dropped \cup refused
UnspoiltSoFar == ~failed => Spoilt = {}
\* Nothing is logged before the models exist, and they exist once Nest has built everything.
Idle ==
    /\ models = 0 => logs = <<>> /\ flushes = {} /\ creating = {}
    /\ app \in {"starting", "listening", "destroying", "disposed"} => models # 0
\* What is in the buffer once the shutdown hook has flushed it was logged after app.close().
LateOnly ==
    /\ app \in {"building", "starting", "listening"} => phase = "running"
    /\ app = "disposed" => phase = "closed"
    /\ app \in {"destroying", "disposed"} => before <= written
    /\ app \in {"destroying", "disposed"} /\ phase # "running" /\ ~failed => \A i \in Range(logs) : i > before

\* DbModule's connections are ended after LoggingService's hook has returned.
FlushedFirst == ended \cap ({Mongo} \cup Pools) # {} => phase = "closed"

Lossless == Accounted /\ Bounded /\ LogProofs!OnceInv /\ UnspoiltSoFar /\ Idle /\ LateOnly /\ FlushedFirst

LEMMA LogSteps == [Next]_vars => [LogProofs!Next]_(LogProofs!vars)
<1> SUFFICES ASSUME [Next]_vars PROVE [LogProofs!Next]_(LogProofs!vars)
  OBVIOUS
<1>1. CASE Boots \/ BootFails \/ Close \/ Dispose \/ Kill \/ (\E u \in Utils : onModuleDestroy(u)) \/ UNCHANGED vars
  <2>1. UNCHANGED logging
    BY <1>1 DEF Boots, Build, onModuleInit, BuildLoggingService, AllBuilt, Listen, BootFails, Close,
       Dispose,
         Kill, Exit, onModuleDestroy, vars
  <2> QED BY <2>1 DEF logging, LogProofs!vars
<1>2. CASE Logs
  <2>1. (\E error \in BOOLEAN : LogProofs!applicationLog(error)) \/ LogProofs!WriteDirectly
    BY <1>2 DEF Logs, Log!applicationLog, LogProofs!applicationLog, Log!flushLogs, LogProofs!flushLogs,
         Log!WriteDirectly, LogProofs!WriteDirectly
  <2> QED BY <2>1 DEF LogProofs!Next
<1>3. CASE TimerFires \/ DestroyLogging
  <2>1. LogProofs!startFlushTimer \/ LogProofs!onModuleDestroy
    BY <1>3 DEF TimerFires, DestroyLogging, Log!startFlushTimer, LogProofs!startFlushTimer,
       Log!flushLogs,
         LogProofs!flushLogs, Log!onModuleDestroy, LogProofs!onModuleDestroy
  <2> QED BY <2>1 DEF LogProofs!Next
<1>4. CASE MongoAnswers
  <2>1. \/ \E b \in flushes : Log!InsertSucceeds(b)
        \/ \E b \in flushes : \E part \in SUBSET Range(b) : Log!InsertFails(b, part)
        \/ \E i \in Log!Entries, ok \in BOOLEAN : Log!CreateDone(i, ok)
    BY <1>4 DEF MongoAnswers
  <2>2. ASSUME NEW b \in flushes, Log!InsertSucceeds(b) PROVE LogProofs!InsertSucceeds(b)
    BY <2>2 DEF Log!InsertSucceeds, LogProofs!InsertSucceeds, Log!Store, LogProofs!Store, Log!Entries,
         LogProofs!Entries, Log!Returned, LogProofs!Returned,
         Log!Range, LogProofs!Range
  <2>3. ASSUME NEW b \in flushes, NEW part \in SUBSET Range(b), Log!InsertFails(b, part)
        PROVE  LogProofs!InsertFails(b, part)
    BY <2>3 DEF Log!InsertFails, LogProofs!InsertFails, Log!Store, LogProofs!Store, Log!Entries,
         LogProofs!Entries, Log!Returned, LogProofs!Returned, Log!putBack, LogProofs!putBack, Log!slice,
         LogProofs!slice, Log!Range, LogProofs!Range, Range
  <2>4. ASSUME NEW i \in Log!Entries, NEW ok \in BOOLEAN, Log!CreateDone(i, ok)
        PROVE  i \in LogProofs!Entries /\ LogProofs!CreateDone(i, ok)
    BY <2>4 DEF Log!CreateDone, LogProofs!CreateDone, Log!Store, LogProofs!Store, Log!Entries,
         LogProofs!Entries
  <2> QED BY <2>1, <2>2, <2>3, <2>4 DEF LogProofs!Next, LogProofs!InsertDone, LogProofs!Range, Range
<1> QED BY <1>1, <1>2, <1>3, <1>4 DEF Next, Closes

LEMMA LogOnce ==
    /\ LogProofs!Init => LogProofs!OnceInv
    /\ LogProofs!OnceInv /\ [LogProofs!Next]_(LogProofs!vars) => LogProofs!OnceInv'
<1>1. BUFFER_SIZE \in Nat \ {0} /\ MaxEntries \in Nat /\ MaxFailures \in Nat
  BY LoggingAssumption
<1>2. LogProofs!Init => LogProofs!OnceInv
  BY <1>1, LogProofs!OnceInit
<1>3. LogProofs!OnceInv /\ [LogProofs!Next]_(LogProofs!vars) => LogProofs!Goes
  BY <1>1, LogProofs!OnceStep
<1> QED BY <1>2, <1>3 DEF LogProofs!Goes


\* Whatever MongoDB answers, it answers over an open connection.
LEMMA Connected ==
    ASSUME Accounted, Idle, app # "exited", flushes # {} \/ creating # {}
    PROVE  models \in open[Mongo]
<1>1. ModelsConnected
  BY KeepsConnection
<1> QED BY <1>1 DEF Idle, ModelsConnected

LEMMA UnspoiltStep ==
    ASSUME Accounted, Idle, UnspoiltSoFar, failed \in BOOLEAN, [Next]_vars
    PROVE  UnspoiltSoFar'
<1> USE DEF UnspoiltSoFar, Spoilt
<1>1. CASE UNCHANGED <<failed, partly, dropped, refused>>
  BY <1>1
<1>2. CASE Boots \/ BootFails \/ Close \/ Closes \/ Kill \/ UNCHANGED vars
  BY <1>1, <1>2 DEF Boots, Build, onModuleInit, BuildLoggingService, AllBuilt, Listen, BootFails,
     Close, Closes,
       DestroyLogging, Log!onModuleDestroy, onModuleDestroy, Dispose, Kill, Exit, vars, logging
<1>3. CASE Logs \/ TimerFires
  BY <1>1, <1>3 DEF Logs, TimerFires, Log!applicationLog, Log!WriteDirectly, Log!startFlushTimer
<1>4. CASE MongoAnswers
  <2> DEFINE connected == models \in open[Mongo]
  <2>1. \/ (\E b \in flushes : Log!InsertSucceeds(b)) /\ UNCHANGED failed
        \/ (\E b \in flushes : \E part \in SUBSET Range(b) : Log!InsertFails(b, part)) /\ failed' = (failed \/ connected)
        \/ \E i \in Log!Entries, ok \in BOOLEAN : Log!CreateDone(i, ok) /\ failed' = (failed \/ (connected /\ ~ok))
    BY <1>4 DEF MongoAnswers
  <2>2. app # "exited"
    BY <1>4 DEF MongoAnswers
  <2>3. CASE \E b \in flushes : Log!InsertSucceeds(b) /\ UNCHANGED failed
    BY <1>1, <2>3 DEF Log!InsertSucceeds
  <2>4. CASE \E b \in flushes : failed' = (failed \/ connected)
    <3>1. connected
      BY <2>2, <2>4, Connected
    <3> QED BY <2>4, <3>1
  <2>5. ASSUME NEW i \in Log!Entries, NEW ok \in BOOLEAN, Log!CreateDone(i, ok),
               failed' = (failed \/ (connected /\ ~ok))
        PROVE  UnspoiltSoFar'
    <3>1. connected
      <4>1. creating # {}
        BY <2>5 DEF Log!CreateDone
      <4> QED BY <2>2, <4>1, Connected
    <3>2. CASE ok
      BY <2>5, <3>2 DEF Log!CreateDone
    <3>3. CASE ~ok
      BY <2>5, <3>1, <3>3
    <3> QED BY <3>2, <3>3
  <2> QED BY <2>1, <2>3, <2>4, <2>5
<1> QED BY <1>2, <1>3, <1>4 DEF Next

LEMMA IdleStep == ASSUME Idle, [Next]_vars PROVE Idle'
<1> USE DEF Idle
<1>1. CASE Boots \/ Close \/ Dispose \/ UNCHANGED vars \/ \E u \in Utils : onModuleDestroy(u)
  BY <1>1 DEF Boots, Build, onModuleInit, BuildLoggingService, AllBuilt, Listen, Close, Dispose,
       onModuleDestroy, vars, logging
<1>2. CASE BootFails \/ Kill
  BY <1>2 DEF BootFails, Kill, Exit, logging
<1>3. CASE DestroyLogging \/ Logs \/ TimerFires
  <2>1. models # 0 /\ UNCHANGED <<models, app>>
    BY <1>3 DEF DestroyLogging, Logs, TimerFires
  <2> QED BY <2>1
<1>4. CASE MongoAnswers
  <2>1. flushes # {} \/ creating # {}
    BY <1>4 DEF MongoAnswers, Log!CreateDone
  <2>2. UNCHANGED <<models, app>>
    BY <1>4 DEF MongoAnswers
  <2> QED BY <2>1, <2>2
<1> QED BY <1>1, <1>2, <1>3, <1>4 DEF Next, Closes


LEMMA LateStep ==
    ASSUME Accounted, Bounded, Idle, LogProofs!OnceInv, LateOnly, [Next]_vars
    PROVE  LateOnly'
<1> USE DEF LateOnly
<1>1. /\ written \in Nat /\ before \in Nat /\ failed \in BOOLEAN
      /\ logs \in Seq(Nat) /\ \A b \in flushes : b \in Seq(Nat)
  <2>1. logs \in Seq(1 .. MaxEntries) /\ \A b \in flushes : b \in Seq(1 .. MaxEntries)
    BY DEF LogProofs!OnceInv, LogProofs!NothingLost, LogProofs!TypeOK, LogProofs!Entries
  <2>2. \A s \in Seq(1 .. MaxEntries) : s \in Seq(Nat)
    BY LoggingAssumption
  <2> QED BY <2>1, <2>2, LoggingAssumption DEF Bounded
<1>2. CASE Boots \/ BootFails \/ Kill \/ UNCHANGED vars
  BY <1>2 DEF Boots, Build, onModuleInit, BuildLoggingService, AllBuilt, Listen, BootFails, Kill, Exit,
     vars, logging
<1>3. CASE Close \/ Dispose \/ \E u \in Utils : onModuleDestroy(u)
  BY <1>1, <1>3 DEF Close, Dispose, onModuleDestroy, logging
<1>4. CASE DestroyLogging
  <2>1. app = "destroying" /\ UNCHANGED <<app, before, failed, written>> /\ logs' = <<>>
    BY <1>4 DEF DestroyLogging, Log!onModuleDestroy, Log!flushLogs
  <2>2. Range(logs') = {}
    BY <2>1 DEF Range
  <2> QED BY <2>1, <2>2
<1>5. CASE Logs
  <2>1. UNCHANGED <<app, before, failed, phase>> /\ written' = written + 1
    BY <1>5 DEF Logs, Log!applicationLog, Log!WriteDirectly
  <2>2. logs' = <<>> \/ logs' = logs \/ logs' = Append(logs, written + 1)
    BY <1>5 DEF Logs, Log!applicationLog, Log!WriteDirectly, Log!flushLogs
  <2>3. Range(logs') \subseteq Range(logs) \cup {written + 1}
    <3>1. Range(Append(logs, written + 1)) = Range(logs) \cup {written + 1}
      BY <1>1, RangeAppend
    <3>2. Range(<<>>) = {}
      BY DEF Range
    <3> QED BY <2>2, <3>1, <3>2
  <2>4. before <= written => before <= written + 1 /\ written + 1 > before
    BY <1>1
  <2> QED BY <2>1, <2>3, <2>4
<1>6. CASE TimerFires
  BY <1>6 DEF TimerFires, Log!startFlushTimer
<1>7. CASE MongoAnswers
  <2>1. UNCHANGED <<app, before, written>> /\ app # "exited"
    BY <1>7 DEF MongoAnswers, Log!InsertSucceeds, Log!InsertFails, Log!CreateDone
  <2>2. /\ phase = "running" => phase' = "running"
        /\ phase = "closed" => phase' = "closed"
    BY <1>7 DEF MongoAnswers, Log!InsertSucceeds, Log!InsertFails, Log!CreateDone, Log!Returned
  <2>3. failed => failed'
    BY <1>7 DEF MongoAnswers
  <2>4. logs' = logs \/ failed'
    <3>1. CASE \E b \in flushes : Log!InsertSucceeds(b)
      BY <3>1 DEF Log!InsertSucceeds
    <3>2. CASE flushes # {} /\ failed' = (failed \/ models \in open[Mongo])
      BY <2>1, <3>2, Connected
    <3>3. CASE \E i \in Log!Entries, ok \in BOOLEAN : Log!CreateDone(i, ok)
      BY <3>3 DEF Log!CreateDone
    <3> QED BY <1>7, <3>1, <3>2, <3>3 DEF MongoAnswers
  <2> QED BY <1>1, <2>1, <2>2, <2>3, <2>4
<1> QED BY <1>2, <1>3, <1>4, <1>5, <1>6, <1>7 DEF Next, Closes

LEMMA FlushedStep == ASSUME FlushedFirst, [Next]_vars PROVE FlushedFirst'
<1> USE DEF FlushedFirst
<1>1. CASE Boots \/ BootFails \/ Close \/ Dispose \/ Kill \/ Logs \/ UNCHANGED vars
  BY <1>1 DEF Boots, Build, onModuleInit, BuildLoggingService, AllBuilt, Listen, BootFails, Close, Dispose,
     Kill, Exit, Logs, Log!applicationLog, Log!WriteDirectly, vars, logging
<1>2. CASE DestroyLogging \/ TimerFires
  BY <1>2 DEF DestroyLogging, Log!onModuleDestroy, TimerFires, Log!startFlushTimer
<1>3. ASSUME NEW u \in Utils, onModuleDestroy(u) PROVE FlushedFirst'
  <2>1. ended' = ended \cup {u} /\ phase' = phase
    BY <1>3 DEF onModuleDestroy, logging
  <2>2. u \in {Mongo} \cup Pools => phase = "closed"
    BY <1>3 DEF onModuleDestroy
  <2> QED BY <2>1, <2>2
<1>4. CASE MongoAnswers
  <2>1. ended' = ended /\ (phase = "closed" => phase' = "closed")
    BY <1>4 DEF MongoAnswers, Log!InsertSucceeds, Log!InsertFails, Log!CreateDone, Log!Returned
  <2> QED BY <2>1
<1> QED BY <1>1, <1>2, <1>3, <1>4 DEF Next, Closes

LEMMA LosslessStep == Lossless /\ [Next]_vars => Lossless'
<1> SUFFICES ASSUME Lossless, [Next]_vars PROVE Lossless'
  OBVIOUS
<1>1. Accounted' /\ Bounded'
  BY StepAccounted, StepBounded DEF Lossless
<1>2. LogProofs!OnceInv'
  BY LogSteps, LogOnce DEF Lossless
<1>3. UnspoiltSoFar'
  BY UnspoiltStep DEF Lossless, Bounded
<1>4. Idle' /\ LateOnly' /\ FlushedFirst'
  BY IdleStep, LateStep, FlushedStep DEF Lossless
<1> QED BY <1>1, <1>2, <1>3, <1>4 DEF Lossless

LEMMA InitLossless == Init => Lossless
<1> SUFFICES ASSUME Init PROVE Lossless
  OBVIOUS
<1>1. Bounded
  <2>1. failed \in BOOLEAN /\ app = "building" /\ before = 0 /\ written = 0
    BY DEF Init, Log!Init
  <2> QED BY <2>1, LoggingAssumption DEF Bounded
<1>2. LogProofs!OnceInv
  <2>1. LogProofs!Init
    BY DEF Init, Log!Init, LogProofs!Init, Log!Entries, LogProofs!Entries
  <2> QED BY <2>1, LogOnce
<1> QED BY <1>1, <1>2, InitAccounted
        DEF Init, Log!Init, Lossless, UnspoiltSoFar, Spoilt, Idle, LateOnly, FlushedFirst

\* However factories, hooks, log calls, flushes and answers interleave, a boot and a shutdown
\* whose writes MongoDB accepts store every entry once, and what app.close() leaves in the
\* buffer was logged after it was called.
THEOREM NothingLostByClosing == Spec => []ClosingLosesNothing
<1>1. Lossless => ClosingLosesNothing
  <2> SUFFICES ASSUME Lossless, ~failed PROVE ClosingLosesNothing
    BY DEF ClosingLosesNothing
  <2>1. ASSUME NEW i \in 1 .. written
        PROVE  stored[i] = IF i \in Range(logs) \cup Log!InFlight \cup creating THEN 0 ELSE 1
    <3>1. /\ i \in 1 .. MaxEntries /\ stored[i] \in Nat
      BY <2>1, LoggingAssumption
         DEF Lossless, LogProofs!OnceInv, LogProofs!NothingLost, LogProofs!TypeOK, LogProofs!Entries
    <3>2. partly = {} /\ dropped = {} /\ refused = {}
      BY DEF Lossless, UnspoiltSoFar, Spoilt
    <3>3. LogProofs!Waiting = Range(logs) \cup Log!InFlight \cup creating
      BY DEF LogProofs!Waiting, LogProofs!InFlight, Log!InFlight, LogProofs!Range, Log!Range, Range
    <3>4. stored[i] <= 1 /\ (stored[i] = 1 => i \notin LogProofs!Waiting)
      BY <3>1, <3>2 DEF Lossless, LogProofs!OnceInv, LogProofs!Once, LogProofs!Entries
    <3>5. i \in LogProofs!Waiting \/ stored[i] > 0
      BY <3>2 DEF Lossless, LogProofs!OnceInv, LogProofs!NothingLost, LogProofs!NothingVanishes,
         LogProofs!Waiting
    <3> QED BY <3>1, <3>3, <3>4, <3>5
  <2>2. ASSUME app = "disposed" PROVE Range(logs) \cap 1 .. before = {}
    <3>1. \A i \in Range(logs) : i > before
      BY <2>2 DEF Lossless, LateOnly
    <3>2. before \in Nat
      BY LoggingAssumption DEF Lossless, Bounded
    <3> QED BY <3>1, <3>2
  <2> QED BY <2>1, <2>2 DEF ClosingLosesNothing
<1> QED BY <1>1, InitLossless, LosslessStep, PTL DEF Spec

\* While requests are served, through the destroy hooks too, a provider in use refers to an
\* open connection until its own hook has ended it; when MongoDB or a pool is the first that a
\* request finds ended, LoggingService has already flushed what was logged before app.close().
THEOREM Served == Spec => []ServesConnected
<1>1. Lossless => ServesConnected
  <2> SUFFICES ASSUME Lossless, app \in {"listening", "destroying"} PROVE ServesConnected
    BY DEF ServesConnected
  <2>1. ASSUME NEW u \in Utils \ (Sqs \ Deployed)
        PROVE  ref[u] # 0 /\ (ref[u] \in open[u] <=> u \notin ended \/ u \in Caches)
    <3>1. u \in built /\ u \in hooked /\ (u \in ConnectsWhenBuilt \/ u \in ConnectsInHook)
      BY <2>1 DEF Lossless, Accounted, Phases, Utils, ConnectsWhenBuilt, ConnectsInHook
    <3>2. made[u] \in {1, 2} /\ ref[u] = made[u]
      BY <3>1 DEF Lossless, Accounted, Holds, Opened
    <3>3. open[u] = 1 .. made[u] \ (IF u \in ended THEN closes(u) ELSE {})
      BY <3>1 DEF Lossless, Accounted, Holds
    <3>4. closes(u) = IF u \in Caches THEN {} ELSE {ref[u]}
      BY DEF closes
    <3> QED BY <3>2, <3>3, <3>4
  <2>2. ASSUME ended \cap ({Mongo} \cup Pools) # {}, ~failed PROVE Range(logs) \cap 1 .. before = {}
    <3>1. app = "destroying" /\ phase = "closed"
      BY <2>2 DEF Lossless, Accounted, Phases, FlushedFirst
    <3>2. \A i \in Range(logs) : i > before
      BY <2>2, <3>1 DEF Lossless, LateOnly
    <3>3. before \in Nat
      BY LoggingAssumption DEF Lossless, Bounded
    <3> QED BY <3>2, <3>3
  <2> QED BY <2>1, <2>2 DEF ServesConnected
<1> QED BY <1>1, InitLossless, LosslessStep, PTL DEF Spec
=============================================================================
