----------------------------- MODULE Lifecycle -----------------------------
(***************************************************************************)
(* Lifecycle: the connections of MongoUtil, PgSlonik, BullMqUtil, SqsUtil  *)
(* and RedisUtil, from Nest's factories and init hooks to the destroy      *)
(* hooks, together with the LoggingService that is built on MongoUtil.     *)
(* Some factories call the init hook themselves and Nest calls it again:   *)
(* the second connection replaces the first one in the provider's field.   *)
(*                                                                         *)
(* Nest is modelled from its use: factories run concurrently once what     *)
(* they inject is built; a module's init hooks run before and its destroy  *)
(* hooks after those of the modules that import it; hooks of modules that  *)
(* do not import each other run in any order.                              *)
(***************************************************************************)
EXTENDS Naturals, Sequences, FiniteSets, Functions

CONSTANTS
    Mongo,        \* the MongoUtil
    Pools,        \* the PgSlonik instances
    Queues,       \* the BullMqUtil instances
    Sqs,          \* the SqsUtil instances
    Caches,       \* the RedisUtil
    Deployed,     \* those SqsUtil instances whose mode is not 'development'
    BUFFER_SIZE, MaxEntries, MaxFailures  \* of LoggingService

Utils == {Mongo} \cup Pools \cup Queues \cup Sqs \cup Caches

ASSUME UtilsAssumption ==
    /\ Mongo \notin Pools \cup Queues \cup Sqs \cup Caches
    /\ Pools \cap (Queues \cup Sqs \cup Caches) = {}
    /\ Queues \cap (Sqs \cup Caches) = {} /\ Sqs \cap Caches = {}
    /\ Deployed \subseteq Sqs
ASSUME LoggingAssumption == BUFFER_SIZE \in Nat \ {0} /\ MaxEntries \in Nat /\ MaxFailures \in Nat

VARIABLES
    made,    \* connections each provider has opened so far; they are numbered
    open,    \* those of them that are open
    ref,     \* the one the provider's field refers to; 0: none
    built,   \* providers whose factory is done
    hooked,  \* providers whose onModuleInit is done
    ended,   \* providers whose onModuleDestroy is done
    models,  \* the MongoDB connection LoggingService took its models from; 0: not built
    app,     \* what Nest is doing
    before,  \* history: log calls made when app.close() was called
    failed,  \* history: MongoDB failed a write that it got over an open connection
    logs, flushes, creating, stored, dropped, refused, partly, failures, written, phase, awaited

connections == <<made, open, ref>>
logging == <<logs, flushes, creating, stored, dropped, refused, partly, failures, written, phase, awaited>>
vars == <<connections, built, hooked, ended, models, app, before, failed, logging>>

Log == INSTANCE LoggingService

\* Every variable stays in its domain.
TypeOK ==
    /\ made \in [Utils -> 0 .. 2] /\ ref \in [Utils -> 0 .. 2]
    /\ open \in [Utils -> SUBSET (1 .. 2)]
    /\ {built, hooked, ended} \subseteq SUBSET Utils
    /\ models \in 0 .. 2 /\ before \in 0 .. MaxEntries /\ failed \in BOOLEAN
    /\ app \in {"building", "starting", "listening", "destroying", "disposed", "exited"}

Init ==
    /\ made = [u \in Utils |-> 0] /\ ref = [u \in Utils |-> 0]
    /\ open = [u \in Utils |-> {}]
    /\ built = {} /\ hooked = {} /\ ended = {}
    /\ models = 0 /\ before = 0 /\ failed = FALSE /\ app = "building"
    /\ Log!Init

-----------------------------------------------------------------------------
\* Mutant of connect: the connection it replaces is closed.
connectOnce(u) ==
    /\ made' = [made EXCEPT ![u] = @ + 1]
    /\ ref' = [ref EXCEPT ![u] = made[u] + 1]
    /\ open' = [open EXCEPT ![u] = {made[u] + 1}]
\* createConnection, createPool, new Queue, new SQSClient, connect: one more
\* connection, which the field refers to from now on.
connect(u) ==
    /\ made' = [made EXCEPT ![u] = @ + 1]
    /\ ref' = [ref EXCEPT ![u] = made[u] + 1]
    /\ open' = [open EXCEPT ![u] = @ \cup {made[u] + 1}]

\* Mutant of ConnectsWhenBuilt: the queues' factories leave it to the hook.
ConnectsWhenBuiltNoQueues == {Mongo} \cup Caches
\* Factories that connect: they call onModuleInit or redisConnect.
ConnectsWhenBuilt == {Mongo} \cup Queues \cup Caches

\* onModuleInit connects; SqsUtil only outside development mode, RedisUtil has no hook.
ConnectsInHook == {Mongo} \cup Pools \cup Queues \cup Deployed

Exit ==
    /\ app' = "exited" /\ open' = [u \in Utils |-> {}]
    /\ UNCHANGED <<made, ref, built, hooked, ended, models, before, failed, logging>>

Build(u) ==
    /\ app = "building" /\ u \notin built /\ built' = built \cup {u}
    /\ IF u \in ConnectsWhenBuilt THEN connect(u) ELSE UNCHANGED connections
    /\ UNCHANGED <<hooked, ended, models, app, before, failed, logging>>

\* The constructor takes the models from the connection MongoUtil has at that time
\* and starts the timer.
BuildLoggingService ==
    /\ app = "building" /\ Mongo \in built /\ models = 0
    /\ models' = ref[Mongo]
    /\ UNCHANGED <<connections, built, hooked, ended, app, before, failed, logging>>

\* A connection that is refused, or SQS misconfigured: the factory or the hook rethrows,
\* bootstrap rejects.  new Queue does not wait for Redis.
BootFails ==
    /\ \/ app = "building" /\ ~ (ConnectsWhenBuilt \subseteq built \cup Queues)
       \/ app = "starting" /\ ~ (ConnectsInHook \subseteq hooked \cup Queues)
    /\ Exit

AllBuilt ==
    /\ app = "building" /\ built = Utils /\ models # 0
    /\ app' = "starting"
    /\ UNCHANGED <<connections, built, hooked, ended, models, before, failed, logging>>

\* Mutant of onModuleInit: Nest calls the hook for every module that imports the provider.
onModuleInitAgain(u) ==
    /\ app = "starting" /\ hooked' = hooked \cup {u}
    /\ IF u \in ConnectsInHook THEN connect(u) ELSE UNCHANGED connections
    /\ UNCHANGED <<built, ended, models, app, before, failed, logging>>
onModuleInit(u) ==
    /\ app = "starting" /\ u \notin hooked /\ hooked' = hooked \cup {u}
    /\ IF u \in ConnectsInHook THEN connect(u) ELSE UNCHANGED connections
    /\ UNCHANGED <<built, ended, models, app, before, failed, logging>>

Listen ==
    /\ app = "starting" /\ hooked = Utils
    /\ app' = "listening"
    /\ UNCHANGED <<connections, built, hooked, ended, models, before, failed, logging>>

\* app.close(): the destroy hooks run before the HTTP server is closed.
Close ==
    /\ app = "listening" /\ app' = "destroying" /\ before' = written
    /\ UNCHANGED <<connections, built, hooked, ended, models, failed, logging>>

\* LoggingModule imports DbModule, so its hook comes first.
DestroyLogging ==
    /\ app = "destroying" /\ Log!onModuleDestroy
    /\ UNCHANGED <<connections, built, hooked, ended, models, app, before, failed>>

\* Mutant of closes: every connection the provider ever opened.
closesAll(u) == IF u \in Caches THEN {} ELSE open[u]
\* What onModuleDestroy closes: the connection the field refers to.
closes(u) == IF u \in Caches THEN {} ELSE {ref[u]}

\* Mutant of onModuleDestroy: LoggingModule does not import DbModule.
onModuleDestroyAnyOrder(u) ==
    /\ app = "destroying" /\ u \notin ended /\ ended' = ended \cup {u}
    /\ open' = [open EXCEPT ![u] = @ \ closes(u)]
    /\ UNCHANGED <<made, ref, built, hooked, models, app, before, failed, logging>>
\* The destroy hooks of DbModule's providers come after LoggingModule's.
onModuleDestroy(u) ==
    /\ app = "destroying" /\ u \notin ended /\ ended' = ended \cup {u}
    /\ u \in {Mongo} \cup Pools => phase = "closed"
    /\ open' = [open EXCEPT ![u] = @ \ closes(u)]
    /\ UNCHANGED <<made, ref, built, hooked, models, app, before, failed, logging>>

Dispose ==
    /\ app = "destroying" /\ ended = Utils /\ phase = "closed"
    /\ app' = "disposed"
    /\ UNCHANGED <<connections, built, hooked, ended, models, before, failed, logging>>

\* SIGTERM or SIGKILL: without enableShutdownHooks neither runs a hook.
Kill == app # "exited" /\ Exit

\* LoggingService runs from its constructor on, through boot and shutdown; MongoDB
\* accepts a write only over an open connection.
Logs ==
    /\ \/ \E error \in BOOLEAN : Log!applicationLog(error)
       \/ Log!WriteDirectly
    /\ app # "exited" /\ models # 0
    /\ UNCHANGED <<connections, built, hooked, ended, models, app, before, failed>>
TimerFires ==
    /\ app # "exited" /\ models # 0
    /\ Log!startFlushTimer
    /\ UNCHANGED <<connections, built, hooked, ended, models, app, before, failed>>
MongoAnswers ==
    /\ app # "exited"
    /\ LET connected == models \in open[Mongo] IN
       \/ /\ connected /\ \E b \in flushes : Log!InsertSucceeds(b)
          /\ UNCHANGED failed
       \/ /\ \E b \in flushes : \E part \in SUBSET Range(b) :
                /\ ~connected => part = {}
                /\ Log!InsertFails(b, part)
          /\ failed' = (failed \/ connected)
       \/ \E i \in Log!Entries, ok \in BOOLEAN :
             /\ ok => connected
             /\ Log!CreateDone(i, ok)
             /\ failed' = (failed \/ (connected /\ ~ok))
    /\ UNCHANGED <<connections, built, hooked, ended, models, app, before>>

Boots == (\E u \in Utils : Build(u) \/ onModuleInit(u)) \/ BuildLoggingService \/ AllBuilt \/ Listen
Closes == DestroyLogging \/ (\E u \in Utils : onModuleDestroy(u)) \/ Dispose
Next == Boots \/ BootFails \/ Close \/ Closes \/ Kill \/ Logs \/ TimerFires \/ MongoAnswers

Spec == Init /\ [][Next]_vars
\* Node's event loop runs what is due and MongoDB answers; nothing makes anyone call
\* app.close() or end the process.
FairSpec ==
    /\ Spec /\ WF_vars(Boots) /\ WF_vars(Closes)
    /\ WF_vars(TimerFires) /\ WF_vars(MongoAnswers)

-----------------------------------------------------------------------------
\* The HTTP server serves until the destroy hooks are done.  All that time every field
\* that the application uses refers to an open connection, up to the hook that ends this
\* very one; RedisUtil has none.  From then on PgSlonik.pool hands out the ended pool
\* (pg.slonik 97-98), and the getters that check (mg.mongoose 37, 49, bullmq.util 41,
\* sqs.util 96, 103) only look whether there ever was a connection.  Before MongoDB or a pool
\* is ended, what was logged before app.close() has left the buffer (logging.module 6
\* imports DbModule), unless MongoDB failed a write.
ServesConnected ==
    app \in {"listening", "destroying"} =>
        /\ \A u \in Utils \ (Sqs \ Deployed) :
              ref[u] # 0 /\ (ref[u] \in open[u] <=> u \notin ended \/ u \in Caches)
        /\ ended \cap ({Mongo} \cup Pools) # {} /\ ~failed => Range(logs) \cap 1 .. before = {}

\* LoggingService never writes over a closed connection, not even after app.close():
\* its models belong to the factory's connection, which the hook's connection replaces
\* in MongoUtil and which nothing closes.
ModelsConnected == models # 0 /\ app # "exited" => models \in open[Mongo]

\* What app.close() leaves open: exactly the factory's connection of MongoUtil and of
\* the queues, which their hooks replaced, and the Redis client, which has no hook.
LeftOpen ==
    app = "disposed" =>
        open = [u \in Utils |-> IF u \in {Mongo} \cup Queues \cup Caches THEN {1} ELSE {}]

\* Boot and shutdown lose and repeat nothing by themselves: while the process runs and
\* MongoDB has failed no write that it got over an open connection, every entry waits or is
\* stored once, and app.close() leaves none in the buffer of those logged before it.
ClosingLosesNothing ==
    app # "exited" /\ ~failed =>
        /\ \A i \in 1 .. written :
              stored[i] = IF i \in Range(logs) \cup Log!InFlight \cup creating THEN 0 ELSE 1
        /\ app = "disposed" => Range(logs) \cap 1 .. before = {}

\* What was logged before app.close() reaches MongoDB if MongoDB fails no write and
\* nobody ends the process, although the shutdown hook waits for its own flush
\* only (logging.service 119) and MongoUtil's hook follows at once.
ClosedIsFlushed ==
    \A i \in Log!Entries :
        app = "destroying" /\ i <= before ~> stored[i] > 0 \/ failed \/ app = "exited"
=============================================================================
