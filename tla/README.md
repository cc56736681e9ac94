# STAY API: a TLA+ model of its presence, logging, lifecycle and messaging

This directory holds the formal model of the backend in `src/`: a NestJS process that
serves HTTP and WebSockets, keeps user presence in Redis, business data in PostgreSQL and
logs in MongoDB, and has utilities for queues (SQS, BullMQ) and mail. The modules are
written from the TypeScript, SQL and configuration of the repository; comments in the
modules and the line table in `PROJECT.json` ("map") name the code each definition stands
for. TLC checks small instances, TLAPS proves the theorems in the `*Proofs` modules for
every value of the constants.

## 1. The system

| Component | State it keeps | Operations | Hard behaviour |
|---|---|---|---|
| **User presence** `modules/user-status`, `utils/websocket` | `WebsocketChannel.clients` (Map of tracked sockets with `userUid`, `isAlive`); Redis hash `stay:user:status`; one TTL key per user | connect, subscribe, unsubscribe, close, `ping` every 10 s, `pong`, expired-key notification | every handler awaits Redis or PostgreSQL and is not awaited by its caller; two sockets of one user share hash field and key; notifications race commands |
| **Logging** `modules/logging` | `logBuffer`; batches and documents being written; MongoDB collections | `applicationLog`, `auditLog`, `performanceMetric`, timer flush, flush on error or full buffer, `onModuleDestroy` | several flushes in flight, failed and partly failed `insertMany`, shutdown during a flush |
| **Connections** `utils/db`, `utils/cache`, the init and destroy hooks of SQS and BullMQ, `main.ts` | the connections each provider opened and the one its field refers to | factories, `onModuleInit`, `onModuleDestroy`, `getModel`, `bootstrap` | what is opened, replaced and closed in which order |
| **Job queue and mail worker** `utils/queue`, `workers` | BullMQ queue in Redis, worker with concurrency 5, 3 attempts | `addJob`, `addBulkJobs`, `removeJob`, `processJob` | at-least-once jobs, retries, stalls, jobs removed under a worker |
| **Mail provider** `modules/message/mail` | a table of clients, filled once | request mapping, stubs | none: nothing calls it |
| **SQS** `utils/aws/sqs` | send client, pool of receive clients | init, destroy, send, receive, batch delete | visibility timeout, redelivery, partly failed batch delete |
| **HTTP edge** `middleware`, `error` | none | validation pipe, exception filter, request log | what an answer says of what the handler had done |
| **Database schema** `database/psql` | 29 tables, their foreign keys, two migrations | insert, delete with `ON DELETE`, migrate up and down | what a delete takes along or is stopped by |
| **Helpers** `utils/log`, `utils/slack`, `utils/axios`, `utils/aws/s3`, `config`, `main.ts`, `app.module.ts` | configuration, clients | bootstrap, thin wrappers | none beyond bootstrap order |

How they interact. `StayWebSocketGateway` hands every socket's messages, pongs and close
event to the channel `UserStatusMessage`, which calls `UserStatusService` (Redis) and
`UserStatusRepository` (PostgreSQL, `checkUserInfo`). Redis calls back with the names of
expired keys. `LoggingService` takes three models from `MongoUtil`. Messages are to go "AWS SQS ->
BullMQ -> Workers" (`src/README.md` 160): a route sends with `SqsUtil`, a consumer receives, hands
the batch to `BullMqUtil` and deletes it, `EmailWorker` works on the jobs; the utilities and the
worker are there, route and consumer are not. All of it runs on one Node event loop: code
between two `await`s is atomic, everything else interleaves.

What makes the parts correct, in order of importance:

* Presence: who is shown as online is online or will be corrected; nobody stays in the
  hash for ever; a client that answers stays in the Map and its user online; a client that
  was told that it is unsubscribed is; a silent client is dropped.
* Logging: no entry gets lost from sight, none is written twice, failures are retried,
  the buffer is bounded, shutdown leaves nothing behind.
* Connections: what the models use stays open while they use it; each is closed once.
* Queues: a message the queue took is not lost on its way to a job; duplicates and retries
  are bounded by what went wrong; every job is settled in the end.
* HTTP: what an answer says of the message is so; a validation error names each failed
  property once.

The hazards, each at its line and with the properties aimed at it, are in `PROJECT.json`.

## 2. Modules

| Module | Purpose |
|---|---|
| `UserStatus` | presence: one action per event-loop turn, Redis command or client event |
| `Heartbeat` | the clock of presence: ping interval, TTL, delays |
| `LoggingService` | buffer, flushes, direct writes, shutdown |
| `Lifecycle` | connections from factories to destroy hooks, composed with `LoggingService` |
| `HttpErrors` | the validation pipe and the exception filter, as functions |
| `SqsUtil` | send, receive, batch delete, and the queue they talk to |
| `MailQueue` | the BullMQ queue and its worker |
| `Messaging` | the three composed: request, SQS, consumers, jobs, worker |
| `Delivery` | abstract specification: what is taken over waits until it is delivered or given up |
| `MCUserStatus`, `MCHeartbeat`, `MCLoggingService`, `MCLifecycle`, `MCMessaging` | TLC instances |
| `RangeLemmas` | facts about the range of sequences that the proofs cite |
| `UserStatusProofs`, `UserStatusViewProofs`, `HeartbeatProofs`, `LoggingServiceProofs`, `LifecycleProofs`, `HttpErrorsProofs`, `MessagingProofs` | theorems |

### UserStatus

| State | Code |
|---|---|
| `sock` | `readyState` of each `ws` socket; a slot is reused once nothing refers to it |
| `clients` | `WebsocketChannel.clients`, keyed by socket |
| `checks` | `handleMessage` calls that await `checkUserInfo` (PostgreSQL pool: answered in any order) |
| `pipe`, `replies` | Redis commands sent and not executed; answers not yet handled. One connection: FIFO in, FIFO out |
| `events` | expired-key notifications, FIFO, unordered with the replies |
| `status`, `ttlKey` | the hash's fields and the TTL keys that exist |
| `up`, `crashes`, `errors` | the process, its exits, failed commands |
| `view`, `acked`, `overtaken`, `silent`, `keyless` | history: what each tracked client was told of each user; whether its last answer was the unsubscribe success; users announced online after they had left the hash; users that a pong put (back) into the hash, which announces nothing; users whom the failed command of a pong left in the hash without a key |

An `async` handler is split at each `await`. `subscribeMessage` is: `handleMessage` (up to
`checkUserInfo`), `subscribeMessage` (issues `hSet`), `RedisHSet`, `HashIsSet` (issues the key's
`SET`), `RedisSetEX`, `StatusIsSet` (broadcast, `clients.set`, answer or `hGetAll`),
`RedisHGetAll`, `SnapshotIsRead`. `unsubscribeMessage`, `pong` and `handleRedisExpiration` are
split the same way. `ping` is one action over the whole Map. A rejected command ends the
process (`CommandFailed`) where nothing catches it, that is everywhere but in `pong`:
`handleMessage` does not await `subscribeMessage` and `unsubscribeMessage`, and Node exits
on an unhandled rejection. What `pong` catches (message 129-131) it only logs: when its `SET` fails,
or the answer to its `hSet` is lost, the key is not written and the field may be left without one
(`keyless`) until a later `SET` or `hDel` of the user is executed.

### Heartbeat

Time passes in units of a second. `tick` is the time since the last `ping`, `ttl` what is left
of the key of one user, `alive` the Map of that user's clients with `isAlive`; `pings`, `writes`
and `acks` hold the ages of unanswered pings, of SETs that pongs asked for, and of executed
SETs of subscriptions whose reply is not yet handled. The delays are constants; time
cannot pass while one is exhausted. Clients outside `Answering` may answer late or never,
clients leave and subscribe again at any time.

### LoggingService

`logs` is the buffer, `flushes` the batches that await `insertMany`, `creating` the audit logs
and metrics that await `create`, `stored` counts the documents of each entry. `flushLogs` is the
part up to the await, `InsertSucceeds` and `InsertFails` what follows. `InsertFails` may have
stored any part of the batch, since `ordered: false` goes on after a failing document.
`onModuleDestroy` clears the timer and awaits its own flush; log calls may still come, as
Nest destroys modules before it closes the HTTP server.

### Lifecycle

A provider's connections are numbered; `made` counts them, `open` holds those that are open, `ref`
is the one the provider's field (`connection`, `slonikPool`, `queue`, ...) refers to. `Build` is a
factory, `onModuleInit` Nest's call of the hook, `onModuleDestroy` the other hook. The factories of
MongoDB and of the queues call `onModuleInit` themselves (`db.modules.ts` 35, `queue.module.ts` 15
and 26), and since the hook is called for what a factory returns, too, it runs twice. `models` is the
connection from which `LoggingService` took its models. `LoggingService` is instantiated and
takes its own steps from its constructor on, also while other providers still start and
after `app.close()`; MongoDB can only accept a write over an open connection. Nest's rules
(factories concurrent, hooks along the module imports, destroy hooks in reverse order and
before the HTTP server closes) are those of Nest 11, which `package.json` asks for. `SqsModule` and
`QueueModule` are not imported by `AppModule` yet; the model has them as an application that uses
them would. A destroy hook that rejects is not modelled.

### Messaging: HttpErrors, SqsUtil, MailQueue

| State | Code |
|---|---|
| `mode` | `sqsConfig.mode`: in `development` nothing is sent or received |
| `place` | where SQS has each message: delayed, visible, hidden after a receipt, deleted |
| `held`, `stale` | what each receive client handed to its caller, and the part of it that has been received again since, so that its receipt handle may no longer delete it |
| `jobs`, `owned` | the jobs made of each message with their state and counters; those the live worker holds the lock of |
| `errors`, `answers` | what class-validator found in each request, and its answer |
| `added` | consumers between `addBulkJobs` and `deleteMessages` |
| `incidents` | failed calls, late handlings, lost locks, removals and exits so far |

Routes and consumers are the environment, since the repository has none: a route awaits
`sendMessage` and lets its error go to the filter; a consumer polls with one client, awaits
`addBulkJobs` for the batch, then `deleteMessages`, and abandons a batch that could not be added.
`sendMessage` and the answer of its request are one step, since in between nothing reads what it
changed but the queue; `AnswerLost` is the send whose sender learns nothing. A receive can lose its
answer, an add can reject before or after Redis has taken the jobs, and a delete can fail for any
part of a batch, which `deleteMessages` (175) does not look at. `VisibilityEnds` is an incident only
when somebody still works on the message. SQS's own duplicate stores are not modelled: its
duplicates would be indistinguishable from a lost send answer.

`processJob` throws for every name: `data` is not defined in the first case, `MailService` has
no `sendVerificationEmail` for the second, and the default throws. So an attempt ends in a failure or,
when the worker loses its lock (`LockEnds`, `Exit`), in a stall, and BullMQ retries up to
`ATTEMPTS` and excuses `MAX_STALLED_COUNT` stalls. Jobs are taken in any order, which covers
priorities and delays. A graceful close of the worker waits for its attempts and leaves no state
of its own.

`HttpErrors` has `propertyPath` as a recursive function over the tree of errors, and `catch` with
the status of every error code. `main.ts` 37 leaves detailed output on and Nest calls the
exception factory with at least one error, so the pipe's other branches are unreachable.

## 3. Runs

| Run | Instance | What it shows |
|---|---|---|
| `presence_views` | 1 user, 2 sockets, 2 calls in flight | what clients were told agrees with the hash or will be corrected; an acknowledged unsubscribe is final when a client waits for its answers |
| `presence_failures` | 1 user, 2 sockets, 1 call, 1 exit, 1 failed command | before the first failure nobody is left in the hash without something that ends it; after any failure nobody with a tracked client is, but for whom a pong's caught failure left without a key, or the process is about to exit |
| `presence_liveness` | fair; 1 user, 2 sockets, 1 call | closed sockets are dropped; abandoned users go offline; an answering client brings its user back online |
| `presence_no_events` (violation) | fair; Redis without notifications | `AbandonedGoesOffline` fails: line 23 of the service, which would switch them on, is commented out |
| `presence_overlap` (violation) | client pipelines | a client is told that it is unsubscribed and is tracked afterwards |
| `presence_quiet` (violation) | 1 user, 2 sockets, 2 calls | a stale online status that nothing corrects |
| `heartbeat` | 10 s, 15 s, delays of 2 + 1 + 1 s, one client that answers and one that need not | an answering client's key never ends and ping never drops it; a silent one is dropped by the second ping |
| `logging` | fair; buffer 2, 4 entries, 3 failures | nothing vanishes, nothing is stored twice, one failure loses nothing, overlapping flushes alone make the buffer exceed its limit, the shutdown hook waits for its own flush, all is stored in the end; it implements `Delivery` |
| `logging_limit` (violation) | buffer 2, 5 entries | the buffer exceeds its limit when flushes overlap |
| `logging_shutdown` (violation) | buffer 2, 3 entries | shutdown returns while a batch is under way |
| `lifecycle` | fair; one provider of each kind, SQS in both modes, 2 entries, 1 failing write | until the destroy hooks are done, requests find open connections but those whose own hook ended them, and MongoDB and the pools end after the log buffer's flush; logs always have a connection; what `app.close()` leaves open; boot and shutdown neither lose nor repeat an entry |
| `messaging` | fair; 2 messages, 2 clients, trees of up to 3 errors, 1 incident | answers are true and name each failed property; SQS to BullMQ implements `Delivery` with nothing given up; duplicates and starts are bounded; every message is settled in the end |

The violation runs are findings; `PROJECT.json` quotes the comment or document each one
contradicts.

### Two exceptions in the view properties

`OnlineViewJustified` excepts `overtaken` users and `OfflineViewJustified` excepts `silent` ones.
Both are what the code does, and `presence_quiet` shows the first with its consequence: the
online broadcast of a subscription follows two Redis round trips and can come after the
offline broadcast of a removal that ran in between. The second is a pong that writes a
field another socket's unsubscribe removed: it broadcasts nothing. The properties say that
these are the only ways to a wrong view.

### Bounds

* Two sockets of one user are the smallest instance in which one handler interferes with
  another's user; a third adds only a further watcher. Users share nothing but the
  commands' order; the theorem `NoGhosts` covers any number of them.
* `MaxInFlight` caps the calls outstanding when a client sends something new, not those a
  handler adds, and no TTL ends above it. Two are enough for each pair of handlers to overlap.
* `MaxCrashes`, `MaxErrors`: one each; the hash then holds what an earlier process left, which
  is also what a second exit would leave.
* Sockets are slots that are reused, so that runs are not bounded by a number of connections.
* Logging: a buffer of 2 with 4 entries lets a batch exceed the slice, two batches be in
  flight and entries arrive meanwhile; 3 failures allow a batch to be put back repeatedly.
* Heartbeat has no bound besides its clocks. The delays chosen (4 s) are the largest that the
  assumption allows; with 5 s TLC finds the key ending under an answering client.
* Lifecycle: providers of one kind share nothing, so one of each is enough (the theorems cover
  any number); 2 entries fill the buffer, and an error entry flushes it before.
* Messaging: two messages can share a batch or be held by different clients, and two clients
  can hold one message, one with a stale handle. Three errors are the smallest tree in which a
  chain and siblings occur together. One incident at any point of any behaviour shows each fault
  alone; combinations, and the branches that need two stalls, are covered by the theorems, which
  bound incidents by nothing. `MAX_MESSAGES_PER_RECEIVE` is 10 in the code and 2 here, so that it
  does not bind; `ATTEMPTS` is 2 instead of 3 and `CONCURRENCY` 1 instead of 5, so that the first
  retry is followed by the last failure and two jobs compete for the worker.
* `CHECK_DEADLOCK FALSE` in the logging, lifecycle and messaging runs: the bound on log calls is
  reached and the service may be shut down or the process ended, and when all messages are
  settled nothing is left to do. The presence and heartbeat models never stop.

### Fairness

`UserStatus!Fairness`: Redis executes what it is sent, the event loop handles replies and
notifications, PostgreSQL answers, `setInterval` calls `ping`; a TTL ends when no client of the
user is tracked or subscribing (weak fairness of `Idle(u) /\ Expire(u)`, since a key that is
renewed in time need never end). Nothing is assumed of clients: `AnsweringStaysOnline` takes
the pongs as its hypothesis. `LoggingService!FairSpec`: the timer fires and MongoDB answers, with
finitely many failures. `Lifecycle!FairSpec` adds that factories and hooks finish; nobody need call
`app.close()`. `Messaging!FairSpec`: the queue keeps its delays and timeouts, some consumer goes on
polling and finishes, the worker and BullMQ's timers run. Three groups are enough, since each
does a finite number of things to a message. Nothing is assumed of senders, and no incident has
to happen: `VisibilityEnds` is fair only where it is none.

### What implements what

`Delivery` is what a buffer or queue promises: an item that was taken over waits until it was
delivered at least once or given up, and nothing is delivered that was not taken over.
`LoggingService` implements it (`DeliversEntries`; given up is what a failed write did not put
back) and so does the path from SQS to BullMQ (`HandsOver`, with nothing given up). Both
refinements are checked by TLC and proved.

## 4. Theorems

| Theorem | Statement |
|---|---|
| `UserStatusProofs!Typing` | `Spec => []TypeOK` |
| `UserStatusProofs!NoGhosts` | `Spec => []NoGhostOnline`: any number of users, sockets and calls |
| `UserStatusProofs!TrackedGuarded` | `Spec => []TrackedAreGuarded`: any number of exits and failed commands |
| `UserStatusViewProofs!AcknowledgedForGood` | `Spec => [](~Pipelined => AcknowledgedIsUntracked)` |
| `UserStatusViewProofs!OnlineViews` | `Spec => []OnlineViewJustified`: any users, sockets, calls and exits |
| `UserStatusViewProofs!OfflineViews` | `Spec => []OfflineViewJustified` |
| `UserStatusViewProofs!QuietPresence` | `Spec => []QuietViews`: with nothing in flight, clients show who is in the hash |
| `UserStatusViewProofs!LateClientsLeave` | `Spec /\ SetIntervalGoesOn => ClosedIsDropped`, for clients that wait for their answers |
| `LoggingServiceProofs!Typing` | `Spec => []TypeOK` |
| `LoggingServiceProofs!NothingVanishesEver` | `Spec => []NothingVanishes`: any buffer size, entries, failures |
| `LoggingServiceProofs!ExactlyOnceEver` | `Spec => []ExactlyOnce` |
| `LoggingServiceProofs!OneFailureHarmless` | `Spec => []OneFailureLosesNothing` |
| `LoggingServiceProofs!ShutdownWaits` | `Spec => []AwaitedIsStored` |
| `LoggingServiceProofs!OverlapIsTheLimit` | `Spec => OverlapLimitsBuffer`: any buffer size, any number of overlapping flushes |
| `LoggingServiceProofs!Delivers` | `Spec => DeliversEntries`: the refinement of `Delivery` |
| `HeartbeatProofs!Typing` | `Spec => []TypeOK` |
| `HeartbeatProofs!NeverExpires` | `Spec => []AnsweringNeverExpires`, if interval and delays together are below the TTL |
| `HeartbeatProofs!NeverDropped` | `Spec => AnsweringNeverDropped`, if answers are faster than the interval |
| `HeartbeatProofs!SilentDropped` | `Spec => []SilentIsDropped` |
| `LifecycleProofs!Typing` | `Spec => []TypeOK` |
| `LifecycleProofs!Served` | `Spec => []ServesConnected`: while requests are served, the destroy hooks included |
| `LifecycleProofs!ModelsKeepConnection` | `Spec => []ModelsConnected` |
| `LifecycleProofs!LeavesOpen` | `Spec => []LeftOpen` |
| `LifecycleProofs!NothingLostByClosing` | `Spec => []ClosingLosesNothing` |
| `MessagingProofs!AtLeastOnce` | `Spec => HandsOver`: the refinement of `Delivery`, any messages, clients, incidents |
| `MessagingProofs!AnswersTrue` | `Spec => []AnswersAreTrue` |
| `MessagingProofs!FailuresAreNamed` | `Spec => []DetailsNameFailures`: every tree of validation errors |
| `MessagingProofs!DuplicatesBounded` | `Spec => []DuplicatesAreIncidents`, for a finite pool of clients |
| `MessagingProofs!StartsAreBounded` | `Spec => []StartsBounded` |
| `MessagingProofs!TypeCorrect` | `Spec => []TypeOK`, the worker's concurrency limit included |

*NoGhosts.* `NoGhostOnline` is not inductive: it is conditional on no exit and no failed
command, and to keep it one must know that the process is up and that every reply is a
success in that case. `GhostFree` adds these (`UpSoFar`, `AnsweredSoFar`) and `TypeOK`. The
argument is a chain: a field enters the hash with an unhandled `hSet` reply, whose handling
issues the key's `SET`, whose execution creates the key, whose end leaves a notification,
whose handling issues the `hDel`. Each action moves a user along this chain; queue lemmas
(`RangeLemmas`) say that the link is still in the queue when another user's moves.

*TrackedGuarded.* A client is tracked when the answer to its `SET` is handled, so the invariant
`Adopted` speaks of `Adopters`: users that are tracked or whose `SET` is answered. Nobody becomes one
but by a `SET` that just created the key, so what an earlier process left without a key is adopted
only together with one. An exit empties the Map and the answers. A failed command takes a link out of
the chain of *NoGhosts*: `FailureKeepsSafe` shows that this leaves a user unguarded only through
a pong (`keyless`) or with an answer that ends the process once it is handled (`ExitIsComing`);
`KeylessStep` and `ExitStays` that either lasts until the user is guarded or out of the hash, or the
process has exited.

*AcknowledgedForGood.* `Orderly`: a client that waits for its answers never has a subscription and
an unsubscription under way at once, and none of the former once it was told that it is
unsubscribed. Commands descend from the request that was being worked on (`NoNewWork`), so only a
new request, which the client sends when nothing is under way, can start one.

*OnlineViews, OfflineViews.* A snapshot or a removal is told when its reply is handled, which may be
long after Redis answered. `SnapshotsRight` says that this is harmless: for a user who is not in the
hash, every waiting reply that says otherwise is followed, in the FIFO, by a removal that will be
broadcast, and likewise for a user who is (`Followed`, with lemmas on its head, tail and end).
`ViewsReset` says that a client that is not tracked was told nothing. Then each step either tells
clients what `SnapshotsRight` justifies, or tells nobody anything (`Quiet`) and keeps what justifies
the views (`ClaimsKept`), since a correction leaves the replies only by being broadcast.

*QuietPresence* combines the two with *NoGhosts*: when no command, reply or notification is under way,
nothing is left that could be `...IsComing` or hold a field without its key, so what is shown is
what the hash holds, up to the two exceptions. It says precisely how far the finding of
`presence_quiet` goes.

*LateClientsLeave* is a liveness property proved without `ENABLED`. `ping` always changes the Map when
it is possible, so `WF_vars(ping)` says that `ping` happens again and again if the process is up with
a client in the Map from some time on; `SetIntervalGoesOn` states just this, and no other fairness is
used. The safety part is `Settling`: a client that is tracked although its socket is closed has no
subscription under way that would track it anew. It needs that a client has at most one
(`Single`: requests being checked, commands and answers that end in `clients.set` are together at
most one), hence the condition that clients wait for their answers. Then `ClosedMoves` says that such
a client leaves the Map or keeps its mark, so that the first `ping` marks it and the second drops it.

*NothingVanishesEver* is inductive with `TypeOK`: each action moves an entry between buffer,
batch, MongoDB and the sets the code gives up on. *ExactlyOnceEver* and *Delivers* need that an
entry is in one place at a time: `OnceInv` adds that buffer, batches and direct writes are pairwise
disjoint and without repetitions, and that only what was logged is anywhere. *OneFailureHarmless*
rests on `Short`: until a flush fails, the buffer is below and every batch at most `BUFFER_SIZE`.
*OverlapIsTheLimit* says what the code has in place of the limit its comment promises (`logging_limit`):
if at most `K` flushes ever overlap, the buffer stays below `BUFFER_SIZE * (K + 1)`. The buffer's length
alone is not inductive; `Fits` bounds it by what the flushes under way may still put back.
*ShutdownWaits* is the part of shutdown that does hold: the batch that the hook took is in `flushes` until
it returns, and once stored it is in no place from which it would be stored again (`OnceInv`).

*Messaging.* `Inv` has three parts. `JobsInv` accounts for every start of a job: it ended in a failed
attempt or a stall, but the one under way, and neither is used up while the job can start again;
`StartsBounded` follows. `Handed` says that a message that was deleted, or whose holder may delete
it, has a job; with it every step is one of `Delivery`'s or none. `ClaimsInv` counts for each message
its jobs, the clients that hold it and have not handed it over, and whether the queue may give it
to somebody without an incident: the sum is at most one more than the incidents, since each action
trades one for another and only an incident adds one.

*FailuresAreNamed* is about a recursive function over trees given as lists in which a parent comes
before its children. `propertyPath` is shown to satisfy its equation by building its values up to each
index (`PathsExist`); induction is over the set of indices that have a property, through the
library's `WFMin`, whose parameter is a set and not an operator. The paths of two errors differ
(`PathsDiffer`: siblings have different names), every error ends a chain from the list (`ChainTo`), and
a chain spells its path (`ChainNames`); so the details are the names of the chains and as many as
there are failed properties.

*NeverExpires.* The invariant `KeyLasts` bounds the key's rest from below by the time the next
SET still needs: the rest of the write if one is pending, else of the reply if a ping is
out, else of the interval. A second takes the same from both sides; a ping, a pong or a
SET only moves from one case to the next. `PingedLast` says that a client that has not
answered was pinged by the last ping, so that at the next one, `PING_INTERVAL > MaxReply`
later, it has.

*Lifecycle.* `Accounted` says how many connections each provider has opened at its stage and that it
holds all of them but the one its destroy hook closed. `ModelsConnected` holds because MongoUtil
closes its second connection and the models use the first: closing the replaced connection
in `onModuleInit`, an obvious repair of the leak, would break it (this is the mutant).
*NothingLostByClosing* reuses the invariant of the service: `LogSteps` shows that every step of the
process is a step of `LoggingService` or leaves it alone, and `LoggingServiceProofs`, instantiated here,
then gives `OnceInv`. `UnspoiltSoFar` adds that only a failing MongoDB spoils a write, which holds because
`ModelsConnected` does, and `LateOnly` that the buffer holds only late entries once the hook has run.
*Served* combines `Accounted` with these: requests are still served while the destroy hooks run, a pool
that its hook has ended is handed out all the same (pg.slonik 97-98), and what can be promised is
when: a field refers to an open connection exactly until its own hook, whichever other hooks have run,
and `FlushedFirst` and `LateOnly` put the end of MongoDB and of the pools after LoggingService's flush.

Assumptions are the named `ASSUME`s of the modules: distinct null values, naturals as bounds, a
finite pool of SQS clients (`MessagingProofs` counts them), and in `Heartbeat` the two inequalities
between the delays and the constants of `user-status.type.ts`.

Every invariant and every action property of a passing run is stated by one of these theorems. Only
model-checked is liveness, but for `ClosedIsDropped`: `AnsweringStaysOnline`, `AbandonedGoesOffline`,
`EventuallyStored`, `ClosedIsFlushed` and `EventuallySettled`. Each needs an induction over data inside
a temporal formula (how many commands are queued, how many failures or incidents are left), or the
fairness of an action whose `ENABLED` is not simply its guard; both are out of the prover's reach.
The violation runs are TLC's alone.

## 5. What the models assume and leave out

* `utils/cache/types/redis.service.ts` is imported but not in the repository. `RedisService` is
  modelled from its use: one connection that answers in order and a subscription for
  expired keys that is ordered with nothing else. Service 24 subscribes on the same object that
  issues the commands; whether a client of the redis library allows both (under RESP2 it refuses
  commands once it has subscribed) is up to that missing service, and the model assumes that it works.
* A sender does not send again after a 500 or a lost answer; a resend would be a message of its own.
* `propertyPath` is a sequence of names where the code joins them with '.'. The two agree for names
  that are not empty and contain no '.', as property names of DTOs and array indices are.
* The exception filter answers every exception it does not know with 500; the handlers of the model
  throw only what `sendMessage` throws, so no run depends on how other `HttpException`s are answered.
* `handleMessage` for an unknown `connect_type` only reads; `checkUserInfo` never returns null,
  so the 4001 branch is unreachable; both are left out. `searchStatuses` and `getStatus` are not
  called by anything in the repository.
* `ws` drops a message sent to a socket that is not open without an error.
* Which fields a mongoose document has, and that validation may silently leave documents
  out of an `insertMany` with `ordered: false`, are not modelled.
* Text, formats, console output and log wording are left out.
* Not modelled: the mail provider (a table filled once and stubs that answer constants or nothing;
  `MailService` is empty and nothing calls the provider); the PostgreSQL schema and its
  migrations (SQL only: no code of the repository inserts, deletes or migrates, so there is no
  operation to model); the configuration, which is read once at start and whose values are
  constants of the modules; S3, Slack, axios and `LogUtil`, wrappers around one library call.
* Bookings, payments, coupons, reviews, sessions, search and SSE exist in the requirements
  and the SQL only; there is no code to model.

## 6. Plan

Done: all components with state and operations, their runs, the refinements of `Delivery`, and the
theorems above. An abstract specification of presence was considered and dropped: with the two
exceptions of the view properties it would be no simpler than these. All
safety properties of the passing runs are proved, and one liveness property from an explicit hypothesis.

Left to prove: the safety parts of the remaining liveness properties, as was done for `LateClientsLeave`
(that nothing but a step of its own takes an entry out of the buffer or a message out of the queue, and
that an idle user's key is not written again), so that what TLC alone vouches for is that the fair steps
happen often enough.

What could be added when the code grows: routes and consumers for `Messaging` in place of the
environment, and the services of bookings and payments with the schema they will write to.
