----------------------------- MODULE UserStatus -----------------------------
(***************************************************************************)
(* User presence: one Node process tracks WebSocket clients in a Map       *)
(* (WebsocketChannel.clients), keeps who is online in the Redis hash       *)
(* stay:user:status with one TTL key per user, and broadcasts changes.     *)
(*                                                                         *)
(* Every await of the handlers is a scheduling point: the part before it   *)
(* issues a Redis command (appended to pipe), the part after it runs when  *)
(* the reply is handled, one reply per turn of the event loop.  Redis      *)
(* executes the commands of the connection in order and answers in order.  *)
(* PostgreSQL lookups use a pool and are answered in any order (checks).   *)
(* Expired-key notifications (events) are FIFO and unordered with replies. *)
(***************************************************************************)
EXTENDS Naturals, Sequences, FiniteSets, Functions

CONSTANTS
    Users,          \* user ids of public.users
    Conns,          \* slots for WebSocket objects; a slot is reused when nothing refers to it
    NoUser,         \* user_uid of a client that is not logged in (null)
    NoConn,         \* connectedClient of a broadcast that skips nobody (null)
    MaxInFlight,    \* bound: outstanding calls up to which clients send and keys end
    MaxCrashes,     \* bound: process exits that the environment causes
    MaxErrors,      \* bound: Redis commands that fail
    KeyspaceEvents, \* Redis runs with notify-keyspace-events for expirations
    Pipelined       \* a client may send a request before its last one is answered

ASSUME NoUserAssumption == NoUser \notin Users
ASSUME NoConnAssumption == NoConn \notin Conns
ASSUME BoundsAssumption == {MaxInFlight, MaxCrashes, MaxErrors} \subseteq Nat
ASSUME FlagsAssumption == {KeyspaceEvents, Pipelined} \subseteq BOOLEAN

VARIABLES
    sock,       \* readyState of each WebSocket
    clients,    \* the Map of tracked clients: conn -> [userUid, isAlive]
    checks,     \* handleMessage invocations that await checkUserInfo
    pipe,       \* Redis commands sent and not yet executed
    replies,    \* executed or rejected commands whose reply is not yet handled
    events,     \* expired-key notifications not yet handled
    status,     \* fields of the Redis hash: the users shown as online
    ttlKey,     \* users whose TTL key exists
    up,         \* the process runs
    crashes,    \* exits so far
    errors,     \* failed Redis commands so far
    view,       \* history: what each client was told of each user since it was tracked
    acked,      \* history: the client's last answer was the unsubscribe success
    overtaken,  \* history: broadcast as online after they had left the hash
    silent,     \* history: in the hash since a pong put it there, which broadcasts nothing
    keyless     \* history: left in the hash without a key by the failed command of a pong

gateway == <<sock, clients, checks>>
store == <<status, ttlKey>>
process == <<up, crashes, errors>>
history == <<view, acked, overtaken, silent, keyless>>
vars == <<gateway, pipe, replies, events, store, process, history>>

Uid == Users \cup {NoUser}
TrackedClient == [userUid : Uid, isAlive : BOOLEAN]
\* Requests that name a user; only a subscription reads reset.
Message == [conn : Conns, type : {"subscribe"}, user : Users, reset : BOOLEAN]
      \cup [conn : Conns, type : {"unsubscribe"}, user : Users, reset : {FALSE}]
\* Commands: the two of setStatus, the snapshot's, and the removals that
\* unsubscribeMessage and handleRedisExpiration ask for.
SetCall == [op : {"hSet", "set"}, task : {"subscribe", "pong"}, conn : Conns, user : Users, reset : BOOLEAN]
SnapshotCall == [op : {"hGetAll"}, task : {"subscribe"}, conn : Conns, user : Uid, reset : {TRUE}]
RemovalCall == [op : {"hDel"}, task : {"unsubscribe"}, conn : Conns, user : Users, reset : {FALSE}]
ExpiryCall == [op : {"hDel"}, task : {"expire"}, conn : {NoConn}, user : Users, reset : {FALSE}]
RedisCall == SetCall \cup SnapshotCall \cup RemovalCall \cup ExpiryCall
Reply == [call : RedisCall, ok : BOOLEAN, result : SUBSET Users]
Told == {"unknown", "online", "offline"}

\* Every variable stays in its domain (the shapes of the Maps, commands and replies).
TypeOK ==
    /\ sock \in [Conns -> {"closed", "open", "closing"}]
    /\ DOMAIN clients \subseteq Conns
    /\ clients \in [DOMAIN clients -> TrackedClient]
    /\ checks \subseteq Message
    /\ pipe \in Seq(RedisCall)
    /\ replies \in Seq(Reply)
    /\ events \in Seq(Users)
    /\ status \subseteq Users
    /\ ttlKey \subseteq Users
    /\ up \in BOOLEAN /\ crashes \in Nat /\ errors \in Nat
    /\ view \in [Conns -> [Users -> Told]]
    /\ acked \in [Conns -> BOOLEAN]
    /\ overtaken \subseteq Users /\ silent \subseteq Users /\ keyless \subseteq Users

NothingTold == [u \in Users |-> "unknown"]

Init ==
    /\ sock = [c \in Conns |-> "closed"]
    /\ clients = [c \in {} |-> [userUid |-> NoUser, isAlive |-> TRUE]]
    /\ checks = {} /\ pipe = <<>> /\ replies = <<>> /\ events = <<>>
    /\ status = {} /\ ttlKey = {}
    /\ up = TRUE /\ crashes = 0 /\ errors = 0
    /\ view = [c \in Conns |-> NothingTold]
    /\ acked = [c \in Conns |-> FALSE]
    /\ overtaken = {} /\ silent = {} /\ keyless = {}

-----------------------------------------------------------------------------
(* WebsocketChannel: the Map of clients and what is sent to them.          *)

Untrack(c) == Restrict(clients, DOMAIN clients \ {c})
\* Mutant of Track: the Map is keyed by the user.
TrackByUser(c, u) == [d \in DOMAIN clients \cup {u} |->
                         IF d = u THEN [userUid |-> u, isAlive |-> TRUE] ELSE clients[d]]
Track(c, u) == [d \in DOMAIN clients \cup {c} |->
                   IF d = c THEN [userUid |-> u, isAlive |-> TRUE] ELSE clients[d]]

\* What the clients of cs know after a message that maps the users of news.
Tell(v, cs, news) ==
    [c \in Conns |-> IF c \in cs THEN [u \in Users |-> IF u \in DOMAIN news THEN news[u] ELSE v[c][u]]
                                 ELSE v[c]]
\* Mutant of Receivers: only clients that answered the last ping.
ReceiversAlive(skip) == {c \in DOMAIN clients \ {skip} : sock[c] = "open" /\ clients[c].isAlive}
\* broadcastStatus: every tracked client whose socket is open, but the one to skip.
Receivers(skip) == {c \in DOMAIN clients \ {skip} : sock[c] = "open"}
broadcastStatus(v, skip, u, s) == Tell(v, Receivers(skip), [x \in {u} |-> s])
Forget(v, cs) == [c \in Conns |-> IF c \in cs THEN NothingTold ELSE v[c]]

\* handleClose and the gateway's own close: the close handshake starts.
Closing(c) == [sock EXCEPT ![c] = IF @ = "open" THEN "closing" ELSE @]

-----------------------------------------------------------------------------
(* UserStatusService: commands on the Redis connection.                    *)

Call(op, task, c, u, r) == [op |-> op, task |-> task, conn |-> c, user |-> u, reset |-> r]
hSet(task, c, u, r) == Append(pipe, Call("hSet", task, c, u, r))
delStatus(task, c, u) == Append(pipe, Call("hDel", task, c, u, FALSE))
getOnlineUsers(c, u) == Append(pipe, Call("hGetAll", "subscribe", c, u, TRUE))

Calls == Range(pipe) \cup {r.call : r \in Range(replies)}
InFlight == Cardinality(checks) + Len(pipe) + Len(replies) + Len(events)
RefersTo(c) == \/ c \in DOMAIN clients
               \/ \E m \in checks : m.conn = c
               \/ \E k \in Calls : k.conn = c
\* The client's last request is still being worked on.
Busy(c) == \/ \E m \in checks : m.conn = c
           \/ \E k \in Calls : k.conn = c /\ k.task # "pong"
MaySend(c) == up /\ sock[c] # "closed" /\ InFlight < MaxInFlight /\ (Pipelined \/ ~Busy(c))

Issued(ops, tasks, u) == \E k \in Range(pipe) : k.op \in ops /\ k.task \in tasks /\ k.user = u
Unhandled(ops, tasks, u) ==
    \E r \in Range(replies) :
        r.ok /\ r.call.op \in ops /\ r.call.task \in tasks /\ r.call.user = u
AllTasks == {"subscribe", "unsubscribe", "pong", "expire"}
\* A removal that will be announced has been executed.
OfflineIsComing(u) ==
    \/ Unhandled({"hDel"}, {"unsubscribe"}, u)
    \/ \E r \in Range(replies) : r.call.op = "hDel" /\ r.call.user = u /\ r.result = {u}

\* Redis executes the next command and answers with result.
Execute(op, result) ==
    /\ pipe # <<>> /\ Head(pipe).op = op
    /\ pipe' = Tail(pipe)
    /\ replies' = Append(replies, [call |-> Head(pipe), ok |-> TRUE, result |-> result])
    /\ UNCHANGED <<gateway, events, process, view, acked>>

RedisHSet ==
    /\ Execute("hSet", {})
    /\ LET k == Head(pipe) IN
       /\ status' = status \cup {k.user}
       /\ overtaken' = overtaken \ {k.user}
       /\ silent' = IF k.task = "pong" /\ k.user \notin status THEN silent \cup {k.user} ELSE silent
    /\ UNCHANGED <<ttlKey, keyless>>

RedisSetEX ==
    /\ Execute("set", {})
    /\ ttlKey' = ttlKey \cup {Head(pipe).user}
    /\ keyless' = keyless \ {Head(pipe).user}
    /\ UNCHANGED <<status, overtaken, silent>>

RedisHGetAll == Execute("hGetAll", status) /\ UNCHANGED <<store, overtaken, silent, keyless>>

RedisHDel ==
    /\ pipe # <<>> /\ Execute("hDel", status \cap {Head(pipe).user})
    /\ status' = status \ {Head(pipe).user}
    /\ silent' = silent \ {Head(pipe).user}
    /\ keyless' = keyless \ {Head(pipe).user}
    /\ UNCHANGED <<ttlKey, overtaken>>

\* The TTL of a key ends.  Redis publishes the event if it is so configured;
\* pub/sub keeps nothing for a subscriber that is away.
Expire(u) ==
    /\ u \in ttlKey /\ InFlight <= MaxInFlight
    /\ ttlKey' = ttlKey \ {u}
    /\ events' = IF up /\ KeyspaceEvents THEN Append(events, u) ELSE events
    /\ UNCHANGED <<gateway, pipe, replies, status, process, history>>

\* The failure of op ends the pong that issued k, which catches it: the key is not written.
KeyNotWritten(k, op) ==
    keyless' = IF k.op = op /\ k.task = "pong" THEN keyless \cup ({k.user} \cap (status \ ttlKey))
               ELSE keyless

\* A command fails: rejected before it ran, or its answer is lost with the connection.
RedisFails ==
    /\ errors < MaxErrors /\ errors' = errors + 1
    /\ \/ /\ pipe # <<>> /\ pipe' = Tail(pipe)
          /\ replies' = Append(replies, [call |-> Head(pipe), ok |-> FALSE, result |-> {}])
          /\ KeyNotWritten(Head(pipe), "set")
       \/ /\ replies # <<>> /\ Head(replies).ok /\ UNCHANGED pipe
          /\ replies' = <<[Head(replies) EXCEPT !.ok = FALSE]>> \o Tail(replies)
          /\ KeyNotWritten(Head(replies).call, "hSet")
    /\ UNCHANGED <<gateway, events, store, up, crashes, view, acked, overtaken, silent>>

-----------------------------------------------------------------------------
(* StayWebSocketGateway: connections, requests and the PostgreSQL check.   *)

handleConnection(c) ==
    /\ up /\ sock[c] = "closed" /\ ~RefersTo(c)
    /\ sock' = [sock EXCEPT ![c] = "open"]
    /\ UNCHANGED <<clients, checks, pipe, replies, events, store, process, history>>

\* The 'close' event of the socket: every channel drops the client.
handleDisconnect(c) ==
    /\ up /\ sock[c] # "closed"
    /\ sock' = [sock EXCEPT ![c] = "closed"]
    /\ clients' = Untrack(c)
    /\ view' = Forget(view, {c})
    /\ acked' = [acked EXCEPT ![c] = FALSE]
    /\ UNCHANGED <<checks, pipe, replies, events, store, process, overtaken, silent, keyless>>

\* JSON that does not parse, or an unknown channel.
BadRequest(c) ==
    /\ up /\ sock[c] = "open"
    /\ sock' = Closing(c)
    /\ UNCHANGED <<clients, checks, pipe, replies, events, store, process, history>>

\* Mutant of Acknowledge: the success message without the removal.
AcknowledgeOnly(c) ==
    /\ clients' = clients
    /\ acked' = [acked EXCEPT ![c] = (sock[c] = "open")]
\* The end of unsubscribeMessage: the client leaves the Map and is told so.
Acknowledge(c) ==
    /\ clients' = Untrack(c)
    /\ acked' = [acked EXCEPT ![c] = (sock[c] = "open")]

\* subscribeMessage and unsubscribeMessage without a user run in the same turn
\* up to the request for the snapshot.
SubscribeGuest(c) ==
    /\ MaySend(c)
    /\ clients' = Track(c, NoUser)
    /\ pipe' = getOnlineUsers(c, NoUser)
    /\ view' = Forget(view, {c})
    /\ acked' = [acked EXCEPT ![c] = FALSE]
    /\ UNCHANGED <<sock, checks, replies, events, store, process, overtaken, silent, keyless>>

UnsubscribeGuest(c) ==
    /\ MaySend(c)
    /\ Acknowledge(c)
    /\ view' = Forget(view, {c})
    /\ UNCHANGED <<sock, checks, pipe, replies, events, store, process, overtaken, silent, keyless>>

\* A request that names a user waits for checkUserInfo.
handleMessage(m) ==
    /\ MaySend(m.conn) /\ m \notin checks
    /\ checks' = checks \cup {m}
    /\ acked' = [acked EXCEPT ![m.conn] = @ /\ m.type = "unsubscribe"]
    /\ UNCHANGED <<sock, clients, pipe, replies, events, store, process, view, overtaken, silent, keyless>>

\* The user does not exist (4004) or the query failed (1011): the socket is closed.
CheckRefuses(m) ==
    /\ up /\ m \in checks
    /\ checks' = checks \ {m}
    /\ sock' = Closing(m.conn)
    /\ UNCHANGED <<clients, pipe, replies, events, store, process, history>>

subscribeMessage(m) ==
    /\ up /\ m \in checks /\ m.type = "subscribe"
    /\ checks' = checks \ {m}
    /\ pipe' = hSet("subscribe", m.conn, m.user, m.reset)
    /\ UNCHANGED <<sock, clients, replies, events, store, process, history>>

unsubscribeMessage(m) ==
    /\ up /\ m \in checks /\ m.type = "unsubscribe"
    /\ checks' = checks \ {m}
    /\ IF m.conn \in DOMAIN clients
       THEN pipe' = delStatus("unsubscribe", m.conn, m.user) /\ UNCHANGED <<clients, acked>>
       ELSE Acknowledge(m.conn) /\ UNCHANGED pipe
    /\ UNCHANGED <<sock, replies, events, store, process, view, overtaken, silent, keyless>>

-----------------------------------------------------------------------------
(* UserStatusMessage: what runs when a Redis answer is handled.            *)

\* The continuation of the await that issued op for task.
Answered(op, task) ==
    /\ up /\ replies # <<>> /\ Head(replies).ok
    /\ Head(replies).call.op = op /\ Head(replies).call.task = task
    /\ replies' = Tail(replies)

\* setStatus goes on from the hash to the TTL key.
HashIsSet ==
    /\ \E task \in {"subscribe", "pong"} : Answered("hSet", task)
    /\ pipe' = Append(pipe, [Head(replies).call EXCEPT !.op = "set"])
    /\ UNCHANGED <<gateway, events, store, process, history>>

\* subscribeMessage: tell the others, track the client, answer it.
StatusIsSet ==
    /\ Answered("set", "subscribe")
    /\ LET c == Head(replies).call.conn
           u == Head(replies).call.user
           reset == Head(replies).call.reset
           told == broadcastStatus(view, c, u, "online")
       IN /\ clients' = Track(c, u)
          /\ pipe' = IF reset THEN getOnlineUsers(c, u) ELSE pipe
          /\ view' = IF reset THEN Forget(told, {c})
                     ELSE Tell(told, {c} \cap {d \in Conns : sock[d] = "open"}, [x \in {u} |-> "online"])
          /\ overtaken' = IF u \in status THEN overtaken ELSE overtaken \cup {u}
    /\ UNCHANGED <<sock, checks, events, store, process, acked, silent, keyless>>

PongIsStored ==
    /\ Answered("set", "pong")
    /\ UNCHANGED <<gateway, pipe, events, store, process, history>>

\* The snapshot goes to the client that asked for it.
SnapshotIsRead ==
    /\ Answered("hGetAll", "subscribe")
    /\ LET online == Head(replies).result IN
       view' = Tell(view, {Head(replies).call.conn} \cap Receivers(NoConn),
                    [u \in Users |-> IF u \in online THEN "online" ELSE "offline"])
    /\ UNCHANGED <<gateway, pipe, events, store, process, acked, overtaken, silent, keyless>>

\* Mutant of StatusIsDeleted: nothing is broadcast once the client is gone.
StatusIsDeletedIfTracked ==
    /\ Answered("hDel", "unsubscribe")
    /\ LET c == Head(replies).call.conn
           u == Head(replies).call.user
       IN /\ view' = IF c \in DOMAIN clients
                     THEN Forget(broadcastStatus(view, c, u, "offline"), {c}) ELSE view
          /\ Acknowledge(c)
          /\ overtaken' = overtaken \ {u}
    /\ UNCHANGED <<sock, checks, pipe, events, store, process, silent, keyless>>
\* unsubscribeMessage: tell the others, drop the client, answer it.
StatusIsDeleted ==
    /\ Answered("hDel", "unsubscribe")
    /\ LET c == Head(replies).call.conn
           u == Head(replies).call.user
       IN /\ view' = Forget(broadcastStatus(view, c, u, "offline"), {c})
          /\ Acknowledge(c)
          /\ overtaken' = overtaken \ {u}
    /\ UNCHANGED <<sock, checks, pipe, events, store, process, silent, keyless>>

\* Mutant of handleRedisExpiration: the event of a user with a tracked client is ignored.
handleRedisExpirationIfGone ==
    /\ up /\ events # <<>>
    /\ events' = Tail(events)
    /\ pipe' = IF \E c \in DOMAIN clients : clients[c].userUid = Head(events)
               THEN pipe ELSE delStatus("expire", NoConn, Head(events))
    /\ UNCHANGED <<gateway, replies, store, process, history>>
\* handleRedisExpiration up to its await, and after it.
handleRedisExpiration ==
    /\ up /\ events # <<>>
    /\ events' = Tail(events)
    /\ pipe' = delStatus("expire", NoConn, Head(events))
    /\ UNCHANGED <<gateway, replies, store, process, history>>

ExpiredIsDeleted ==
    /\ Answered("hDel", "expire")
    /\ LET u == Head(replies).call.user
           removed == Head(replies).result # {}
       IN /\ view' = IF removed THEN broadcastStatus(view, NoConn, u, "offline") ELSE view
          /\ overtaken' = IF removed THEN overtaken \ {u} ELSE overtaken
    /\ UNCHANGED <<gateway, pipe, events, store, process, acked, silent, keyless>>

\* Mutant of ping: only open sockets are looked at.
pingOpenOnly ==
    /\ up /\ DOMAIN clients # {}
    /\ LET alive == {c \in DOMAIN clients : clients[c].isAlive \/ sock[c] # "open"} IN
       /\ clients' = [c \in alive |-> [clients[c] EXCEPT !.isAlive = FALSE]]
       /\ view' = Forget(view, DOMAIN clients \ alive)
    /\ UNCHANGED <<sock, checks, pipe, replies, events, store, process, acked, overtaken, silent, keyless>>
\* Every PING_INTERVAL: drop who did not answer the last ping, ping the others.
ping ==
    /\ up /\ DOMAIN clients # {}
    /\ LET alive == {c \in DOMAIN clients : clients[c].isAlive} IN
       /\ clients' = [c \in alive |-> [clients[c] EXCEPT !.isAlive = FALSE]]
       /\ view' = Forget(view, DOMAIN clients \ alive)
    /\ UNCHANGED <<sock, checks, pipe, replies, events, store, process, acked, overtaken, silent, keyless>>

\* Mutant of pong: only the TTL key is refreshed.
pongKeyOnly(c) ==
    /\ up /\ sock[c] # "closed" /\ c \in DOMAIN clients
    /\ clients' = [clients EXCEPT ![c].isAlive = TRUE]
    /\ LET u == clients[c].userUid IN
       \/ u = NoUser /\ UNCHANGED pipe
       \/ u # NoUser /\ InFlight < MaxInFlight /\ pipe' = Append(pipe, Call("set", "pong", c, u, FALSE))
    /\ UNCHANGED <<sock, checks, replies, events, store, process, history>>
\* A pong frame of a tracked client; one of another client is only logged.
pong(c) ==
    /\ up /\ sock[c] # "closed" /\ c \in DOMAIN clients
    /\ clients' = [clients EXCEPT ![c].isAlive = TRUE]
    /\ LET u == clients[c].userUid IN
       \/ u = NoUser /\ UNCHANGED pipe
       \/ u # NoUser /\ InFlight < MaxInFlight /\ pipe' = hSet("pong", c, u, FALSE)
    /\ UNCHANGED <<sock, checks, replies, events, store, process, history>>

-----------------------------------------------------------------------------
(* Failures of the process.                                                *)

\* Sockets, Map, handlers and unhandled answers are gone; Redis keeps its data.
Exit ==
    /\ up' = FALSE /\ crashes' = crashes + 1
    /\ sock' = [c \in Conns |-> "closed"]
    /\ clients' = [c \in {} |-> [userUid |-> NoUser, isAlive |-> TRUE]]
    /\ checks' = {} /\ pipe' = <<>> /\ replies' = <<>> /\ events' = <<>>
    /\ view' = Forget(view, Conns)
    /\ acked' = [c \in Conns |-> FALSE]
    /\ overtaken' = {} /\ silent' = {} /\ keyless' = {}
    /\ UNCHANGED <<store, errors>>

Crash == up /\ crashes < MaxCrashes /\ Exit

\* Mutant of CommandFailed: every handler catches, as pong does.
CommandFailedCaught ==
    /\ up /\ replies # <<>> /\ ~Head(replies).ok
    /\ replies' = Tail(replies)
    /\ UNCHANGED <<gateway, pipe, events, store, process, history>>
\* pong catches a failed command; nobody awaits the other handlers, so their
\* rejection is unhandled and Node exits.
CommandFailed ==
    /\ up /\ replies # <<>> /\ ~Head(replies).ok
    /\ IF Head(replies).call.task = "pong"
       THEN replies' = Tail(replies) /\ UNCHANGED <<gateway, pipe, events, store, process, history>>
       ELSE Exit

Restart == ~up /\ up' = TRUE /\ UNCHANGED <<gateway, pipe, replies, events, store, crashes, errors, history>>

-----------------------------------------------------------------------------
Redis == RedisHSet \/ RedisSetEX \/ RedisHGetAll \/ RedisHDel
ReplyHandled == \/ HashIsSet \/ StatusIsSet \/ PongIsStored \/ SnapshotIsRead
                \/ StatusIsDeleted \/ ExpiredIsDeleted \/ CommandFailed
CheckDone(m) == CheckRefuses(m) \/ subscribeMessage(m) \/ unsubscribeMessage(m)
Client(c) == \/ handleConnection(c) \/ handleDisconnect(c) \/ BadRequest(c)
             \/ SubscribeGuest(c) \/ UnsubscribeGuest(c) \/ pong(c)

Next == \/ \E c \in Conns : Client(c)
        \/ \E m \in Message : handleMessage(m) \/ CheckDone(m)
        \/ Redis \/ ReplyHandled \/ handleRedisExpiration \/ ping
        \/ \E u \in Users : Expire(u)
        \/ RedisFails \/ Crash \/ Restart

Spec == Init /\ [][Next]_vars

-----------------------------------------------------------------------------
(* Safety.                                                                 *)


\* Something still runs that ends in the removal of u from the hash.
Guarded(u) ==
    \/ u \in ttlKey
    \/ u \in Range(events)
    \/ Issued({"set", "hDel"}, AllTasks, u)
    \/ Unhandled({"hSet"}, AllTasks, u)

\* A user in the hash always has a TTL key, or is on the way to one, or is on the
\* way out of the hash: setStatus writes the hash before the key (service 68, 71)
\* and handleRedisExpiration removes the field of every key that ends.  Exits and
\* failed commands break this, so do a Redis without notifications.
NoGhostOnline ==
    crashes = 0 /\ errors = 0 /\ KeyspaceEvents => \A u \in status : Guarded(u)

\* The failed command of another handler than pong is about to end the process.
ExitIsComing == \E r \in Range(replies) : ~r.ok /\ r.call.task # "pong"

\* A user in the hash with a tracked client is guarded through exits and failed
\* commands too: a new subscription adopts what an earlier process left behind, and
\* whatever fails outside pong ends the process and with it the tracking (message 94).
\* The exception is what pong's catch leaves (message 129-131): its set fails, or the
\* answer to its hSet is lost, while the user has no key.  That field has nothing that
\* would remove it until a later set or removal of the user is executed.
TrackedAreGuarded ==
    KeyspaceEvents => \A c \in DOMAIN clients :
        LET u == clients[c].userUid IN
        u \in status => Guarded(u) \/ u \in keyless \/ ExitIsComing

Watching(c) == c \in DOMAIN clients /\ sock[c] = "open"
OnlineIsComing(u) ==
    \/ Issued({"set"}, {"subscribe"}, u)
    \/ Unhandled({"hSet", "set"}, {"subscribe"}, u)

\* Who shows u as online is right, or will hear otherwise, unless u's own online
\* broadcast came after its removal (the set of an overlapping subscription).
\* No removal is left unannounced, and no snapshot overwrites newer news.
OnlineViewJustified ==
    errors = 0 => \A c \in Conns, u \in Users :
        Watching(c) /\ view[c][u] = "online" => u \in status \cup overtaken \/ OfflineIsComing(u)

\* Who shows u as offline is right, or will hear otherwise, unless a pong put u
\* back.  A client that subscribes is tracked before its snapshot is read, so it
\* misses no broadcast in between.
OfflineViewJustified ==
    errors = 0 => \A c \in Conns, u \in Users :
        Watching(c) /\ view[c][u] = "offline" => u \notin status \ silent \/ OnlineIsComing(u)

\* A client told that it is unsubscribed is not in the Map: nothing of an earlier
\* subscription of its own comes back.
AcknowledgedIsUntracked == \A c \in Conns : acked[c] => c \notin DOMAIN clients

\* With nothing in flight, a user without client and without key is shown as online
\* to nobody (1_Requirements.md 14: the WebSocket carries "User online/offline
\* status").  A subscription whose set is answered after another handler's removal
\* breaks this for good: the end of the key then removes nothing and is not broadcast.
Gone(u) == u \notin status \cup ttlKey /\ \A c \in DOMAIN clients : clients[c].userUid # u
QuietViewIsRight ==
    errors = 0 /\ Calls = {} /\ checks = {} /\ events = <<>> =>
        \A c \in Conns, u \in Users : Watching(c) /\ view[c][u] = "online" => ~Gone(u)

-----------------------------------------------------------------------------
(* Liveness.                                                               *)

\* No client will refresh u: its key is left to end.
Idle(u) == /\ \A c \in DOMAIN clients : clients[c].userUid # u
           /\ \A m \in checks : m.user # u
           /\ \A k \in Calls : k.user = u => k.op # "set" /\ k.op # "hSet"

\* Redis, the event loop, PostgreSQL and setInterval go on; a TTL nobody refreshes ends.
Fairness ==
    /\ WF_vars(Redis) /\ WF_vars(ReplyHandled) /\ WF_vars(handleRedisExpiration)
    /\ WF_vars(ping)
    /\ \A c \in Conns : WF_vars(\E m \in checks : m.conn = c /\ CheckDone(m))
    /\ \A u \in Users : WF_vars(Idle(u) /\ Expire(u))

FairSpec == Spec /\ Fairness

\* A subscription that outlives its socket leaves a tracked client that no close
\* event will remove; ping does.
ClosedIsDropped ==
    \A c \in Conns : (sock[c] = "closed" /\ c \in DOMAIN clients) ~> (c \notin DOMAIN clients)

\* A user whose clients are all gone for good leaves the hash for good, through
\* the end of its TTL key (message 134: handled on the TTL expiration event).
AbandonedGoesOffline ==
    \A u \in Users : <>[]Idle(u) => <>[](u \notin status)

\* A tracked client that goes on answering pings keeps coming back online, whatever
\* another client of the same user or an expiration does to the hash.
AnsweringStaysOnline ==
    \A c \in Conns, u \in Users :
        <>[](c \in DOMAIN clients /\ clients[c].userUid = u) /\ []<><<pong(c)>>_vars
            => []<>(u \in status)
=============================================================================
