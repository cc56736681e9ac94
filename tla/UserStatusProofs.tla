-------------------------- MODULE UserStatusProofs --------------------------
(***************************************************************************)
(* Theorems about UserStatus for every set of users and connections and    *)
(* every value of the bounds.                                              *)
(***************************************************************************)
EXTENDS UserStatus, RangeLemmas, TLAPS

-----------------------------------------------------------------------------
(* Type correctness.                                                       *)

LEMMA CallTypes ==
    /\ \A task \in {"subscribe", "pong"}, c \in Conns, u \in Users, r \in BOOLEAN :
          /\ Call("hSet", task, c, u, r) \in RedisCall
          /\ Call("set", task, c, u, r) \in RedisCall
    /\ \A c \in Conns, u \in Uid : Call("hGetAll", "subscribe", c, u, TRUE) \in RedisCall
    /\ \A c \in Conns, u \in Users : Call("hDel", "unsubscribe", c, u, FALSE) \in RedisCall
    /\ \A u \in Users : Call("hDel", "expire", NoConn, u, FALSE) \in RedisCall
BY DEF Call, RedisCall, SetCall, SnapshotCall, RemovalCall, ExpiryCall

LEMMA CallFields ==
    ASSUME NEW k \in RedisCall
    PROVE  /\ k.user \in Uid
           /\ k.op = "hGetAll" \/ k.user \in Users
           /\ k.task = "expire" \/ k.conn \in Conns
           /\ k.reset \in BOOLEAN
BY DEF RedisCall, SetCall, SnapshotCall, RemovalCall, ExpiryCall, Uid

LEMMA NextCall ==
    ASSUME NEW k \in RedisCall, k.op = "hSet"
    PROVE  /\ [k EXCEPT !.op = "set"] \in RedisCall
           /\ [k EXCEPT !.op = "set"].op = "set"
           /\ [k EXCEPT !.op = "set"].user = k.user
           /\ [k EXCEPT !.op = "set"].task = k.task
<1>1. k \in SetCall
  BY DEF RedisCall, SetCall, SnapshotCall, RemovalCall, ExpiryCall
<1>2. [k EXCEPT !.op = "set"] \in SetCall
  BY <1>1 DEF SetCall
<1>3. /\ [k EXCEPT !.op = "set"].op = "set"
      /\ [k EXCEPT !.op = "set"].user = k.user
      /\ [k EXCEPT !.op = "set"].task = k.task
  BY <1>1 DEF SetCall
<1> QED BY <1>2, <1>3 DEF RedisCall

LEMMA MessageType ==
    ASSUME NEW m \in Message
    PROVE  /\ m.conn \in Conns /\ m.user \in Users /\ m.user \in Uid /\ m.reset \in BOOLEAN
           /\ m.type \in {"subscribe", "unsubscribe"}
BY DEF Message, Uid

LEMMA InitType == Init => TypeOK
<1> SUFFICES ASSUME Init PROVE TypeOK
  OBVIOUS
<1>1. pipe \in Seq(RedisCall) /\ replies \in Seq(Reply) /\ events \in Seq(Users)
  BY EmptySeq DEF Init
<1>2. clients = [c \in {} |-> [userUid |-> NoUser, isAlive |-> TRUE]]
  BY DEF Init
<1>3. DOMAIN clients = {} /\ clients \in [DOMAIN clients -> TrackedClient]
  BY <1>2
<1>4. view \in [Conns -> [Users -> Told]]
  BY DEF Init, NothingTold, Told
<1> QED BY <1>1, <1>3, <1>4 DEF Init, TypeOK

(* What the helpers on the Map and on the views return. *)
LEMMA MapTypes ==
    ASSUME TypeOK
    PROVE  /\ \A c \in Conns : /\ DOMAIN Untrack(c) \subseteq Conns
                               /\ Untrack(c) \in [DOMAIN Untrack(c) -> TrackedClient]
           /\ \A c \in Conns, u \in Uid : /\ DOMAIN Track(c, u) \subseteq Conns
                                          /\ Track(c, u) \in [DOMAIN Track(c, u) -> TrackedClient]
<1>1. ASSUME NEW c \in Conns
      PROVE  /\ DOMAIN Untrack(c) \subseteq Conns
             /\ Untrack(c) \in [DOMAIN Untrack(c) -> TrackedClient]
  <2>1. /\ DOMAIN Untrack(c) = DOMAIN clients \ {c}
        /\ \A d \in DOMAIN clients \ {c} : Untrack(c)[d] = clients[d]
    BY DEF Untrack, Restrict
  <2>2. Untrack(c) = [d \in DOMAIN Untrack(c) |-> Untrack(c)[d]]
    BY DEF Untrack, Restrict
  <2> QED BY <2>1, <2>2 DEF TypeOK
<1>2. ASSUME NEW c \in Conns, NEW u \in Uid
      PROVE  /\ DOMAIN Track(c, u) \subseteq Conns
             /\ Track(c, u) \in [DOMAIN Track(c, u) -> TrackedClient]
  <2>1. /\ DOMAIN Track(c, u) = DOMAIN clients \cup {c}
        /\ \A d \in DOMAIN clients \cup {c} : Track(c, u)[d] \in TrackedClient
    BY DEF Track, TypeOK, TrackedClient
  <2>2. Track(c, u) = [d \in DOMAIN Track(c, u) |-> Track(c, u)[d]]
    BY DEF Track
  <2> QED BY <2>1, <2>2 DEF TypeOK
<1> QED BY <1>1, <1>2

LEMMA ViewTypes ==
    /\ NothingTold \in [Users -> Told]
    /\ \A v \in [Conns -> [Users -> Told]] : \A cs :
          /\ Forget(v, cs) \in [Conns -> [Users -> Told]]
          /\ \A news : (\A u \in DOMAIN news : news[u] \in Told)
                          => Tell(v, cs, news) \in [Conns -> [Users -> Told]]
          /\ \A u, s : s \in Told => broadcastStatus(v, cs, u, s) \in [Conns -> [Users -> Told]]
<1>1. NothingTold \in [Users -> Told]
  BY DEF NothingTold, Told
<1>2. ASSUME NEW v \in [Conns -> [Users -> Told]], NEW cs
      PROVE  Forget(v, cs) \in [Conns -> [Users -> Told]]
  BY <1>1 DEF Forget
<1>3. ASSUME NEW v \in [Conns -> [Users -> Told]], NEW cs, NEW news,
             \A u \in DOMAIN news : news[u] \in Told
      PROVE  Tell(v, cs, news) \in [Conns -> [Users -> Told]]
  BY <1>3 DEF Tell
<1>4. ASSUME NEW v \in [Conns -> [Users -> Told]], NEW cs, NEW u, NEW s \in Told
      PROVE  broadcastStatus(v, cs, u, s) \in [Conns -> [Users -> Told]]
  <2>1. \A w \in DOMAIN [x \in {u} |-> s] : [x \in {u} |-> s][w] \in Told
    OBVIOUS
  <2> QED BY <1>3, <2>1 DEF broadcastStatus
<1> QED BY <1>1, <1>2, <1>3, <1>4

(* The commands and answers that the actions move between the two FIFOs. *)
LEMMA HeadReply ==
    ASSUME TypeOK, replies # <<>>
    PROVE  /\ Head(replies) \in Reply /\ Tail(replies) \in Seq(Reply)
           /\ Head(replies).call \in RedisCall /\ Head(replies).ok \in BOOLEAN
           /\ Head(replies).result \subseteq Users
<1>1. Head(replies) \in Reply /\ Tail(replies) \in Seq(Reply)
  BY RangeHeadTail DEF TypeOK
<1> QED BY <1>1 DEF Reply

LEMMA HeadCall ==
    ASSUME TypeOK, pipe # <<>>
    PROVE  /\ Head(pipe) \in RedisCall /\ Tail(pipe) \in Seq(RedisCall)
BY RangeHeadTail DEF TypeOK

LEMMA AppendTypes ==
    ASSUME TypeOK
    PROVE  /\ \A k \in RedisCall : Append(pipe, k) \in Seq(RedisCall)
           /\ \A r \in Reply : Append(replies, r) \in Seq(Reply)
           /\ \A u \in Users : Append(events, u) \in Seq(Users)
           /\ events # <<>> => Head(events) \in Users /\ Tail(events) \in Seq(Users)
BY RangeAppend, RangeHeadTail DEF TypeOK

LEMMA ExecuteType ==
    ASSUME TypeOK, NEW op, NEW result \in SUBSET Users, Execute(op, result)
    PROVE  /\ Head(pipe) \in RedisCall /\ Head(pipe).op = op
           /\ op # "hGetAll" => Head(pipe).user \in Users
           /\ pipe' \in Seq(RedisCall) /\ replies' \in Seq(Reply)
<1>1. Head(pipe) \in RedisCall /\ Tail(pipe) \in Seq(RedisCall)
  BY HeadCall DEF Execute
<1>2. [call |-> Head(pipe), ok |-> TRUE, result |-> result] \in Reply
  BY <1>1 DEF Reply
<1>3. pipe' = Tail(pipe) /\ Head(pipe).op = op /\ replies' \in Seq(Reply)
  BY <1>2, AppendTypes DEF Execute
<1> QED BY <1>1, <1>3, CallFields

LEMMA AnsweredType ==
    ASSUME TypeOK, NEW op, NEW task, Answered(op, task)
    PROVE  /\ Head(replies) \in Reply /\ Head(replies).call \in RedisCall
           /\ Head(replies).call.op = op /\ Head(replies).call.task = task
           /\ Head(replies).call.user \in Uid /\ Head(replies).call.reset \in BOOLEAN
           /\ op # "hGetAll" => Head(replies).call.user \in Users
           /\ task # "expire" => Head(replies).call.conn \in Conns
           /\ replies' \in Seq(Reply)
<1>1. /\ Head(replies) \in Reply /\ Tail(replies) \in Seq(Reply)
      /\ Head(replies).call \in RedisCall
  BY HeadReply DEF Answered
<1>2. /\ Head(replies).call.op = op /\ Head(replies).call.task = task
      /\ replies' = Tail(replies)
  BY DEF Answered
<1> QED BY <1>1, <1>2, CallFields

LEMMA ExitType == TypeOK /\ Exit => TypeOK'
<1> SUFFICES ASSUME TypeOK, Exit PROVE TypeOK'
  OBVIOUS
<1>1. pipe' \in Seq(RedisCall) /\ replies' \in Seq(Reply) /\ events' \in Seq(Users)
  BY EmptySeq DEF Exit
<1>2. clients' = [c \in {} |-> [userUid |-> NoUser, isAlive |-> TRUE]]
  BY DEF Exit
<1>3. DOMAIN clients' = {} /\ clients' \in [DOMAIN clients' -> TrackedClient]
  BY <1>2
<1>4. view' \in [Conns -> [Users -> Told]]
  BY ViewTypes DEF TypeOK, Exit
<1>5. sock' \in [Conns -> {"closed", "open", "closing"}] /\ acked' \in [Conns -> BOOLEAN]
  BY DEF Exit
<1>6. checks' = {} /\ overtaken' = {} /\ silent' = {} /\ keyless' = {}
  BY DEF Exit
<1>7. status' = status /\ ttlKey' = ttlKey /\ errors' = errors /\ up' \in BOOLEAN
  BY DEF Exit, store
<1>8. crashes' \in Nat
  BY DEF Exit, TypeOK
<1> QED BY <1>1, <1>3, <1>4, <1>5, <1>6, <1>7, <1>8 DEF TypeOK


LEMMA FailedReplies ==
    ASSUME TypeOK
    PROVE  /\ pipe # <<>> => Append(replies, [call |-> Head(pipe), ok |-> FALSE, result |-> {}]) \in Seq(Reply)
           /\ replies # <<>> =>
                 <<[Head(replies) EXCEPT !.ok = FALSE]>> \o Tail(replies) \in Seq(Reply)
<1>1. ASSUME pipe # <<>>
      PROVE  Append(replies, [call |-> Head(pipe), ok |-> FALSE, result |-> {}]) \in Seq(Reply)
  <2>1. [call |-> Head(pipe), ok |-> FALSE, result |-> {}] \in Reply
    BY <1>1, HeadCall DEF Reply
  <2> QED BY <2>1, AppendTypes
<1>2. ASSUME replies # <<>>
      PROVE  <<[Head(replies) EXCEPT !.ok = FALSE]>> \o Tail(replies) \in Seq(Reply)
  <2>1. Head(replies) \in Reply /\ Tail(replies) \in Seq(Reply)
    BY <1>2, HeadReply
  <2>2. [Head(replies) EXCEPT !.ok = FALSE] \in Reply
    BY <2>1 DEF Reply
  <2>3. <<[Head(replies) EXCEPT !.ok = FALSE]>> \in Seq(Reply)
    BY <2>2
  <2> QED BY <2>1, <2>3
<1> QED BY <1>1, <1>2

LEMMA TypeStep == TypeOK /\ [Next]_vars => TypeOK'
<1> SUFFICES ASSUME TypeOK, [Next]_vars PROVE TypeOK'
  OBVIOUS
<1> USE DEF gateway, store, process, history
<1>1. ASSUME NEW c \in Conns, handleConnection(c) PROVE TypeOK'
  BY <1>1 DEF handleConnection, TypeOK
<1>2. ASSUME NEW c \in Conns, handleDisconnect(c) PROVE TypeOK'
  <2>1. DOMAIN clients' \subseteq Conns /\ clients' \in [DOMAIN clients' -> TrackedClient]
    BY <1>2, MapTypes DEF handleDisconnect
  <2>2. view' \in [Conns -> [Users -> Told]]
    BY <1>2, ViewTypes DEF handleDisconnect, TypeOK
  <2> QED BY <1>2, <2>1, <2>2 DEF handleDisconnect, TypeOK
<1>3. ASSUME NEW c \in Conns, BadRequest(c) PROVE TypeOK'
  BY <1>3 DEF BadRequest, Closing, TypeOK
<1>4. ASSUME NEW c \in Conns, SubscribeGuest(c) PROVE TypeOK'
  <2>1. NoUser \in Uid
    BY DEF Uid
  <2>2. DOMAIN clients' \subseteq Conns /\ clients' \in [DOMAIN clients' -> TrackedClient]
    BY <1>4, MapTypes, <2>1 DEF SubscribeGuest
  <2>3. view' \in [Conns -> [Users -> Told]]
    BY <1>4, ViewTypes DEF SubscribeGuest, TypeOK
  <2>4. pipe' \in Seq(RedisCall)
    BY <1>4, <2>1, CallTypes, AppendTypes DEF SubscribeGuest, getOnlineUsers
  <2> QED BY <1>4, <2>1, <2>2, <2>3, <2>4 DEF SubscribeGuest, TypeOK
<1>5. ASSUME NEW c \in Conns, UnsubscribeGuest(c) PROVE TypeOK'
  <2>1. DOMAIN clients' \subseteq Conns /\ clients' \in [DOMAIN clients' -> TrackedClient]
    BY <1>5, MapTypes DEF UnsubscribeGuest, Acknowledge
  <2>2. view' \in [Conns -> [Users -> Told]]
    BY <1>5, ViewTypes DEF UnsubscribeGuest, TypeOK
  <2> QED BY <1>5, <2>1, <2>2 DEF UnsubscribeGuest, Acknowledge, TypeOK
<1>6. ASSUME NEW c \in Conns, pong(c) PROVE TypeOK'
  <2>1. DOMAIN clients' \subseteq Conns /\ clients' \in [DOMAIN clients' -> TrackedClient]
    BY <1>6 DEF pong, TypeOK, TrackedClient
  <2>2. clients[c].userUid \in Users \/ clients[c].userUid = NoUser
    BY <1>6 DEF pong, TypeOK, TrackedClient, Uid
  <2>3. pipe' \in Seq(RedisCall)
    BY <1>6, <2>2, CallTypes, AppendTypes DEF pong, hSet, TypeOK
  <2> QED BY <1>6, <2>1, <2>2, <2>3 DEF pong, TypeOK
<1>7. ASSUME NEW m \in Message, handleMessage(m) PROVE TypeOK'
  BY <1>7, MessageType DEF handleMessage, TypeOK
<1>8. ASSUME NEW m \in Message, CheckRefuses(m) PROVE TypeOK'
  BY <1>8 DEF CheckRefuses, Closing, TypeOK
<1>9. ASSUME NEW m \in Message, subscribeMessage(m) PROVE TypeOK'
  <2>1. pipe' \in Seq(RedisCall)
    BY <1>9, MessageType, CallTypes, AppendTypes DEF subscribeMessage, hSet
  <2> QED BY <1>9, <2>1 DEF subscribeMessage, TypeOK
<1>10. ASSUME NEW m \in Message, unsubscribeMessage(m) PROVE TypeOK'
  <2>1. pipe' \in Seq(RedisCall)
    BY <1>10, MessageType, CallTypes, AppendTypes DEF unsubscribeMessage, delStatus, TypeOK
  <2>2. DOMAIN clients' \subseteq Conns /\ clients' \in [DOMAIN clients' -> TrackedClient]
    BY <1>10, MapTypes, MessageType DEF unsubscribeMessage, Acknowledge, TypeOK
  <2>3. acked' \in [Conns -> BOOLEAN]
    BY <1>10, MessageType DEF unsubscribeMessage, Acknowledge, TypeOK
  <2> QED BY <1>10, <2>1, <2>2, <2>3 DEF unsubscribeMessage, TypeOK
<1>11. ASSUME RedisHSet PROVE TypeOK'
  <2>1. Head(pipe).user \in Users /\ pipe' \in Seq(RedisCall) /\ replies' \in Seq(Reply)
    BY <1>11, ExecuteType DEF RedisHSet
  <2> QED BY <1>11, <2>1 DEF RedisHSet, Execute, TypeOK
<1>12. ASSUME RedisSetEX PROVE TypeOK'
  <2>1. Head(pipe).user \in Users /\ pipe' \in Seq(RedisCall) /\ replies' \in Seq(Reply)
    BY <1>12, ExecuteType DEF RedisSetEX
  <2> QED BY <1>12, <2>1 DEF RedisSetEX, Execute, TypeOK
<1>13. ASSUME RedisHGetAll PROVE TypeOK'
  <2>1. pipe' \in Seq(RedisCall) /\ replies' \in Seq(Reply)
    BY <1>13, ExecuteType DEF RedisHGetAll, TypeOK
  <2> QED BY <1>13, <2>1 DEF RedisHGetAll, Execute, TypeOK
<1>14. ASSUME RedisHDel PROVE TypeOK'
  <2>1. pipe' \in Seq(RedisCall) /\ replies' \in Seq(Reply)
    BY <1>14, ExecuteType DEF RedisHDel, TypeOK
  <2> QED BY <1>14, <2>1 DEF RedisHDel, Execute, TypeOK
<1>15. ASSUME HashIsSet PROVE TypeOK'
  <2>1. replies' \in Seq(Reply) /\ Head(replies).call \in RedisCall /\ Head(replies).call.op = "hSet"
    BY <1>15, AnsweredType DEF HashIsSet
  <2>2. pipe' \in Seq(RedisCall)
    BY <1>15, <2>1, NextCall, AppendTypes DEF HashIsSet
  <2> QED BY <1>15, <2>1, <2>2 DEF HashIsSet, TypeOK
<1>16. ASSUME StatusIsSet PROVE TypeOK'
  <2>1. /\ replies' \in Seq(Reply)
          /\ Head(replies).call.conn \in Conns /\ Head(replies).call.user \in Users /\ Head(replies).call.user \in Uid
    BY <1>16, AnsweredType DEF StatusIsSet
  <2>2. DOMAIN clients' \subseteq Conns /\ clients' \in [DOMAIN clients' -> TrackedClient]
    BY <1>16, <2>1, MapTypes DEF StatusIsSet
  <2>3. pipe' \in Seq(RedisCall)
    BY <1>16, <2>1, CallTypes, AppendTypes DEF StatusIsSet, getOnlineUsers, TypeOK
  <2>4. \A w \in DOMAIN [x \in {Head(replies).call.user} |-> "online"] : [x \in {Head(replies).call.user} |-> "online"][w] \in Told
    BY DEF Told
  <2>5. broadcastStatus(view, Head(replies).call.conn, Head(replies).call.user, "online") \in [Conns -> [Users -> Told]]
    BY ViewTypes DEF TypeOK, Told
  <2>6. view' \in [Conns -> [Users -> Told]]
    BY <1>16, <2>4, <2>5, ViewTypes DEF StatusIsSet
  <2> QED BY <1>16, <2>1, <2>2, <2>3, <2>4, <2>5, <2>6 DEF StatusIsSet, TypeOK
<1>17. ASSUME PongIsStored PROVE TypeOK'
  <2>1. replies' \in Seq(Reply)
    BY <1>17, AnsweredType DEF PongIsStored
  <2> QED BY <1>17, <2>1 DEF PongIsStored, TypeOK
<1>18. ASSUME SnapshotIsRead PROVE TypeOK'
  <2>1. replies' \in Seq(Reply)
    BY <1>18, AnsweredType DEF SnapshotIsRead
  <2>2. \A online : \A x \in DOMAIN [u \in Users |-> IF u \in online THEN "online" ELSE "offline"] :
             [u \in Users |-> IF u \in online THEN "online" ELSE "offline"][x] \in Told
    BY DEF Told
  <2>3. view' \in [Conns -> [Users -> Told]]
    BY <1>18, <2>2, ViewTypes, ZenonT(60) DEF SnapshotIsRead, TypeOK
  <2> QED BY <1>18, <2>1, <2>2, <2>3 DEF SnapshotIsRead, TypeOK
<1>19. ASSUME StatusIsDeleted PROVE TypeOK'
  <2>1. replies' \in Seq(Reply) /\ Head(replies).call.conn \in Conns
    BY <1>19, AnsweredType DEF StatusIsDeleted
  <2>2. DOMAIN clients' \subseteq Conns /\ clients' \in [DOMAIN clients' -> TrackedClient]
    BY <1>19, <2>1, MapTypes DEF StatusIsDeleted, Acknowledge
  <2>3. broadcastStatus(view, Head(replies).call.conn, Head(replies).call.user, "offline") \in [Conns -> [Users -> Told]]
    BY ViewTypes DEF TypeOK, Told
  <2>4. view' \in [Conns -> [Users -> Told]]
    BY <1>19, <2>3, ViewTypes DEF StatusIsDeleted
  <2> QED BY <1>19, <2>1, <2>2, <2>3, <2>4 DEF StatusIsDeleted, Acknowledge, TypeOK
<1>20. ASSUME handleRedisExpiration PROVE TypeOK'
  <2>1. events' \in Seq(Users) /\ pipe' \in Seq(RedisCall)
    BY <1>20, AppendTypes, CallTypes DEF handleRedisExpiration, delStatus
  <2> QED BY <1>20, <2>1 DEF handleRedisExpiration, TypeOK
<1>21. ASSUME ExpiredIsDeleted PROVE TypeOK'
  <2>1. replies' \in Seq(Reply)
    BY <1>21, AnsweredType DEF ExpiredIsDeleted
  <2>2. broadcastStatus(view, NoConn, Head(replies).call.user, "offline") \in [Conns -> [Users -> Told]]
    BY ViewTypes DEF TypeOK, Told
  <2>3. view' \in [Conns -> [Users -> Told]]
    BY <1>21, <2>2 DEF ExpiredIsDeleted, TypeOK
  <2> QED BY <1>21, <2>1, <2>2, <2>3 DEF ExpiredIsDeleted, TypeOK
<1>22. ASSUME ping PROVE TypeOK'
  <2>1. DOMAIN clients' \subseteq Conns /\ clients' \in [DOMAIN clients' -> TrackedClient]
    BY <1>22 DEF ping, TypeOK, TrackedClient
  <2>2. view' \in [Conns -> [Users -> Told]]
    BY <1>22, ViewTypes DEF ping, TypeOK
  <2> QED BY <1>22, <2>1, <2>2 DEF ping, TypeOK
<1>23. ASSUME NEW u \in Users, Expire(u) PROVE TypeOK'
  <2>1. events' \in Seq(Users)
    BY <1>23, AppendTypes DEF Expire, TypeOK
  <2> QED BY <1>23, <2>1 DEF Expire, TypeOK
<1>24. ASSUME RedisFails PROVE TypeOK'
  <2>1. pipe' \in Seq(RedisCall)
    BY <1>24, HeadCall DEF RedisFails, TypeOK
  <2>2. replies' \in Seq(Reply)
    BY <1>24, FailedReplies DEF RedisFails
  <2>3. errors' \in Nat
    BY <1>24 DEF RedisFails, TypeOK
  <2>4. keyless' \subseteq Users
    BY <1>24 DEF RedisFails, KeyNotWritten, TypeOK
  <2> QED BY <1>24, <2>1, <2>2, <2>3, <2>4 DEF RedisFails, TypeOK
<1>25. ASSUME Crash PROVE TypeOK'
  BY <1>25, ExitType DEF Crash
<1>26. ASSUME CommandFailed PROVE TypeOK'
  <2>1. CASE Exit
    BY <2>1, ExitType
  <2>2. CASE ~Exit
    <3>1. replies' = Tail(replies) /\ UNCHANGED <<gateway, pipe, events, store, process, history>>
      BY <1>26, <2>2 DEF CommandFailed
    <3>2. replies' \in Seq(Reply)
      BY <1>26, <3>1, HeadReply DEF CommandFailed
    <3> QED BY <3>1, <3>2 DEF TypeOK
  <2> QED BY <2>1, <2>2
<1>27. ASSUME Restart PROVE TypeOK'
  BY <1>27 DEF Restart, TypeOK
<1>28. CASE UNCHANGED vars
  BY <1>28 DEF vars, TypeOK
<1> QED BY <1>1, <1>2, <1>3, <1>4, <1>5, <1>6, <1>7, <1>8, <1>9, <1>10, <1>11, <1>12, <1>13, <1>14,
           <1>15, <1>16, <1>17, <1>18, <1>19, <1>20, <1>21, <1>22, <1>23, <1>24, <1>25, <1>26, <1>27,
           <1>28
  DEF Next, Client, CheckDone, Redis, ReplyHandled

(* Every variable keeps its domain in every behaviour: no command, reply or    *)
(* notification is ever malformed, and only known sockets are tracked.         *)
THEOREM Typing == Spec => []TypeOK
<1> QED BY InitType, TypeStep, PTL DEF Spec

-----------------------------------------------------------------------------
(* No user stays in the hash unguarded.                                    *)

\* NoGhostOnline is not inductive alone: a handler that waits for an answer must
\* get one, and a key that ends must find the process up.
UpSoFar == crashes = 0 => up
AnsweredSoFar == errors = 0 => \A r \in Range(replies) : r.ok
GhostFree == TypeOK /\ UpSoFar /\ AnsweredSoFar /\ NoGhostOnline

\* A step that leaves no user in the hash unguarded who was not so before.
GuardsKept == \A u : (u \in status => Guarded(u)) => (u \in status' => Guarded(u)')

\* A step that at most issues one more command.
OnlyAsks ==
    /\ UNCHANGED <<replies, events, status, ttlKey, crashes, errors>>
    /\ up' = up
    /\ pipe' = pipe \/ \E k \in RedisCall : pipe' = Append(pipe, k)

LEMMA ClientsOnlyAsk ==
    ASSUME TypeOK, NEW c \in Conns, Client(c)
    PROVE  OnlyAsks
<1> USE DEF gateway, store, process, history
<1>1. ASSUME handleConnection(c) \/ handleDisconnect(c) \/ BadRequest(c) \/ UnsubscribeGuest(c)
      PROVE  OnlyAsks
  BY <1>1 DEF handleConnection, handleDisconnect, BadRequest, UnsubscribeGuest, OnlyAsks
<1>2. ASSUME SubscribeGuest(c) PROVE OnlyAsks
  <2>1. Call("hGetAll", "subscribe", c, NoUser, TRUE) \in RedisCall
    BY CallTypes DEF Uid
  <2> QED BY <1>2, <2>1 DEF SubscribeGuest, getOnlineUsers, OnlyAsks
<1>3. ASSUME pong(c) PROVE OnlyAsks
  <2>1. clients[c].userUid \in Users \/ clients[c].userUid = NoUser
    BY <1>3 DEF pong, TypeOK, TrackedClient, Uid
  <2>2. clients[c].userUid \in Users => Call("hSet", "pong", c, clients[c].userUid, FALSE) \in RedisCall
    BY CallTypes
  <2> QED BY <1>3, <2>1, <2>2 DEF pong, hSet, OnlyAsks
<1> QED BY <1>1, <1>2, <1>3 DEF Client

LEMMA RequestsOnlyAsk ==
    ASSUME TypeOK, NEW m \in Message, handleMessage(m) \/ CheckDone(m)
    PROVE  OnlyAsks
<1> USE DEF gateway, store, process, history
<1>1. ASSUME handleMessage(m) \/ CheckRefuses(m) PROVE OnlyAsks
  BY <1>1 DEF handleMessage, CheckRefuses, OnlyAsks
<1>2. ASSUME subscribeMessage(m) PROVE OnlyAsks
  <2>1. Call("hSet", "subscribe", m.conn, m.user, m.reset) \in RedisCall
    BY CallTypes, MessageType
  <2> QED BY <1>2, <2>1 DEF subscribeMessage, hSet, OnlyAsks
<1>3. ASSUME unsubscribeMessage(m) PROVE OnlyAsks
  <2>1. Call("hDel", "unsubscribe", m.conn, m.user, FALSE) \in RedisCall
    BY CallTypes, MessageType
  <2> QED BY <1>3, <2>1 DEF unsubscribeMessage, delStatus, OnlyAsks
<1> QED BY <1>1, <1>2, <1>3 DEF CheckDone

(* What was a guard stays one while nothing is taken away. *)
LEMMA GuardKept ==
    ASSUME NEW u, Guarded(u),
           ttlKey \subseteq ttlKey', Range(events) \subseteq Range(events'),
           Range(pipe) \subseteq Range(pipe'), Range(replies) \subseteq Range(replies')
    PROVE  Guarded(u)'
BY DEF Guarded, Issued, Unhandled

LEMMA OnlyAsksKeeps == TypeOK /\ OnlyAsks => GuardsKept
<1> SUFFICES ASSUME TypeOK, OnlyAsks PROVE GuardsKept
  OBVIOUS
<1>1. Range(pipe) \subseteq Range(pipe')
  <2>1. CASE pipe' = pipe
    BY <2>1
  <2>2. ASSUME NEW k \in RedisCall, pipe' = Append(pipe, k) PROVE Range(pipe) \subseteq Range(pipe')
    <3>1. pipe \in Seq(RedisCall)
      BY DEF TypeOK
    <3>2. Range(Append(pipe, k)) = Range(pipe) \cup {k}
      BY <3>1, RangeAppend
    <3> QED BY <2>2, <3>2
  <2> QED BY <2>1, <2>2 DEF OnlyAsks
<1>2. \A u : Guarded(u) => Guarded(u)'
  BY <1>1, GuardKept DEF OnlyAsks
<1> QED BY <1>2 DEF OnlyAsks, GuardsKept

(* Redis moves a command from pipe to replies. *)
LEMMA ExecuteRanges ==
    ASSUME TypeOK, NEW op, NEW result \in SUBSET Users, Execute(op, result)
    PROVE  /\ Range(pipe) = {Head(pipe)} \cup Range(pipe')
           /\ Range(replies') = Range(replies) \cup {[call |-> Head(pipe), ok |-> TRUE, result |-> result]}
           /\ Head(pipe).op = op
           /\ UNCHANGED <<events, up, crashes, errors>>
<1>1. Range(pipe) = {Head(pipe)} \cup Range(pipe')
  BY RangeHeadTail DEF TypeOK, Execute
<1> DEFINE r == [call |-> Head(pipe), ok |-> TRUE, result |-> result]
<1>2. r \in Reply
  BY HeadCall DEF Execute, Reply
<1>3. replies \in Seq(Reply) /\ replies' = Append(replies, r)
  BY DEF TypeOK, Execute
<1> HIDE DEF r
<1>4. Range(replies') = Range(replies) \cup {r}
  BY <1>2, <1>3, RangeAppend
<1> QED BY <1>1, <1>4 DEF Execute, process, r

LEMMA RedisKeeps == TypeOK /\ Redis => GuardsKept
<1> SUFFICES ASSUME TypeOK, Redis PROVE GuardsKept
  OBVIOUS
<1>1. PICK op \in {"hSet", "set", "hGetAll", "hDel"}, result \in SUBSET Users : Execute(op, result)
  <2>1. CASE RedisHSet
    BY <2>1, {} \in SUBSET Users DEF RedisHSet
  <2>2. CASE RedisSetEX
    BY <2>2, {} \in SUBSET Users DEF RedisSetEX
  <2>3. CASE RedisHGetAll
    BY <2>3 DEF RedisHGetAll, TypeOK
  <2>4. CASE RedisHDel
    <3>1. status \cap {Head(pipe).user} \in SUBSET Users
      BY DEF TypeOK
    <3> QED BY <2>4, <3>1 DEF RedisHDel
  <2> QED BY <2>1, <2>2, <2>3, <2>4 DEF Redis
<1> DEFINE r == [call |-> Head(pipe), ok |-> TRUE, result |-> result]
<1>2. /\ Range(pipe) = {Head(pipe)} \cup Range(pipe')
      /\ Range(replies') = Range(replies) \cup {r}
      /\ Head(pipe).op = op
      /\ UNCHANGED <<events, up, crashes, errors>>
  BY <1>1, ExecuteRanges
<1>3. r.ok /\ r.call = Head(pipe)
  OBVIOUS
<1> HIDE DEF r
<1>5. ASSUME NEW u, Guarded(u), Head(pipe).user # u \/ op \notin {"set", "hDel"}, ttlKey \subseteq ttlKey'
      PROVE  Guarded(u)'
  BY <1>2, <1>5 DEF Guarded, Issued, Unhandled
<1>6. ASSUME NEW u \in status', u \in status => Guarded(u)
      PROVE  Guarded(u)'
  <2>2. CASE RedisHSet
    <3>1. op = "hSet" /\ status' = status \cup {Head(pipe).user} /\ ttlKey' = ttlKey
      BY <1>2, <2>2 DEF RedisHSet, Execute
    <3>2. CASE u = Head(pipe).user
      <4>1. Head(pipe).task \in AllTasks
        BY <1>1, ExecuteType DEF AllTasks, RedisCall, SetCall, SnapshotCall, RemovalCall, ExpiryCall
      <4> QED BY <1>2, <1>3, <3>1, <3>2, <4>1 DEF Guarded, Unhandled
    <3>3. CASE u # Head(pipe).user
      BY <1>5, <1>6, <3>1, <3>3
    <3> QED BY <3>2, <3>3
  <2>3. CASE RedisSetEX
    <3>1. op = "set" /\ status' = status /\ ttlKey' = ttlKey \cup {Head(pipe).user}
      BY <1>2, <2>3 DEF RedisSetEX, Execute
    <3>2. CASE u = Head(pipe).user
      BY <3>1, <3>2 DEF Guarded
    <3>3. CASE u # Head(pipe).user
      BY <1>5, <1>6, <3>1, <3>3
    <3> QED BY <3>2, <3>3
  <2>4. CASE RedisHGetAll
    <3>1. op = "hGetAll" /\ status' = status /\ ttlKey' = ttlKey
      BY <1>2, <2>4 DEF RedisHGetAll, Execute, store
    <3> QED BY <1>5, <1>6, <3>1
  <2>5. CASE RedisHDel
    <3>1. status' = status \ {Head(pipe).user} /\ ttlKey' = ttlKey
      BY <2>5 DEF RedisHDel
    <3> QED BY <1>5, <1>6, <3>1
  <2> QED BY <2>2, <2>3, <2>4, <2>5 DEF Redis
<1> QED BY <1>6 DEF GuardsKept

(* The event loop takes the next answer. *)
LEMMA AnsweredRanges ==
    ASSUME TypeOK, NEW op, NEW task, Answered(op, task)
    PROVE  /\ Range(replies) = {Head(replies)} \cup Range(replies')
           /\ Head(replies).ok /\ Head(replies).call.op = op
<1>1. Range(replies) = {Head(replies)} \cup Range(Tail(replies))
  BY RangeHeadTail DEF TypeOK, Answered
<1> QED BY <1>1 DEF Answered

(* An answer other than hSet's guards nobody, so nothing is lost with it. *)
LEMMA AnswerKeeps ==
    ASSUME TypeOK, NEW op, NEW task, Answered(op, task), op # "hSet",
           UNCHANGED <<events, status, ttlKey>>,
           pipe' = pipe \/ \E k \in RedisCall : pipe' = Append(pipe, k)
    PROVE  GuardsKept
<1>1. Range(replies) = {Head(replies)} \cup Range(replies') /\ Head(replies).call.op = op
  BY AnsweredRanges
<1>2. Range(pipe) \subseteq Range(pipe')
  <2>1. CASE pipe' = pipe
    BY <2>1
  <2>2. ASSUME NEW k \in RedisCall, pipe' = Append(pipe, k) PROVE Range(pipe) \subseteq Range(pipe')
    <3>1. pipe \in Seq(RedisCall)
      BY DEF TypeOK
    <3>2. Range(Append(pipe, k)) = Range(pipe) \cup {k}
      BY <3>1, RangeAppend
    <3> QED BY <2>2, <3>2
  <2> QED BY <2>1, <2>2
<1>3. ASSUME NEW u, Guarded(u) PROVE Guarded(u)'
  BY <1>1, <1>2, <1>3 DEF Guarded, Issued, Unhandled
<1> QED BY <1>3 DEF GuardsKept

LEMMA HashIsSetKeeps == TypeOK /\ HashIsSet => GuardsKept
<1> SUFFICES ASSUME TypeOK, HashIsSet PROVE GuardsKept
  OBVIOUS
<1>1. PICK task \in {"subscribe", "pong"} : Answered("hSet", task)
  BY DEF HashIsSet
<1> DEFINE k == Head(replies).call
           next == [Head(replies).call EXCEPT !.op = "set"]
<1>2. Range(replies) = {Head(replies)} \cup Range(replies') /\ k.op = "hSet" /\ k \in RedisCall
  BY <1>1, AnsweredRanges, AnsweredType
<1>3. next \in RedisCall /\ next.op = "set" /\ next.user = k.user /\ next.task = k.task
  BY <1>2, NextCall
<1>4. k.task \in AllTasks
  BY <1>1, AnsweredType DEF AllTasks
<1>5. pipe' = Append(pipe, next) /\ pipe \in Seq(RedisCall)
  BY DEF HashIsSet, TypeOK
<1>6. UNCHANGED <<events, status, ttlKey>>
  BY DEF HashIsSet, store
<1> HIDE DEF next
<1>7. Range(pipe') = Range(pipe) \cup {next}
  BY <1>3, <1>5, RangeAppend
<1>8. ASSUME NEW u, Guarded(u) PROVE Guarded(u)'
  <2>1. CASE u = k.user
    BY <1>3, <1>4, <1>7, <2>1 DEF Guarded, Issued
  <2>2. CASE u # k.user
    BY <1>2, <1>6, <1>7, <1>8, <2>2 DEF Guarded, Issued, Unhandled
  <2> QED BY <2>1, <2>2
<1> QED BY <1>6, <1>8 DEF GuardsKept

LEMMA ReplyKeeps == TypeOK /\ ReplyHandled /\ up' => GuardsKept
<1> SUFFICES ASSUME TypeOK, ReplyHandled, up' PROVE GuardsKept
  OBVIOUS
<1> USE DEF gateway, store, process, history
<1>1. CASE HashIsSet
  BY <1>1, HashIsSetKeeps
<1>2. CASE StatusIsSet
  <2> DEFINE k == Head(replies).call
  <2>1. Answered("set", "subscribe")
    BY <1>2 DEF StatusIsSet
  <2>2. k.conn \in Conns /\ k.user \in Uid
    BY <2>1, AnsweredType
  <2>3. Call("hGetAll", "subscribe", k.conn, k.user, TRUE) \in RedisCall
    BY <2>2, CallTypes
  <2>4. pipe' = pipe \/ \E x \in RedisCall : pipe' = Append(pipe, x)
    BY <1>2, <2>3 DEF StatusIsSet, getOnlineUsers
  <2> QED BY <1>2, <2>1, <2>4, AnswerKeeps DEF StatusIsSet
<1>3. CASE PongIsStored
  BY <1>3, AnswerKeeps DEF PongIsStored
<1>4. CASE SnapshotIsRead
  BY <1>4, AnswerKeeps DEF SnapshotIsRead
<1>5. CASE StatusIsDeleted
  BY <1>5, AnswerKeeps DEF StatusIsDeleted
<1>6. CASE ExpiredIsDeleted
  BY <1>6, AnswerKeeps DEF ExpiredIsDeleted
<1>7. CASE CommandFailed
  <2>1. Range(replies) = {Head(replies)} \cup Range(Tail(replies)) /\ ~Head(replies).ok
    BY <1>7, RangeHeadTail DEF CommandFailed, TypeOK
  <2>2. replies' = Tail(replies) /\ UNCHANGED <<pipe, events, status, ttlKey>>
    BY <1>7 DEF CommandFailed, Exit
  <2>3. ASSUME NEW u, Guarded(u) PROVE Guarded(u)'
    BY <2>1, <2>2, <2>3 DEF Guarded, Issued, Unhandled
  <2> QED BY <2>2, <2>3 DEF GuardsKept
<1> QED BY <1>1, <1>2, <1>3, <1>4, <1>5, <1>6, <1>7 DEF ReplyHandled

(* The end of a key passes its guard to the notification, and that to the removal. *)
LEMMA ExpireKeeps ==
    ASSUME TypeOK, up, KeyspaceEvents, NEW w \in Users, Expire(w)
    PROVE  GuardsKept
<1>1. ttlKey' = ttlKey \ {w} /\ UNCHANGED <<pipe, replies, status>>
  BY DEF Expire
<1>2. Range(events') = Range(events) \cup {w}
  <2>1. events \in Seq(Users) /\ events' = Append(events, w)
    BY DEF Expire, TypeOK
  <2> QED BY <2>1, RangeAppend
<1>3. ASSUME NEW u, Guarded(u) PROVE Guarded(u)'
  BY <1>1, <1>2, <1>3 DEF Guarded, Issued, Unhandled
<1> QED BY <1>1, <1>3 DEF GuardsKept

LEMMA NotificationKeeps == TypeOK /\ handleRedisExpiration => GuardsKept
<1> SUFFICES ASSUME TypeOK, handleRedisExpiration PROVE GuardsKept
  OBVIOUS
<1> DEFINE k == Call("hDel", "expire", NoConn, Head(events), FALSE)
<1>1. events' = Tail(events) /\ UNCHANGED <<replies, status, ttlKey>>
  BY DEF handleRedisExpiration, store
<1>2. Range(events) = {Head(events)} \cup Range(events') /\ Head(events) \in Users
  BY <1>1, RangeHeadTail DEF handleRedisExpiration, TypeOK
<1>3. k \in RedisCall /\ k.op = "hDel" /\ k.task \in AllTasks /\ k.user = Head(events)
  BY <1>2, CallTypes DEF Call, AllTasks
<1>4. pipe \in Seq(RedisCall) /\ pipe' = Append(pipe, k)
  BY DEF handleRedisExpiration, delStatus, TypeOK
<1> HIDE DEF k
<1>5. Range(pipe') = Range(pipe) \cup {k}
  BY <1>3, <1>4, RangeAppend
<1>6. ASSUME NEW u, Guarded(u) PROVE Guarded(u)'
  BY <1>1, <1>2, <1>3, <1>5, <1>6 DEF Guarded, Issued, Unhandled
<1> QED BY <1>1, <1>6 DEF GuardsKept

(* While the process stays up, only a failing command can end a guard for nothing. *)
LEMMA GuardsStep ==
    ASSUME TypeOK, Next, up, up', ~RedisFails, KeyspaceEvents
    PROVE  GuardsKept
<1> USE DEF gateway, store, process, history
<1>1. ASSUME NEW c \in Conns, Client(c) PROVE GuardsKept
  BY <1>1, ClientsOnlyAsk, OnlyAsksKeeps
<1>2. ASSUME NEW m \in Message, handleMessage(m) \/ CheckDone(m) PROVE GuardsKept
  BY <1>2, RequestsOnlyAsk, OnlyAsksKeeps
<1>3. CASE Redis
  BY <1>3, RedisKeeps
<1>4. CASE ReplyHandled
  BY <1>4, ReplyKeeps
<1>5. CASE handleRedisExpiration
  BY <1>5, NotificationKeeps
<1>6. CASE ping
  <2>1. OnlyAsks
    BY <1>6 DEF ping, OnlyAsks
  <2> QED BY <2>1, OnlyAsksKeeps
<1>7. ASSUME NEW u \in Users, Expire(u) PROVE GuardsKept
  BY <1>7, ExpireKeeps
<1>8. CASE Crash \/ Restart
  BY <1>8 DEF Crash, Exit, Restart
<1> QED BY <1>1, <1>2, <1>3, <1>4, <1>5, <1>6, <1>7, <1>8 DEF Next

(* A failing command: the first one that waits is rejected, or the first answer is lost. *)
LEMMA FailedRanges ==
    ASSUME TypeOK, RedisFails
    PROVE  /\ UNCHANGED <<events, status, ttlKey>>
           /\ \/ /\ Head(pipe) \in RedisCall /\ Range(pipe) = {Head(pipe)} \cup Range(pipe')
                 /\ Range(replies') = Range(replies) \cup {[call |-> Head(pipe), ok |-> FALSE, result |-> {}]}
                 /\ KeyNotWritten(Head(pipe), "set")
              \/ /\ Head(replies) \in Reply /\ Head(replies).ok /\ pipe' = pipe
                 /\ \E rest : /\ Range(replies) = {Head(replies)} \cup rest
                             /\ Range(replies') = {[Head(replies) EXCEPT !.ok = FALSE]} \cup rest
                 /\ KeyNotWritten(Head(replies).call, "hSet")
<1>1. UNCHANGED <<events, status, ttlKey>>
  BY DEF RedisFails, store
<1>2. ASSUME pipe # <<>>, pipe' = Tail(pipe),
             replies' = Append(replies, [call |-> Head(pipe), ok |-> FALSE, result |-> {}])
      PROVE  /\ Head(pipe) \in RedisCall /\ Range(pipe) = {Head(pipe)} \cup Range(pipe')
             /\ Range(replies') = Range(replies) \cup {[call |-> Head(pipe), ok |-> FALSE, result |-> {}]}
  <2> DEFINE r == [call |-> Head(pipe), ok |-> FALSE, result |-> {}]
  <2>1. Head(pipe) \in RedisCall /\ Range(pipe) = {Head(pipe)} \cup Range(pipe')
    BY <1>2, RangeHeadTail DEF TypeOK
  <2>2. r \in Reply
    BY <2>1 DEF Reply
  <2>3. replies \in Seq(Reply) /\ replies' = Append(replies, r)
    BY <1>2 DEF TypeOK
  <2> HIDE DEF r
  <2>4. Range(replies') = Range(replies) \cup {r}
    BY <2>2, <2>3, RangeAppend
  <2> QED BY <2>1, <2>4 DEF r
<1>3. ASSUME replies # <<>>, replies' = <<[Head(replies) EXCEPT !.ok = FALSE]>> \o Tail(replies)
      PROVE  /\ Head(replies) \in Reply /\ Range(replies) = {Head(replies)} \cup Range(Tail(replies))
             /\ Range(replies') = {[Head(replies) EXCEPT !.ok = FALSE]} \cup Range(Tail(replies))
  <2> DEFINE r == [Head(replies) EXCEPT !.ok = FALSE]
  <2>1. Head(replies) \in Reply /\ Tail(replies) \in Seq(Reply) /\ Range(replies) = {Head(replies)} \cup Range(Tail(replies))
    BY <1>3, RangeHeadTail DEF TypeOK
  <2>2. r \in Reply
    BY <2>1 DEF Reply
  <2> HIDE DEF r
  <2> DEFINE first == <<r>>
  <2>3. first \in Seq(Reply) /\ Range(first) = {r}
    <3>1. first \in Seq(Reply) /\ DOMAIN first = {1} /\ first[1] = r
      BY <2>2
    <3> QED BY <3>1 DEF Range
  <2>4. replies' = first \o Tail(replies)
    BY <1>3 DEF r
  <2> HIDE DEF first
  <2>5. Range(first \o Tail(replies)) = Range(first) \cup Range(Tail(replies))
    <3>1. \A s, t \in Seq(Reply) : Range(s \o t) = Range(s) \cup Range(t)
      BY RangeJoin
    <3> QED BY <2>1, <2>3, <3>1
  <2> QED BY <2>1, <2>3, <2>4, <2>5 DEF r
<1> QED BY <1>1, <1>2, <1>3 DEF RedisFails

(* What becomes of the answers and of the process in a step. *)
LEMMA RepliesStep ==
    ASSUME TypeOK, Next
    PROVE  \/ Range(replies') \subseteq Range(replies)
           \/ /\ Redis
              /\ Range(replies') \subseteq Range(replies) \cup {[call |-> Head(pipe), ok |-> TRUE, result |-> r] : r \in SUBSET Users}
           \/ RedisFails /\ \A r \in Range(replies') : r.ok => r \in Range(replies)
<1> USE DEF gateway, store, process, history
<1> DEFINE Shrinks == Range(replies') \subseteq Range(replies)
<1>1. ASSUME NEW c \in Conns, Client(c) PROVE Shrinks
  BY <1>1, ClientsOnlyAsk DEF OnlyAsks
<1>2. ASSUME NEW m \in Message, handleMessage(m) \/ CheckDone(m) PROVE Shrinks
  BY <1>2, RequestsOnlyAsk DEF OnlyAsks
<1>3. ASSUME NEW op, NEW result \in SUBSET Users, Execute(op, result)
      PROVE  Range(replies') \subseteq Range(replies) \cup {[call |-> Head(pipe), ok |-> TRUE, result |-> r] : r \in SUBSET Users}
  BY <1>3, ExecuteRanges
<1>4. CASE Redis
  <2>1. {} \in SUBSET Users /\ status \in SUBSET Users /\ status \cap {Head(pipe).user} \in SUBSET Users
    BY DEF TypeOK
  <2> QED BY <1>3, <1>4, <2>1 DEF Redis, RedisHSet, RedisSetEX, RedisHGetAll, RedisHDel
<1>5. ASSUME Exit PROVE Shrinks
  <2>1. replies' = <<>> /\ Range(replies') = {}
    BY <1>5 DEF Exit, Range
  <2> QED BY <2>1
<1>6. CASE ReplyHandled
  <2>1. ASSUME replies # <<>>, replies' = Tail(replies) PROVE Shrinks
    BY <2>1, RangeHeadTail DEF TypeOK
  <2> QED BY <1>5, <1>6, <2>1 DEF ReplyHandled, HashIsSet, StatusIsSet, PongIsStored, SnapshotIsRead,
              StatusIsDeleted, ExpiredIsDeleted, CommandFailed, Answered
<1>7. CASE handleRedisExpiration \/ ping \/ Restart \/ \E u \in Users : Expire(u)
  BY <1>7 DEF handleRedisExpiration, ping, Restart, Expire
<1>8. ASSUME RedisFails, NEW r \in Range(replies'), r.ok PROVE r \in Range(replies)
  BY <1>8, FailedRanges DEF Reply
<1>9. CASE Crash
  BY <1>5, <1>9 DEF Crash
<1> QED BY <1>1, <1>2, <1>4, <1>6, <1>7, <1>8, <1>9 DEF Next

LEMMA CountsGrow ==
    ASSUME TypeOK, [Next]_vars
    PROVE  /\ errors' = errors \/ errors' = errors + 1
           /\ (crashes' = crashes /\ (up => up')) \/ crashes' = crashes + 1
<1> USE DEF process
<1>1. CASE Redis
  BY <1>1 DEF Redis, RedisHSet, RedisSetEX, RedisHGetAll, RedisHDel, Execute
<1>2. CASE ReplyHandled
  BY <1>2 DEF ReplyHandled, HashIsSet, StatusIsSet, PongIsStored, SnapshotIsRead, StatusIsDeleted,
       ExpiredIsDeleted, CommandFailed, Exit
<1>3. CASE handleRedisExpiration \/ ping \/ (\E u \in Users : Expire(u)) \/ RedisFails \/ Crash \/ Restart
  BY <1>3 DEF handleRedisExpiration, ping, Expire, RedisFails, Crash, Exit, Restart
<1>4. CASE UNCHANGED vars
  BY <1>4 DEF vars
<1> QED BY <1>1, <1>2, <1>3, <1>4, ClientsOnlyAsk, RequestsOnlyAsk DEF Next, OnlyAsks

LEMMA AnsweredStep == TypeOK /\ AnsweredSoFar /\ [Next]_vars => AnsweredSoFar'
<1> SUFFICES ASSUME TypeOK, AnsweredSoFar, [Next]_vars, errors' = 0, NEW r \in Range(replies') PROVE r.ok
  BY DEF AnsweredSoFar
<1>1. errors = 0
  BY CountsGrow DEF TypeOK
<1>2. CASE UNCHANGED vars
  BY <1>1, <1>2 DEF vars, AnsweredSoFar
<1>3. CASE Next
  <2>1. ~RedisFails
    BY <1>1 DEF RedisFails
  <2>2. r \in Range(replies) \/ \E q \in SUBSET Users : r = [call |-> Head(pipe), ok |-> TRUE, result |-> q]
    BY <1>3, <2>1, RepliesStep
  <2> QED BY <1>1, <2>2 DEF AnsweredSoFar
<1> QED BY <1>2, <1>3

LEMMA UpStep == TypeOK /\ UpSoFar /\ [Next]_vars => UpSoFar'
BY CountsGrow DEF TypeOK, UpSoFar

LEMMA GhostFreeStep == GhostFree /\ [Next]_vars => GhostFree'
<1> SUFFICES ASSUME GhostFree, [Next]_vars PROVE GhostFree'
  OBVIOUS
<1>1. TypeOK' /\ AnsweredSoFar' /\ UpSoFar'
  BY TypeStep, AnsweredStep, UpStep DEF GhostFree
<1>2. CASE UNCHANGED vars
  BY <1>1, <1>2 DEF vars, store, process, GhostFree, NoGhostOnline, Guarded, Issued, Unhandled
<1>3. CASE Next
  <2> SUFFICES ASSUME crashes' = 0, errors' = 0, KeyspaceEvents, NEW u \in status' PROVE Guarded(u)'
    BY <1>1 DEF GhostFree, NoGhostOnline
  <2>1. crashes = 0 /\ errors = 0
    BY <1>3, CountsGrow DEF GhostFree, TypeOK
  <2>2. up /\ up'
    BY <1>1, <2>1 DEF GhostFree, UpSoFar
  <2>3. ~RedisFails
    BY <2>1 DEF RedisFails
  <2>4. GuardsKept
    BY <1>3, <2>2, <2>3, GuardsStep DEF GhostFree
  <2> QED BY <2>1, <2>4 DEF GuardsKept, GhostFree, NoGhostOnline
<1> QED BY <1>2, <1>3

(* Until the first exit or failed command, and with notifications switched on,   *)
(* whoever is in the hash has a key that ends, or is about to get one, or is     *)
(* about to be removed: setStatus and handleRedisExpiration never leave a field  *)
(* of stay:user:status that nothing will ever remove.                            *)
THEOREM NoGhosts == Spec => []NoGhostOnline
<1>1. Init => GhostFree
  <2> SUFFICES ASSUME Init PROVE GhostFree
    OBVIOUS
  <2>1. Range(replies) = {}
    BY DEF Init, Range
  <2> QED BY <2>1, InitType DEF Init, GhostFree, UpSoFar, AnsweredSoFar, NoGhostOnline
<1>2. GhostFree => NoGhostOnline
  BY DEF GhostFree
<1> QED BY <1>1, <1>2, GhostFreeStep, PTL DEF Spec

-----------------------------------------------------------------------------
(* Tracked users are guarded, exits and failed commands included.          *)

Uids(map) == {map[c].userUid : c \in DOMAIN map}
\* Users that are tracked, or will be when the answer to a set is handled.
Adopters == Uids(clients) \cup {r.call.user : r \in {q \in Range(replies) : q.ok /\ q.call.op = "set"}}
DownIsIdle == ~up => DOMAIN clients = {} /\ pipe = <<>> /\ replies = <<>>
\* What TrackedAreGuarded allows.
Safe(u) == Guarded(u) \/ u \in keyless \/ ExitIsComing
AdoptersSafe == KeyspaceEvents => \A u \in Adopters \cap status : Safe(u)
Adopted == TypeOK /\ DownIsIdle /\ AdoptersSafe

(* What the helpers on the Map do to its users. *)
LEMMA MapUids ==
    /\ \A c : DOMAIN Untrack(c) = DOMAIN clients \ {c} /\ \A d \in DOMAIN Untrack(c) : Untrack(c)[d] = clients[d]
    /\ \A c : Uids(Untrack(c)) \subseteq Uids(clients)
    /\ \A c, u : DOMAIN Track(c, u) = DOMAIN clients \cup {c}
    /\ \A c, u : Uids(Track(c, u)) \subseteq Uids(clients) \cup {u}
<1>1. ASSUME NEW c
      PROVE  DOMAIN Untrack(c) = DOMAIN clients \ {c} /\ \A d \in DOMAIN Untrack(c) : Untrack(c)[d] = clients[d]
  BY DEF Untrack, Restrict
<1>2. \A c, u : DOMAIN Track(c, u) = DOMAIN clients \cup {c}
  BY DEF Track
<1>3. \A c : Uids(Untrack(c)) \subseteq Uids(clients)
  BY <1>1 DEF Uids
<1>4. ASSUME NEW c, NEW u, NEW x \in Uids(Track(c, u)) PROVE x \in Uids(clients) \cup {u}
  <2>1. PICK d \in DOMAIN Track(c, u) : x = Track(c, u)[d].userUid
    BY <1>4 DEF Uids
  <2>2. d \in DOMAIN clients \cup {c} /\ Track(c, u)[d] = IF d = c THEN [userUid |-> u, isAlive |-> TRUE] ELSE clients[d]
    BY <2>1 DEF Track
  <2>3. x = u \/ (d \in DOMAIN clients /\ x = clients[d].userUid)
    BY <2>1, <2>2
  <2> QED BY <2>3 DEF Uids
<1> QED BY <1>1, <1>2, <1>3, <1>4

LEMMA ExitEmpties == Exit => DOMAIN clients' = {} /\ pipe' = <<>> /\ replies' = <<>> /\ Range(replies') = {}
<1> SUFFICES ASSUME Exit PROVE DOMAIN clients' = {} /\ pipe' = <<>> /\ replies' = <<>> /\ Range(replies') = {}
  OBVIOUS
<1>1. clients' = [c \in {} |-> [userUid |-> NoUser, isAlive |-> TRUE]] /\ pipe' = <<>> /\ replies' = <<>>
  BY DEF Exit
<1> QED BY <1>1 DEF Range

\* A step that neither ends nor starts the process, which must run for most steps.
LEMMA Running ==
    ASSUME TypeOK, DownIsIdle, [Next]_vars
    PROVE  \/ up /\ up'
           \/ Exit
           \/ UNCHANGED <<clients, pipe, replies, events, status>> /\ (up' = up \/ ~up)
<1> USE DEF process, gateway, store
<1>1. ASSUME NEW c \in Conns, Client(c) PROVE up /\ up'
  <2>1. up
    BY <1>1 DEF Client, handleConnection, handleDisconnect, BadRequest, SubscribeGuest,
       UnsubscribeGuest, pong, MaySend
  <2> QED BY <1>1, <2>1, ClientsOnlyAsk DEF OnlyAsks
<1>2. ASSUME NEW m \in Message, handleMessage(m) \/ CheckDone(m) PROVE up /\ up'
  BY <1>2 DEF handleMessage, CheckDone, CheckRefuses, subscribeMessage, unsubscribeMessage, MaySend
<1>3. CASE Redis
  BY <1>3 DEF Redis, RedisHSet, RedisSetEX, RedisHGetAll, RedisHDel, Execute, DownIsIdle, TypeOK
<1>4. CASE ReplyHandled
  BY <1>4 DEF ReplyHandled, HashIsSet, StatusIsSet, PongIsStored, SnapshotIsRead, StatusIsDeleted,
       ExpiredIsDeleted, CommandFailed, Answered
<1>5. CASE handleRedisExpiration \/ ping \/ Crash
  BY <1>5 DEF handleRedisExpiration, ping, Crash
<1>6. ASSUME NEW u \in Users, Expire(u)
      PROVE  (up /\ up') \/ UNCHANGED <<up, clients, pipe, replies, events, status>>
  BY <1>6 DEF Expire, TypeOK
<1>7. CASE RedisFails
  BY <1>7 DEF RedisFails, DownIsIdle, TypeOK
<1>8. CASE Restart
  BY <1>8 DEF Restart
<1>9. CASE UNCHANGED vars
  BY <1>9 DEF vars
<1> QED BY <1>1, <1>2, <1>3, <1>4, <1>5, <1>6, <1>7, <1>8, <1>9 DEF Next

LEMMA DownStep == TypeOK /\ DownIsIdle /\ [Next]_vars => DownIsIdle'
BY Running, ExitEmpties DEF DownIsIdle

\* Only a set that was executed, which leaves a key, makes a further user one that is adopted.
LEMMA AdoptersStep ==
    ASSUME TypeOK, Next
    PROVE  Adopters' \subseteq Adopters \cup {NoUser} \cup ttlKey'
<1> USE DEF gateway, store
<1>1. Uids(clients') \subseteq Adopters \cup {NoUser}
  <2>1. CASE UNCHANGED clients
    BY <2>1 DEF Adopters
  <2>2. ASSUME NEW c \in Conns, Client(c) PROVE Uids(clients') \subseteq Uids(clients) \cup {NoUser}
    <3>1. CASE pong(c)
      <4>1. DOMAIN clients' = DOMAIN clients /\ \A d \in DOMAIN clients : clients'[d].userUid = clients[d].userUid
        BY <3>1 DEF pong, TypeOK, TrackedClient
      <4> QED BY <4>1 DEF Uids
    <3>2. CASE handleConnection(c) \/ BadRequest(c)
      BY <3>2 DEF handleConnection, BadRequest
    <3> QED BY <2>2, <3>1, <3>2, MapUids
            DEF Client, handleDisconnect, SubscribeGuest, UnsubscribeGuest, Acknowledge
  <2>3. ASSUME NEW m \in Message, handleMessage(m) \/ CheckDone(m) PROVE Uids(clients') \subseteq Uids(clients)
    BY <2>3, MapUids DEF handleMessage, CheckDone, CheckRefuses, subscribeMessage, unsubscribeMessage,
       Acknowledge
  <2>4. CASE StatusIsSet
    <3>1. Answered("set", "subscribe") /\ clients' = Track(Head(replies).call.conn, Head(replies).call.user)
      BY <2>4 DEF StatusIsSet
    <3>2. Head(replies) \in Range(replies) /\ Head(replies).ok /\ Head(replies).call.op = "set"
      BY <3>1, RangeHeadTail DEF Answered, TypeOK
    <3> QED BY <3>1, <3>2, MapUids DEF Adopters
  <2>5. CASE StatusIsDeleted
    BY <2>5, MapUids DEF StatusIsDeleted, Acknowledge, Adopters
  <2>6. CASE ping
    <3>1. DOMAIN clients' \subseteq DOMAIN clients /\ \A d \in DOMAIN clients' : clients'[d].userUid = clients[d].userUid
      BY <2>6 DEF ping, TypeOK, TrackedClient
    <3> QED BY <3>1 DEF Uids, Adopters
  <2>7. ASSUME Exit PROVE Uids(clients') = {}
    BY <2>7, ExitEmpties DEF Uids
  <2>8. CASE CommandFailed \/ Crash
    BY <2>1, <2>7, <2>8 DEF CommandFailed, Crash
  <2>9. CASE Redis \/ HashIsSet \/ PongIsStored \/ SnapshotIsRead \/ ExpiredIsDeleted \/ handleRedisExpiration
             \/ (\E u \in Users : Expire(u)) \/ RedisFails \/ Restart
    BY <2>1, <2>9 DEF Redis, RedisHSet, RedisSetEX, RedisHGetAll, RedisHDel, Execute, HashIsSet,
       PongIsStored,
         SnapshotIsRead, ExpiredIsDeleted, handleRedisExpiration, Expire, RedisFails, Restart
  <2> QED BY <2>2, <2>3, <2>4, <2>5, <2>6, <2>8, <2>9 DEF Next, ReplyHandled, Adopters
<1>2. ASSUME NEW r \in Range(replies'), r.ok, r.call.op = "set"
      PROVE  r \in Range(replies) \/ r.call.user \in ttlKey'
  <2>1. CASE ~Redis
    BY <1>2, <2>1, RepliesStep
  <2>2. CASE RedisSetEX
    <3>1. Range(replies') = Range(replies) \cup {[call |-> Head(pipe), ok |-> TRUE, result |-> {}]}
      BY <2>2, ExecuteRanges, {} \in SUBSET Users DEF RedisSetEX
    <3>2. ttlKey' = ttlKey \cup {Head(pipe).user}
      BY <2>2 DEF RedisSetEX
    <3> QED BY <1>2, <3>1, <3>2
  <2>3. CASE Redis /\ ~RedisSetEX
    <3>1. Head(pipe).op # "set"
      BY <2>3 DEF Redis, RedisHSet, RedisHGetAll, RedisHDel, Execute
    <3>2. ~RedisFails
      <4>1. errors' = errors
        BY <2>3 DEF Redis, RedisHSet, RedisSetEX, RedisHGetAll, RedisHDel, Execute, process
      <4> QED BY <4>1 DEF RedisFails, TypeOK
    <3>3. r \in Range(replies) \/ \E q \in SUBSET Users : r = [call |-> Head(pipe), ok |-> TRUE, result |-> q]
      BY <1>2, <3>2, RepliesStep
    <3> QED BY <1>2, <3>1, <3>3
  <2> QED BY <2>1, <2>2, <2>3
<1> QED BY <1>1, <1>2 DEF Adopters

(* A failing command takes a guard away only from whom it leaves without a key in the *)
(* catch of a pong, or the process is about to exit.                                 *)
LEMMA FailureKeepsSafe ==
    ASSUME TypeOK, RedisFails, NEW u \in status, Safe(u)
    PROVE  Safe(u)'
<1>1. UNCHANGED <<events, status, ttlKey>>
  BY FailedRanges
<1>2. ASSUME u \in ttlKey PROVE Safe(u)'
  BY <1>1, <1>2 DEF Safe, Guarded
<1>3. ASSUME u \notin ttlKey,
             Head(pipe) \in RedisCall, Range(pipe) = {Head(pipe)} \cup Range(pipe'),
             Range(replies') = Range(replies) \cup {[call |-> Head(pipe), ok |-> FALSE, result |-> {}]},
             KeyNotWritten(Head(pipe), "set")
      PROVE  Safe(u)'
  <2>1. Head(pipe).task = "pong" => Head(pipe).op \in {"hSet", "set"}
    BY <1>3 DEF RedisCall, SetCall, SnapshotCall, RemovalCall, ExpiryCall
  <2>2. ASSUME Head(pipe).task # "pong" PROVE ExitIsComing'
    <3> DEFINE r == [call |-> Head(pipe), ok |-> FALSE, result |-> {}]
    <3>1. r \in Range(replies') /\ ~r.ok /\ r.call = Head(pipe)
      BY <1>3
    <3> HIDE DEF r
    <3> QED BY <2>2, <3>1 DEF ExitIsComing
  <2>3. ASSUME Head(pipe).task = "pong", Head(pipe).op = "set", Head(pipe).user = u PROVE u \in keyless'
    BY <1>3, <2>3 DEF KeyNotWritten
  <2>4. keyless \subseteq keyless'
    BY <1>3 DEF KeyNotWritten
  <2>5. ExitIsComing => ExitIsComing'
    BY <1>3 DEF ExitIsComing
  <2>6. CASE Guarded(u)
    BY <1>1, <1>3, <2>1, <2>2, <2>3, <2>6 DEF Safe, Guarded, Issued, Unhandled
  <2> QED BY <2>4, <2>5, <2>6 DEF Safe
<1>4. ASSUME u \notin ttlKey, Head(replies) \in Reply, Head(replies).ok, pipe' = pipe, NEW rest,
             Range(replies) = {Head(replies)} \cup rest,
             Range(replies') = {[Head(replies) EXCEPT !.ok = FALSE]} \cup rest,
             KeyNotWritten(Head(replies).call, "hSet")
      PROVE  Safe(u)'
  <2> DEFINE r == [Head(replies) EXCEPT !.ok = FALSE]
  <2>1. r.call = Head(replies).call /\ ~r.ok
    BY <1>4 DEF Reply
  <2> HIDE DEF r
  <2>2. ASSUME Head(replies).call.task # "pong" PROVE ExitIsComing'
    BY <1>4, <2>1, <2>2 DEF ExitIsComing, r
  <2>3. ASSUME Head(replies).call.task = "pong", Head(replies).call.op = "hSet", Head(replies).call.user = u
        PROVE  u \in keyless'
    BY <1>4, <2>3 DEF KeyNotWritten
  <2>4. keyless \subseteq keyless'
    BY <1>4 DEF KeyNotWritten
  <2>5. ExitIsComing => ExitIsComing'
    BY <1>4 DEF ExitIsComing
  <2>6. CASE Guarded(u)
    BY <1>1, <1>4, <2>2, <2>3, <2>6 DEF Safe, Guarded, Issued, Unhandled
  <2> QED BY <2>4, <2>5, <2>6 DEF Safe
<1> QED BY <1>2, <1>3, <1>4, FailedRanges

(* The answer that ends the process waits until it does. *)
LEMMA ExitStays ==
    ASSUME TypeOK, Next, ~RedisFails, up', ExitIsComing
    PROVE  ExitIsComing'
<1> USE DEF gateway, store, process, history
<1>1. ASSUME Range(replies) \subseteq Range(replies') PROVE ExitIsComing'
  BY <1>1 DEF ExitIsComing
<1>2. ASSUME NEW c \in Conns, Client(c) PROVE replies' = replies
  BY <1>2, ClientsOnlyAsk DEF OnlyAsks
<1>3. ASSUME NEW m \in Message, handleMessage(m) \/ CheckDone(m) PROVE replies' = replies
  BY <1>3, RequestsOnlyAsk DEF OnlyAsks
<1>4. ASSUME NEW op, NEW result \in SUBSET Users, Execute(op, result) PROVE Range(replies) \subseteq Range(replies')
  BY <1>4, ExecuteRanges
<1>5. CASE Redis
  <2>1. {} \in SUBSET Users /\ status \in SUBSET Users /\ status \cap {Head(pipe).user} \in SUBSET Users
    BY DEF TypeOK
  <2> QED BY <1>1, <1>4, <1>5, <2>1 DEF Redis, RedisHSet, RedisSetEX, RedisHGetAll, RedisHDel
<1>6. ASSUME replies # <<>>, replies' = Tail(replies), Head(replies).ok \/ Head(replies).call.task = "pong"
      PROVE  ExitIsComing'
  <2>1. Range(replies) = {Head(replies)} \cup Range(replies')
    BY <1>6, RangeHeadTail DEF TypeOK
  <2> QED BY <1>6, <2>1 DEF ExitIsComing
<1>7. CASE ReplyHandled
  <2>1. CASE CommandFailed
    BY <1>6, <2>1 DEF CommandFailed, Exit
  <2>2. ASSUME NEW op, NEW task, Answered(op, task) PROVE ExitIsComing'
    BY <1>6, <2>2 DEF Answered
  <2> QED BY <1>7, <2>1, <2>2 DEF ReplyHandled, HashIsSet, StatusIsSet, PongIsStored, SnapshotIsRead,
             StatusIsDeleted, ExpiredIsDeleted
<1>8. CASE handleRedisExpiration \/ ping \/ Restart \/ \E w \in Users : Expire(w)
  BY <1>1, <1>8 DEF handleRedisExpiration, ping, Restart, Expire
<1>9. CASE Crash
  BY <1>9 DEF Crash, Exit
<1> QED BY <1>1, <1>2, <1>3, <1>5, <1>7, <1>8, <1>9 DEF Next

(* Who was left without a key stays so until a key is written or the field removed. *)
LEMMA KeylessStep ==
    ASSUME TypeOK, Next, ~RedisFails, up', NEW u \in keyless
    PROVE  u \in keyless' \/ u \in ttlKey' \/ u \notin status'
<1> USE DEF gateway, store, process, history
<1>1. ASSUME NEW c \in Conns, Client(c) PROVE keyless' = keyless
  BY <1>1 DEF Client, handleConnection, handleDisconnect, BadRequest, SubscribeGuest, UnsubscribeGuest, pong
<1>2. ASSUME NEW m \in Message, handleMessage(m) \/ CheckDone(m) PROVE keyless' = keyless
  BY <1>2 DEF handleMessage, CheckDone, CheckRefuses, subscribeMessage, unsubscribeMessage
<1>3. CASE Redis
  BY <1>3 DEF Redis, RedisHSet, RedisSetEX, RedisHGetAll, RedisHDel
<1>4. CASE ReplyHandled
  BY <1>4 DEF ReplyHandled, HashIsSet, StatusIsSet, PongIsStored, SnapshotIsRead, StatusIsDeleted,
     ExpiredIsDeleted, CommandFailed, Exit
<1>5. CASE handleRedisExpiration \/ ping \/ Restart \/ Crash \/ \E w \in Users : Expire(w)
  BY <1>5 DEF handleRedisExpiration, ping, Restart, Expire, Crash, Exit
<1> QED BY <1>1, <1>2, <1>3, <1>4, <1>5 DEF Next

(* While the process stays up, who was safe in the hash remains so. *)
LEMMA SafeStep ==
    ASSUME TypeOK, Next, up, up', KeyspaceEvents, NEW u, u \in status => Safe(u), u \in status'
    PROVE  Safe(u)'
<1>1. CASE RedisFails
  <2>1. status' = status
    BY <1>1, FailedRanges
  <2> QED BY <1>1, <2>1, FailureKeepsSafe
<1>2. CASE ~RedisFails
  <2>1. CASE u \in status => Guarded(u)
    <3>1. GuardsKept
      BY <1>2, GuardsStep
    <3> QED BY <2>1, <3>1 DEF GuardsKept, Safe
  <2>2. CASE ExitIsComing
    BY <1>2, <2>2, ExitStays DEF Safe
  <2>3. CASE u \in keyless
    BY <1>2, <2>3, KeylessStep DEF Safe, Guarded
  <2> QED BY <2>1, <2>2, <2>3 DEF Safe
<1> QED BY <1>1, <1>2

LEMMA AdoptedStep == Adopted /\ [Next]_vars => Adopted'
<1> SUFFICES ASSUME Adopted, [Next]_vars PROVE AdoptersSafe'
  BY TypeStep, DownStep DEF Adopted
<1>1. CASE UNCHANGED vars
  BY <1>1 DEF vars, gateway, store, process, history, Adopted, AdoptersSafe, Adopters, Uids, Safe,
     ExitIsComing, Guarded, Issued, Unhandled
<1>2. CASE Next
  <2> SUFFICES ASSUME KeyspaceEvents, NEW u \in Adopters' \cap status' PROVE Safe(u)'
    BY DEF AdoptersSafe
  <2>1. u \in Users /\ u # NoUser
    BY TypeStep, NoUserAssumption DEF Adopted, TypeOK
  <2>2. u \in ttlKey' => Safe(u)'
    BY DEF Safe, Guarded
  <2>3. u \in Adopters \/ u \in ttlKey'
    BY <1>2, <2>1, AdoptersStep DEF Adopted
  <2>4. CASE up /\ up'
    BY <1>2, <2>2, <2>3, <2>4, SafeStep DEF Adopted, AdoptersSafe
  <2>5. CASE Exit
    BY <2>5, ExitEmpties DEF Adopters, Uids
  <2>6. CASE UNCHANGED <<clients, pipe, replies, events, status>> /\ ~up
    BY <2>6 DEF Adopted, DownIsIdle, Adopters, Uids, Range
  <2> QED BY <2>4, <2>5, <2>6, Running DEF Adopted
<1> QED BY <1>1, <1>2

(* Whatever exits and failed commands there were and whatever an earlier process left   *)
(* in the hash: a tracked client's user that the hash shows as online has a key that    *)
(* ends or is on its way to one or out of the hash (message 33 tracks a client only     *)
(* after its key was set), or a failed pong that was caught left him without a key      *)
(* (message 129-131), or the process is about to exit from another failure.             *)
THEOREM TrackedGuarded == Spec => []TrackedAreGuarded
<1>1. Init => Adopted
  <2> SUFFICES ASSUME Init PROVE Adopted
    OBVIOUS
  <2>1. Range(replies) = {} /\ status = {} /\ up
    BY DEF Init, Range
  <2> QED BY <2>1, InitType DEF Adopted, DownIsIdle, AdoptersSafe
<1>2. Adopted => TrackedAreGuarded
  BY DEF Adopted, AdoptersSafe, Safe, Adopters, Uids, TrackedAreGuarded
<1> QED BY <1>1, <1>2, AdoptedStep, PTL DEF Spec
=============================================================================
