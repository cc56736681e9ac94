----------------------- MODULE UserStatusViewProofs -----------------------
(***************************************************************************)
(* Theorems about UserStatus, with the same generality: an acknowledged    *)
(* unsubscribe is for good, and what the tracked clients were told.        *)
(***************************************************************************)
EXTENDS UserStatusProofs

-----------------------------------------------------------------------------
(* An acknowledged unsubscribe is final for a client that waits for its     *)
(* answers.                                                                *)

Requests == {"subscribe", "unsubscribe"}
\* A request of c of that type is being worked on.
Works(c, type) ==
    \/ \E m \in checks : m.conn = c /\ m.type = type
    \/ \E k \in Calls : k.conn = c /\ k.task = type
Orderly ==
    ~Pipelined => \A c \in Conns :
        /\ ~(Works(c, "subscribe") /\ Works(c, "unsubscribe"))
        /\ acked[c] => c \notin DOMAIN clients /\ ~Works(c, "subscribe")

NoNewWork == \A c \in Conns, type \in Requests : Works(c, type)' => Works(c, type)

(* What becomes of the commands in a step. *)
LEMMA CallsIssued ==
    ASSUME TypeOK, NEW k \in RedisCall, pipe' = Append(pipe, k), Range(replies') \subseteq Range(replies)
    PROVE  Calls' \subseteq Calls \cup {k}
<1>1. Range(pipe') = Range(pipe) \cup {k}
  BY RangeAppend DEF TypeOK
<1> QED BY <1>1 DEF Calls

LEMMA CallsOfNone ==
    ASSUME Range(pipe') \subseteq Range(pipe), Range(replies') \subseteq Range(replies)
    PROVE  Calls' \subseteq Calls
BY DEF Calls

LEMMA SameWork ==
    ASSUME Calls' \subseteq Calls, checks' \subseteq checks
    PROVE  NoNewWork
BY DEF NoNewWork, Works

LEMMA RedisWork == TypeOK /\ Redis => NoNewWork
<1> SUFFICES ASSUME TypeOK, Redis PROVE NoNewWork
  OBVIOUS
<1>1. ASSUME NEW op, NEW result \in SUBSET Users, Execute(op, result) PROVE NoNewWork
  <2>1. /\ Range(pipe) = {Head(pipe)} \cup Range(pipe')
        /\ Range(replies') = Range(replies) \cup {[call |-> Head(pipe), ok |-> TRUE, result |-> result]}
    BY <1>1, ExecuteRanges
  <2>2. \A r \in Range(replies') : r \in Range(replies) \/ r.call = Head(pipe)
    BY <2>1
  <2>3. Calls' \subseteq Calls
    BY <2>1, <2>2 DEF Calls
  <2>4. checks' = checks
    BY <1>1 DEF Execute, gateway
  <2> QED BY <2>3, <2>4, SameWork
<1>2. {} \in SUBSET Users /\ status \in SUBSET Users /\ status \cap {Head(pipe).user} \in SUBSET Users
  BY DEF TypeOK
<1> QED BY <1>1, <1>2 DEF Redis, RedisHSet, RedisSetEX, RedisHGetAll, RedisHDel

LEMMA ReplyWork == TypeOK /\ ReplyHandled => NoNewWork
<1> SUFFICES ASSUME TypeOK, ReplyHandled PROVE NoNewWork
  OBVIOUS
<1> USE DEF gateway
<1> DEFINE k == Head(replies).call
<1>1. ASSUME replies # <<>> PROVE k \in Calls /\ Range(Tail(replies)) \subseteq Range(replies)
  <2>1. Head(replies) \in Range(replies) /\ Range(Tail(replies)) \subseteq Range(replies)
    BY <1>1, RangeHeadTail DEF TypeOK
  <2> QED BY <2>1 DEF Calls
<1>2. ASSUME NEW op, NEW task, Answered(op, task), checks' = checks, pipe' = pipe PROVE NoNewWork
  BY <1>1, <1>2, CallsOfNone, SameWork DEF Answered
<1>3. ASSUME NEW op, NEW task, Answered(op, task), checks' = checks,
             NEW x \in RedisCall, x.conn = k.conn, x.task = k.task, pipe' = Append(pipe, x)
      PROVE  NoNewWork
  <2>1. k \in Calls /\ Calls' \subseteq Calls \cup {x}
    BY <1>1, <1>3, CallsIssued DEF Answered
  <2> QED BY <1>3, <2>1 DEF NoNewWork, Works
<1>4. CASE HashIsSet
  <2>1. PICK task \in {"subscribe", "pong"} : Answered("hSet", task)
    BY <1>4 DEF HashIsSet
  <2>2. k \in RedisCall /\ k.op = "hSet"
    BY <2>1, AnsweredType
  <2>3. k \in SetCall
    BY <2>2 DEF RedisCall, SetCall, SnapshotCall, RemovalCall, ExpiryCall
  <2>4. [k EXCEPT !.op = "set"].conn = k.conn /\ [k EXCEPT !.op = "set"].task = k.task
    BY <2>3 DEF SetCall
  <2>5. [k EXCEPT !.op = "set"] \in RedisCall
    BY <2>2, NextCall
  <2>6. checks' = checks /\ pipe' = Append(pipe, [k EXCEPT !.op = "set"])
    BY <1>4 DEF HashIsSet
  <2> QED BY <1>3, <2>1, <2>4, <2>5, <2>6
<1>5. CASE StatusIsSet
  <2> DEFINE x == Call("hGetAll", "subscribe", k.conn, k.user, TRUE)
  <2>1. Answered("set", "subscribe") /\ checks' = checks
    BY <1>5 DEF StatusIsSet
  <2>2. x \in RedisCall /\ x.conn = k.conn /\ x.task = k.task
    BY <2>1, AnsweredType, CallTypes DEF Call
  <2>3. pipe' = pipe \/ pipe' = Append(pipe, x)
    BY <1>5 DEF StatusIsSet, getOnlineUsers
  <2> QED BY <1>2, <1>3, <2>1, <2>2, <2>3
<1>6. CASE PongIsStored
  BY <1>2, <1>6 DEF PongIsStored
<1>7. CASE SnapshotIsRead
  BY <1>2, <1>7 DEF SnapshotIsRead
<1>8. CASE StatusIsDeleted
  BY <1>2, <1>8 DEF StatusIsDeleted
<1>9. CASE ExpiredIsDeleted
  BY <1>2, <1>9 DEF ExpiredIsDeleted
<1>10. ASSUME Exit PROVE NoNewWork
  <2>1. Range(pipe') = {} /\ Range(replies') = {} /\ checks' = {}
    BY <1>10, ExitEmpties DEF Exit, Range
  <2> QED BY <2>1, CallsOfNone, SameWork
<1>11. CASE CommandFailed
  BY <1>1, <1>10, <1>11, CallsOfNone, SameWork DEF CommandFailed
<1> QED BY <1>4, <1>5, <1>6, <1>7, <1>8, <1>9, <1>11 DEF ReplyHandled

LEMMA RangePutFirst ==
    ASSUME NEW S, NEW x \in S, NEW t \in Seq(S)
    PROVE  Range(<<x>> \o t) = {x} \cup Range(t)
<1> DEFINE first == <<x>>
<1>1. first \in Seq(S) /\ Range(first) = {x}
  BY DEF Range
<1> HIDE DEF first
<1>2. Range(first \o t) = Range(first) \cup Range(t)
  BY <1>1, RangeJoin
<1> QED BY <1>1, <1>2 DEF first

\* Only a request gives a client new work.
LEMMA WorkStep ==
    ASSUME TypeOK, [Next]_vars
    PROVE  \/ NoNewWork
           \/ \E c \in Conns : SubscribeGuest(c)
           \/ \E m \in Message : handleMessage(m)
<1> USE DEF gateway
<1>1. ASSUME NEW c \in Conns, Client(c), ~SubscribeGuest(c) PROVE NoNewWork
  <2>1. CASE pong(c)
    <3> DEFINE x == Call("hSet", "pong", c, clients[c].userUid, FALSE)
    <3>1. checks' = checks /\ replies' = replies
      BY <2>1 DEF pong
    <3>2. CASE pipe' = pipe
      BY <3>1, <3>2, CallsOfNone, SameWork
    <3>3. CASE pipe' # pipe
      <4>1. clients[c].userUid \in Users /\ pipe' = Append(pipe, x)
        BY <2>1, <3>3 DEF pong, hSet, TypeOK, TrackedClient, Uid
      <4>2. x \in RedisCall /\ x.task = "pong"
        BY <4>1, CallTypes DEF Call
      <4>3. Calls' \subseteq Calls \cup {x}
        BY <3>1, <4>1, <4>2, CallsIssued
      <4> QED BY <3>1, <4>2, <4>3 DEF NoNewWork, Works, Requests
    <3> QED BY <3>2, <3>3
  <2>2. CASE ~pong(c)
    <3>1. checks' = checks /\ pipe' = pipe /\ replies' = replies
      BY <1>1, <2>2 DEF Client, handleConnection, handleDisconnect, BadRequest, UnsubscribeGuest
    <3> QED BY <3>1, CallsOfNone, SameWork
  <2> QED BY <2>1, <2>2
<1>2. ASSUME NEW m \in Message, CheckDone(m) PROVE NoNewWork
  <2>1. m \in checks /\ checks' = checks \ {m} /\ replies' = replies
    BY <1>2 DEF CheckDone, CheckRefuses, subscribeMessage, unsubscribeMessage
  <2>2. CASE pipe' = pipe
    BY <2>1, <2>2, CallsOfNone, SameWork
  <2>3. ASSUME NEW x \in RedisCall, x.conn = m.conn, x.task = m.type, pipe' = Append(pipe, x) PROVE NoNewWork
    <3>1. Calls' \subseteq Calls \cup {x}
      BY <2>1, <2>3, CallsIssued
    <3> QED BY <2>1, <2>3, <3>1 DEF NoNewWork, Works
  <2>4. CASE subscribeMessage(m)
    <3>1. Call("hSet", "subscribe", m.conn, m.user, m.reset) \in RedisCall
      BY CallTypes, MessageType
    <3> QED BY <2>3, <2>4, <3>1 DEF subscribeMessage, hSet, Call
  <2>5. CASE unsubscribeMessage(m)
    <3>1. Call("hDel", "unsubscribe", m.conn, m.user, FALSE) \in RedisCall
      BY CallTypes, MessageType
    <3> QED BY <2>2, <2>3, <2>5, <3>1 DEF unsubscribeMessage, delStatus, Call
  <2> QED BY <1>2, <2>2, <2>4, <2>5 DEF CheckDone, CheckRefuses
<1>3. CASE handleRedisExpiration
  <2> DEFINE x == Call("hDel", "expire", NoConn, Head(events), FALSE)
  <2>1. checks' = checks /\ replies' = replies /\ pipe' = Append(pipe, x) /\ Head(events) \in Users
    BY <1>3, AppendTypes DEF handleRedisExpiration, delStatus
  <2>2. x \in RedisCall /\ x.task = "expire"
    BY <2>1, CallTypes DEF Call
  <2>3. Calls' \subseteq Calls \cup {x}
    BY <2>1, <2>2, CallsIssued
  <2> QED BY <2>1, <2>2, <2>3 DEF NoNewWork, Works, Requests
<1>4. CASE ping \/ Restart \/ (\E u \in Users : Expire(u)) \/ UNCHANGED vars
  BY <1>4, CallsOfNone, SameWork DEF ping, Restart, Expire, vars
<1>5. CASE RedisFails
  <2>1. checks' = checks
    BY <1>5 DEF RedisFails
  <2>2. CASE pipe # <<>> /\ pipe' = Tail(pipe)
             /\ replies' = Append(replies, [call |-> Head(pipe), ok |-> FALSE, result |-> {}])
    <3> DEFINE r == [call |-> Head(pipe), ok |-> FALSE, result |-> {}]
    <3>1. r \in Reply /\ replies \in Seq(Reply)
      BY <2>2, HeadCall DEF Reply, TypeOK
    <3>2. r.call = Head(pipe)
      OBVIOUS
    <3>0. replies' = Append(replies, r)
      BY <2>2
    <3> HIDE DEF r
    <3>3. Range(replies') = Range(replies) \cup {r}
      BY <3>0, <3>1, RangeAppend
    <3>4. Range(pipe) = {Head(pipe)} \cup Range(pipe')
      BY <2>2, RangeHeadTail DEF TypeOK
    <3>5. Calls' \subseteq Calls
      BY <3>2, <3>3, <3>4 DEF Calls
    <3> QED BY <2>1, <3>5, SameWork
  <2>3. CASE replies # <<>> /\ pipe' = pipe
             /\ replies' = <<[Head(replies) EXCEPT !.ok = FALSE]>> \o Tail(replies)
    <3> DEFINE r == [Head(replies) EXCEPT !.ok = FALSE]
    <3>1. Head(replies) \in Reply /\ Tail(replies) \in Seq(Reply)
      BY <2>3, HeadReply
    <3>2. r \in Reply /\ r.call = Head(replies).call
      BY <3>1 DEF Reply
    <3>0. replies' = <<r>> \o Tail(replies)
      BY <2>3
    <3> HIDE DEF r
    <3>4. Range(replies') = {r} \cup Range(Tail(replies))
      BY <3>0, <3>1, <3>2, RangePutFirst, ZenonT(60)
    <3>5. Range(replies) = {Head(replies)} \cup Range(Tail(replies))
      BY <2>3, RangeHeadTail DEF TypeOK
    <3>6. Calls' \subseteq Calls
      BY <2>3, <3>2, <3>4, <3>5 DEF Calls
    <3> QED BY <2>1, <3>6, SameWork
  <2> QED BY <1>5, <2>2, <2>3 DEF RedisFails
<1>6. CASE Crash
  <2>1. Range(pipe') = {} /\ Range(replies') = {} /\ checks' = {}
    BY <1>6, ExitEmpties DEF Crash, Exit, Range
  <2> QED BY <2>1, CallsOfNone, SameWork
<1> QED BY <1>1, <1>2, <1>3, <1>4, <1>5, <1>6, RedisWork, ReplyWork DEF Next

\* Who is newly acknowledged is no longer tracked and had no subscription under way;
\* who is newly tracked had one.
LEMMA AckStep ==
    ASSUME TypeOK, NoNewWork, [Next]_vars, Orderly, ~Pipelined, NEW c \in Conns, acked'[c]
    PROVE  c \notin DOMAIN clients' /\ ~Works(c, "subscribe")
<1> USE DEF gateway, history, Orderly
<1>1. ASSUME acked[c], DOMAIN clients' \subseteq DOMAIN clients
      PROVE  c \notin DOMAIN clients' /\ ~Works(c, "subscribe")
  BY <1>1
<1>2. ASSUME NEW d, Acknowledge(d), d = c => ~Works(c, "subscribe")
      PROVE  c \notin DOMAIN clients' /\ ~Works(c, "subscribe")
  <2>1. clients' = Untrack(d) /\ (d # c => acked[c])
    BY <1>2 DEF Acknowledge, TypeOK
  <2>2. DOMAIN clients' = DOMAIN clients \ {d}
    BY <2>1, MapUids
  <2> QED BY <1>2, <2>1, <2>2
<1>3. ASSUME NEW d \in Conns, Client(d) PROVE c \notin DOMAIN clients' /\ ~Works(c, "subscribe")
  <2>1. CASE handleConnection(d) \/ BadRequest(d)
    BY <1>1, <2>1 DEF handleConnection, BadRequest
  <2>2. CASE handleDisconnect(d)
    <3>1. acked[c] /\ clients' = Untrack(d)
      BY <2>2 DEF handleDisconnect, TypeOK
    <3> QED BY <1>1, <3>1, MapUids
  <2>3. CASE SubscribeGuest(d)
    <3>1. d # c /\ acked[c] /\ clients' = Track(d, NoUser)
      BY <2>3 DEF SubscribeGuest, TypeOK
    <3>2. DOMAIN clients' = DOMAIN clients \cup {d}
      BY <3>1, MapUids
    <3> QED BY <3>1, <3>2
  <2>4. CASE UnsubscribeGuest(d)
    <3>1. Acknowledge(d) /\ ~Busy(d)
      BY <2>4 DEF UnsubscribeGuest, MaySend
    <3>2. ~Works(d, "subscribe")
      BY <3>1 DEF Busy, Works
    <3> QED BY <1>2, <3>1, <3>2
  <2>5. CASE pong(d)
    <3>1. acked' = acked /\ DOMAIN clients' = DOMAIN clients
      BY <2>5 DEF pong
    <3> QED BY <1>1, <3>1
  <2> QED BY <1>3, <2>1, <2>2, <2>3, <2>4, <2>5 DEF Client
<1>4. ASSUME NEW m \in Message, handleMessage(m) PROVE c \notin DOMAIN clients' /\ ~Works(c, "subscribe")
  <2>1. acked[c] /\ clients' = clients
    BY <1>4 DEF handleMessage, TypeOK
  <2> QED BY <1>1, <2>1
<1>5. ASSUME NEW m \in Message, CheckDone(m) PROVE c \notin DOMAIN clients' /\ ~Works(c, "subscribe")
  <2>1. CASE CheckRefuses(m) \/ subscribeMessage(m)
    BY <1>1, <2>1 DEF CheckRefuses, subscribeMessage
  <2>2. CASE unsubscribeMessage(m)
    <3>1. Works(m.conn, "unsubscribe") /\ m.conn \in Conns
      BY <2>2, MessageType DEF unsubscribeMessage, Works
    <3>2. CASE Acknowledge(m.conn)
      BY <1>2, <3>1, <3>2
    <3>3. CASE UNCHANGED <<clients, acked>>
      BY <1>1, <3>3
    <3> QED BY <2>2, <3>2, <3>3 DEF unsubscribeMessage
  <2> QED BY <1>5, <2>1, <2>2 DEF CheckDone
<1>6. CASE StatusIsSet
  <2> DEFINE d == Head(replies).call.conn
  <2>1. Answered("set", "subscribe") /\ acked' = acked /\ clients' = Track(d, Head(replies).call.user)
    BY <1>6 DEF StatusIsSet
  <2>2. Head(replies) \in Range(replies) /\ Head(replies).call.task = "subscribe"
    BY <2>1, RangeHeadTail DEF Answered, TypeOK
  <2>3. Works(d, "subscribe")
    BY <2>2 DEF Works, Calls
  <2>4. d # c
    BY <2>1, <2>3
  <2>5. DOMAIN clients' = DOMAIN clients \cup {d} /\ acked[c]
    BY <2>1, MapUids
  <2> QED BY <2>4, <2>5
<1>7. CASE StatusIsDeleted
  <2> DEFINE d == Head(replies).call.conn
  <2>1. Answered("hDel", "unsubscribe") /\ Acknowledge(d)
    BY <1>7 DEF StatusIsDeleted
  <2>2. Head(replies) \in Range(replies) /\ Head(replies).call.task = "unsubscribe"
    BY <2>1, RangeHeadTail DEF Answered, TypeOK
  <2>3. Works(d, "unsubscribe")
    BY <2>2 DEF Works, Calls
  <2> QED BY <1>2, <2>1, <2>3
<1>8. CASE ping
  <2>1. acked' = acked /\ DOMAIN clients' \subseteq DOMAIN clients
    BY <1>8 DEF ping
  <2> QED BY <1>1, <2>1
<1>9. ASSUME Exit PROVE FALSE
  BY <1>9 DEF Exit
<1>10. CASE CommandFailed \/ Crash
  BY <1>1, <1>9, <1>10 DEF CommandFailed, Crash
<1>11. CASE Redis \/ HashIsSet \/ PongIsStored \/ SnapshotIsRead \/ ExpiredIsDeleted \/ handleRedisExpiration
            \/ (\E u \in Users : Expire(u)) \/ RedisFails \/ Restart \/ UNCHANGED vars
  <2>1. acked' = acked /\ clients' = clients
    BY <1>11 DEF Redis, RedisHSet, RedisSetEX, RedisHGetAll, RedisHDel, Execute, HashIsSet, PongIsStored,
         SnapshotIsRead, ExpiredIsDeleted, handleRedisExpiration, Expire, RedisFails, Restart, vars
  <2> QED BY <1>1, <2>1
<1> QED BY <1>3, <1>4, <1>5, <1>6, <1>7, <1>8, <1>10, <1>11 DEF Next, ReplyHandled

LEMMA OrderlyStep == TypeOK /\ Orderly /\ [Next]_vars => Orderly'
<1> SUFFICES ASSUME TypeOK, Orderly, [Next]_vars, ~Pipelined, NEW c \in Conns
             PROVE  /\ ~(Works(c, "subscribe")' /\ Works(c, "unsubscribe")')
                    /\ acked'[c] => c \notin DOMAIN clients' /\ ~Works(c, "subscribe")'
  BY DEF Orderly
<1>1. CASE NoNewWork
  <2>1. Works(c, "subscribe")' => Works(c, "subscribe")
    BY <1>1 DEF NoNewWork, Requests
  <2>2. Works(c, "unsubscribe")' => Works(c, "unsubscribe")
    BY <1>1 DEF NoNewWork, Requests
  <2>3. acked'[c] => c \notin DOMAIN clients' /\ ~Works(c, "subscribe")
    BY <1>1, AckStep
  <2> QED BY <2>1, <2>2, <2>3 DEF Orderly
<1>2. ASSUME NEW d \in Conns, SubscribeGuest(d)
      PROVE  /\ ~(Works(c, "subscribe")' /\ Works(c, "unsubscribe")')
             /\ acked'[c] => c \notin DOMAIN clients' /\ ~Works(c, "subscribe")'
  <2> DEFINE x == Call("hGetAll", "subscribe", d, NoUser, TRUE)
  <2>1. x \in RedisCall /\ x.conn = d /\ x.task = "subscribe"
    BY CallTypes DEF Uid, Call
  <2>2. checks' = checks /\ pipe' = Append(pipe, x) /\ replies' = replies
    BY <1>2 DEF SubscribeGuest, getOnlineUsers
  <2>3. Calls' \subseteq Calls \cup {x}
    BY <2>1, <2>2, CallsIssued
  <2>4. /\ Works(c, "unsubscribe")' => Works(c, "unsubscribe")
        /\ Works(c, "subscribe")' => Works(c, "subscribe") \/ c = d
    BY <2>1, <2>2, <2>3 DEF Works
  <2>5. ~Works(d, "unsubscribe")
    BY <1>2 DEF SubscribeGuest, MaySend, Busy, Works
  <2>6. acked'[c] => c # d /\ acked[c]
    BY <1>2 DEF SubscribeGuest, TypeOK
  <2>7. DOMAIN clients' = DOMAIN clients \cup {d}
    BY <1>2, MapUids DEF SubscribeGuest
  <2> QED BY <2>4, <2>5, <2>6, <2>7 DEF Orderly
<1>3. ASSUME NEW m \in Message, handleMessage(m)
      PROVE  /\ ~(Works(c, "subscribe")' /\ Works(c, "unsubscribe")')
             /\ acked'[c] => c \notin DOMAIN clients' /\ ~Works(c, "subscribe")'
  <2>1. checks' = checks \cup {m} /\ pipe' = pipe /\ replies' = replies /\ clients' = clients
    BY <1>3 DEF handleMessage
  <2>2. Calls' = Calls
    BY <2>1 DEF Calls
  <2>3. /\ Works(c, "unsubscribe")' => Works(c, "unsubscribe") \/ (c = m.conn /\ m.type = "unsubscribe")
        /\ Works(c, "subscribe")' => Works(c, "subscribe") \/ (c = m.conn /\ m.type = "subscribe")
    BY <2>1, <2>2 DEF Works
  <2>4. ~Works(m.conn, "unsubscribe") /\ ~Works(m.conn, "subscribe")
    BY <1>3 DEF handleMessage, MaySend, Busy, Works
  <2>5. acked'[c] => acked[c] /\ ~(c = m.conn /\ m.type = "subscribe")
    BY <1>3 DEF handleMessage, TypeOK
  <2> QED BY <2>1, <2>3, <2>4, <2>5 DEF Orderly
<1> QED BY <1>1, <1>2, <1>3, WorkStep

(* A client that sends nothing before its last request is answered is never tracked  *)
(* again by an earlier subscription of its own once it was told that it is           *)
(* unsubscribed, although subscribeMessage and unsubscribeMessage run unawaited       *)
(* (message 94, 97); presence_overlap shows what happens without that condition.      *)
THEOREM AcknowledgedForGood == Spec => [](~Pipelined => AcknowledgedIsUntracked)
<1>1. Init => TypeOK /\ Orderly
  <2> SUFFICES ASSUME Init PROVE Orderly
    BY InitType
  <2>1. Range(pipe) = {} /\ Range(replies) = {} /\ checks = {} /\ \A c \in Conns : ~acked[c]
    BY DEF Init, Range
  <2> QED BY <2>1 DEF Orderly, Works, Calls
<1>2. TypeOK /\ Orderly /\ [Next]_vars => (TypeOK /\ Orderly)'
  BY TypeStep, OrderlyStep
<1>3. Orderly => (~Pipelined => AcknowledgedIsUntracked)
  BY DEF Orderly, AcknowledgedIsUntracked
<1> QED BY <1>1, <1>2, <1>3, PTL DEF Spec

-----------------------------------------------------------------------------
(* What comes after what in the replies.                                   *)

Followed(s, P, Q) == \A i \in DOMAIN s : s[i] \in P => \E j \in DOMAIN s : j > i /\ s[j] \in Q

LEMMA FollowedTail ==
    ASSUME NEW S, NEW s \in Seq(S), s # <<>>, NEW P, NEW Q, Followed(s, P, Q)
    PROVE  /\ Followed(Tail(s), P, Q)
           /\ Head(s) \in P => \E r \in Range(Tail(s)) : r \in Q
<1> DEFINE t == Tail(s)
<1>1. /\ Len(s) \in Nat \ {0} /\ DOMAIN s = 1 .. Len(s) /\ DOMAIN t = 1 .. (Len(s) - 1)
      /\ Head(s) = s[1] /\ \A i \in 1 .. (Len(s) - 1) : t[i] = s[i + 1]
  OBVIOUS
<1> HIDE DEF t
<1>2. ASSUME NEW i \in DOMAIN s, s[i] \in P PROVE \E j \in DOMAIN t : j > i - 1 /\ t[j] \in Q
  <2>1. PICK j \in DOMAIN s : j > i /\ s[j] \in Q
    BY <1>2 DEF Followed
  <2>2. j - 1 \in DOMAIN t /\ t[j - 1] = s[j] /\ j - 1 > i - 1
    BY <1>1, <2>1
  <2> QED BY <2>1, <2>2
<1>3. ASSUME NEW i \in DOMAIN t, t[i] \in P PROVE \E j \in DOMAIN t : j > i /\ t[j] \in Q
  <2>1. i + 1 \in DOMAIN s /\ s[i + 1] \in P /\ (i + 1) - 1 = i
    BY <1>1, <1>3
  <2> QED BY <1>2, <2>1
<1>4. ASSUME Head(s) \in P PROVE \E r \in Range(t) : r \in Q
  <2>1. 1 \in DOMAIN s /\ s[1] \in P
    BY <1>1, <1>4
  <2>2. PICK j \in DOMAIN t : t[j] \in Q
    BY <1>2, <2>1
  <2> QED BY <2>2 DEF Range
<1> QED BY <1>3, <1>4 DEF Followed, t

LEMMA FollowedAppend ==
    ASSUME NEW S, NEW s \in Seq(S), NEW x \in S, NEW P, NEW Q, x \notin P, Followed(s, P, Q) \/ x \in Q
    PROVE  Followed(Append(s, x), P, Q)
<1> DEFINE t == Append(s, x)
<1>1. /\ Len(s) \in Nat /\ DOMAIN s = 1 .. Len(s) /\ DOMAIN t = 1 .. (Len(s) + 1)
      /\ t[Len(s) + 1] = x /\ \A i \in 1 .. Len(s) : t[i] = s[i]
  OBVIOUS
<1> HIDE DEF t
<1>2. ASSUME NEW i \in DOMAIN t, t[i] \in P PROVE \E j \in DOMAIN t : j > i /\ t[j] \in Q
  <2>1. i \in DOMAIN s /\ s[i] \in P
    BY <1>1, <1>2
  <2>2. CASE x \in Q
    <3>1. Len(s) + 1 \in DOMAIN t /\ Len(s) + 1 > i /\ t[Len(s) + 1] \in Q
      BY <1>1, <2>1, <2>2
    <3> QED BY <3>1
  <2>3. CASE Followed(s, P, Q)
    <3>1. PICK j \in DOMAIN s : j > i /\ s[j] \in Q
      BY <2>1, <2>3 DEF Followed
    <3> QED BY <1>1, <3>1
  <2> QED BY <2>2, <2>3
<1> QED BY <1>2 DEF Followed, t

-----------------------------------------------------------------------------
(* What waiting replies say of a user agrees with the hash, or is followed  *)
(* by one that corrects it.                                                 *)

Affirms(u) == {r \in Reply : r.call.op = "hGetAll" /\ u \in r.result}
Removes(u) == {r \in Reply : r.call.op = "hDel" /\ r.call.user = u /\ r.result = {u}}
Denies(u) == {r \in Reply : (r.call.op = "hDel" /\ r.call.user = u) \/ (r.call.op = "hGetAll" /\ u \notin r.result)}
Announces(u) == {r \in Reply : r.call.op = "hSet" /\ r.call.task = "subscribe" /\ r.call.user = u}

AffirmsRight(u) == u \in status \/ Followed(replies, Affirms(u), Removes(u))
DeniesRight(u) == u \notin status \ silent \/ Followed(replies, Denies(u), Announces(u))
SnapshotsRight == errors = 0 => \A u \in Users : AffirmsRight(u) /\ DeniesRight(u)

LEMMA RedisTells ==
    ASSUME TypeOK, Redis, NEW u \in Users, AffirmsRight(u), DeniesRight(u)
    PROVE  AffirmsRight(u)' /\ DeniesRight(u)'
<1> USE DEF AffirmsRight, DeniesRight, store
<1>1. ASSUME NEW op, NEW result \in SUBSET Users, Execute(op, result)
      PROVE  \E r \in Reply : /\ r = [call |-> Head(pipe), ok |-> TRUE, result |-> result]
                              /\ r.call = Head(pipe) /\ r.result = result /\ Head(pipe).op = op
                              /\ replies' = Append(replies, r)
  <2> DEFINE r == [call |-> Head(pipe), ok |-> TRUE, result |-> result]
  <2>1. r \in Reply
    BY <1>1, ExecuteType DEF Reply
  <2>2. replies' = Append(replies, r) /\ Head(pipe).op = op
    BY <1>1 DEF Execute
  <2>3. r.call = Head(pipe) /\ r.result = result
    OBVIOUS
  <2> QED BY <2>1, <2>2, <2>3
<1>2. {} \in SUBSET Users /\ status \in SUBSET Users /\ status \cap {Head(pipe).user} \in SUBSET Users
      /\ replies \in Seq(Reply)
  BY DEF TypeOK
<1>3. CASE RedisHSet
  <2>1. PICK r \in Reply : r.call = Head(pipe) /\ r.call.op = "hSet" /\ replies' = Append(replies, r)
    BY <1>1, <1>2, <1>3 DEF RedisHSet
  <2>2. r \notin Affirms(u) /\ r \notin Denies(u)
    BY <2>1 DEF Affirms, Denies
  <2>3. /\ status' = status \cup {r.call.user}
        /\ silent' = IF r.call.task = "pong" /\ r.call.user \notin status THEN silent \cup {r.call.user} ELSE silent
    BY <1>3, <2>1 DEF RedisHSet
  <2>4. AffirmsRight(u)'
    BY <1>2, <2>1, <2>2, <2>3, FollowedAppend
  <2>5. CASE u # r.call.user \/ u \in status
    BY <1>2, <2>1, <2>2, <2>3, <2>5, FollowedAppend
  <2>6. CASE u = r.call.user /\ u \notin status
    <3>1. r.call.task \in {"subscribe", "pong"}
      BY <2>1, <1>3, ExecuteType, <1>2 DEF RedisHSet, RedisCall, SetCall, SnapshotCall, RemovalCall,
         ExpiryCall
    <3>2. CASE r.call.task = "subscribe"
      <4>1. r \in Announces(u)
        BY <2>1, <2>6, <3>2 DEF Announces
      <4> QED BY <1>2, <2>1, <2>2, <2>4, <4>1, FollowedAppend
    <3>3. CASE r.call.task = "pong"
      BY <2>3, <2>4, <2>6, <3>3
    <3> QED BY <3>1, <3>2, <3>3
  <2> QED BY <2>4, <2>5, <2>6
<1>4. CASE RedisSetEX
  <2>1. PICK r \in Reply : r.call = Head(pipe) /\ r.call.op = "set" /\ replies' = Append(replies, r)
    BY <1>1, <1>2, <1>4 DEF RedisSetEX
  <2>2. r \notin Affirms(u) /\ r \notin Denies(u)
    BY <2>1 DEF Affirms, Denies
  <2>3. status' = status /\ silent' = silent
    BY <1>4 DEF RedisSetEX
  <2> QED BY <1>2, <2>1, <2>2, <2>3, FollowedAppend
<1>5. CASE RedisHGetAll
  <2>1. PICK r \in Reply : r.result = status /\ r.call.op = "hGetAll" /\ replies' = Append(replies, r)
    BY <1>1, <1>2, <1>5 DEF RedisHGetAll
  <2>2. (u \notin status => r \notin Affirms(u)) /\ (u \in status => r \notin Denies(u))
    BY <2>1 DEF Affirms, Denies
  <2>3. status' = status /\ silent' = silent
    BY <1>5 DEF RedisHGetAll
  <2> QED BY <1>2, <2>1, <2>2, <2>3, FollowedAppend
<1>6. CASE RedisHDel
  <2>1. PICK r \in Reply : /\ r.call = Head(pipe) /\ r.result = status \cap {r.call.user}
                           /\ r.call.op = "hDel" /\ replies' = Append(replies, r)
    BY <1>1, <1>2, <1>6 DEF RedisHDel
  <2>2. status' = status \ {r.call.user} /\ silent' = silent \ {r.call.user}
    BY <1>6, <2>1 DEF RedisHDel
  <2>3. r \notin Affirms(u)
    BY <2>1 DEF Affirms
  <2>4. CASE u = r.call.user
    <3>1. u \in status => r \in Removes(u)
      BY <2>1, <2>4 DEF Removes
    <3> QED BY <1>2, <2>1, <2>2, <2>3, <2>4, <3>1, FollowedAppend
  <2>5. CASE u # r.call.user
    <3>1. r \notin Denies(u)
      BY <2>1, <2>5 DEF Denies
    <3> QED BY <1>2, <2>1, <2>2, <2>3, <2>5, <3>1, FollowedAppend
  <2> QED BY <2>4, <2>5
<1> QED BY <1>3, <1>4, <1>5, <1>6 DEF Redis

LEMMA SnapshotsStep == TypeOK /\ AnsweredSoFar /\ SnapshotsRight /\ [Next]_vars => SnapshotsRight'
<1> SUFFICES ASSUME TypeOK, SnapshotsRight, [Next]_vars, errors' = 0, NEW u \in Users
             PROVE  AffirmsRight(u)' /\ DeniesRight(u)'
  BY DEF SnapshotsRight
<1>1. errors = 0 /\ AffirmsRight(u) /\ DeniesRight(u) /\ replies \in Seq(Reply)
  BY CountsGrow DEF TypeOK, SnapshotsRight
<1> USE DEF gateway, store, process, history, AffirmsRight, DeniesRight
<1>2. ASSUME UNCHANGED <<replies, status, silent>> PROVE AffirmsRight(u)' /\ DeniesRight(u)'
  BY <1>1, <1>2
<1>3. ASSUME replies # <<>>, replies' = Tail(replies), UNCHANGED <<status, silent>>
      PROVE  AffirmsRight(u)' /\ DeniesRight(u)'
  BY <1>1, <1>3, FollowedTail
<1>4. ASSUME Exit PROVE AffirmsRight(u)' /\ DeniesRight(u)'
  <2>1. replies' = <<>>
    BY <1>4 DEF Exit
  <2> QED BY <2>1 DEF Followed
<1>5. ASSUME NEW c \in Conns, Client(c) PROVE UNCHANGED <<replies, status, silent>>
  BY <1>5 DEF Client, handleConnection, handleDisconnect, BadRequest, SubscribeGuest, UnsubscribeGuest,
     pong
<1>6. ASSUME NEW m \in Message, handleMessage(m) \/ CheckDone(m) PROVE UNCHANGED <<replies, status, silent>>
  BY <1>6 DEF handleMessage, CheckDone, CheckRefuses, subscribeMessage, unsubscribeMessage
<1>7. CASE handleRedisExpiration \/ ping \/ (\E w \in Users : Expire(w)) \/ Restart \/ UNCHANGED vars
  BY <1>2, <1>7 DEF handleRedisExpiration, ping, Expire, Restart, vars
<1>8. CASE HashIsSet \/ StatusIsSet \/ PongIsStored \/ SnapshotIsRead \/ StatusIsDeleted \/ ExpiredIsDeleted
  <2>1. replies # <<>> /\ replies' = Tail(replies)
    BY <1>8 DEF HashIsSet, StatusIsSet, PongIsStored, SnapshotIsRead, StatusIsDeleted,
       ExpiredIsDeleted, Answered
  <2>2. UNCHANGED <<status, silent>>
    BY <1>8 DEF HashIsSet, StatusIsSet, PongIsStored, SnapshotIsRead, StatusIsDeleted, ExpiredIsDeleted
  <2> QED BY <1>3, <2>1, <2>2
<1>9. CASE CommandFailed \/ Crash
  BY <1>3, <1>4, <1>9 DEF CommandFailed, Crash
<1>10. CASE RedisFails
  BY <1>1, <1>10 DEF RedisFails
<1>11. CASE Redis
  BY <1>1, <1>11, RedisTells
<1> QED BY <1>2, <1>5, <1>6, <1>7, <1>8, <1>9, <1>10, <1>11 DEF Next, ReplyHandled
-----------------------------------------------------------------------------
(* Claims: a view is right, or is the one that something under way corrects. *)

OnlineClaim(u) == u \in status \cup overtaken \/ OfflineIsComing(u)
OfflineClaim(u) == u \notin status \ silent \/ OnlineIsComing(u)
ClaimsKept(u) == (OnlineClaim(u) => OnlineClaim(u)') /\ (OfflineClaim(u) => OfflineClaim(u)')

\* Answers that tell the clients of u something.
Corrections(u) == {r \in Range(replies) : r.call.user = u /\ r.call.op \in {"hSet", "set", "hDel"}}

LEMMA ClaimsStay ==
    ASSUME NEW u, UNCHANGED <<status, silent>>, u \in overtaken => u \in overtaken',
           Range(pipe) \subseteq Range(pipe'), Corrections(u) \subseteq Range(replies')
    PROVE  ClaimsKept(u)
BY DEF ClaimsKept, OnlineClaim, OfflineClaim, OfflineIsComing, OnlineIsComing, Issued, Unhandled,
   Corrections

LEMMA PipeGrows ==
    ASSUME TypeOK, pipe' = pipe \/ \E k \in RedisCall : pipe' = Append(pipe, k)
    PROVE  Range(pipe) \subseteq Range(pipe')
<1>1. ASSUME NEW k \in RedisCall, pipe' = Append(pipe, k) PROVE Range(pipe) \subseteq Range(pipe')
  <2>1. Range(Append(pipe, k)) = Range(pipe) \cup {k}
    BY RangeAppend DEF TypeOK
  <2> QED BY <1>1, <2>1
<1> QED BY <1>1

LEMMA AskingKeepsClaims ==
    ASSUME TypeOK, OnlyAsks, UNCHANGED <<overtaken, silent>>, NEW u
    PROVE  ClaimsKept(u)
<1>1. Range(pipe) \subseteq Range(pipe') /\ Corrections(u) \subseteq Range(replies')
  BY PipeGrows DEF OnlyAsks, Corrections
<1> QED BY <1>1, ClaimsStay DEF OnlyAsks

LEMMA RedisClaims ==
    ASSUME TypeOK, Redis, NEW u \in Users
    PROVE  ClaimsKept(u)
<1> DEFINE k == Head(pipe)
<1>1. ASSUME NEW op, NEW result \in SUBSET Users, Execute(op, result)
      PROVE  \E r : /\ Range(replies') = Range(replies) \cup {r} /\ r.ok /\ r.call = k /\ r.result = result
                    /\ k.op = op /\ Range(pipe) = {k} \cup Range(pipe') /\ k \in RedisCall
  <2> DEFINE r == [call |-> Head(pipe), ok |-> TRUE, result |-> result]
  <2>1. Range(replies') = Range(replies) \cup {r} /\ k.op = op /\ Range(pipe) = {k} \cup Range(pipe')
    BY <1>1, ExecuteRanges
  <2>2. r.ok /\ r.call = k /\ r.result = result
    OBVIOUS
  <2>3. k \in RedisCall
    BY <1>1, ExecuteType
  <2> QED BY <2>1, <2>2, <2>3
<1>2. {} \in SUBSET Users /\ status \in SUBSET Users /\ status \cap {k.user} \in SUBSET Users
  BY DEF TypeOK
<1> USE DEF ClaimsKept, OnlineClaim, OfflineClaim, OfflineIsComing, OnlineIsComing, Issued, Unhandled, store
<1>3. CASE RedisHSet
  <2>1. PICK r : /\ Range(replies') = Range(replies) \cup {r} /\ r.ok /\ r.call = k
                 /\ k.op = "hSet" /\ Range(pipe) = {k} \cup Range(pipe') /\ k \in RedisCall
    BY <1>1, <1>2, <1>3 DEF RedisHSet
  <2>2. /\ status' = status \cup {k.user} /\ overtaken' = overtaken \ {k.user}
        /\ silent' = IF k.task = "pong" /\ k.user \notin status THEN silent \cup {k.user} ELSE silent
    BY <1>3 DEF RedisHSet
  <2>3. k.task \in {"subscribe", "pong"}
    BY <2>1 DEF RedisCall, SetCall, SnapshotCall, RemovalCall, ExpiryCall
  <2>4. OnlineClaim(u) => OnlineClaim(u)'
    BY <2>1, <2>2
  <2>5. OfflineClaim(u) => OfflineClaim(u)'
    BY <2>1, <2>2, <2>3
  <2> QED BY <2>4, <2>5
<1>4. CASE RedisSetEX
  <2>1. PICK r : /\ Range(replies') = Range(replies) \cup {r} /\ r.ok /\ r.call = k
                 /\ k.op = "set" /\ Range(pipe) = {k} \cup Range(pipe') /\ k \in RedisCall
    BY <1>1, <1>2, <1>4 DEF RedisSetEX
  <2>2. UNCHANGED <<status, overtaken, silent>>
    BY <1>4 DEF RedisSetEX
  <2> QED BY <2>1, <2>2
<1>5. CASE RedisHGetAll
  <2>1. PICK r : /\ Range(replies') = Range(replies) \cup {r} /\ r.call = k
                 /\ k.op = "hGetAll" /\ Range(pipe) = {k} \cup Range(pipe') /\ k \in RedisCall
    BY <1>1, <1>2, <1>5 DEF RedisHGetAll
  <2>2. UNCHANGED <<status, overtaken, silent>>
    BY <1>5 DEF RedisHGetAll
  <2> QED BY <2>1, <2>2
<1>6. CASE RedisHDel
  <2>1. PICK r : /\ Range(replies') = Range(replies) \cup {r} /\ r.call = k /\ r.result = status \cap {k.user}
                 /\ k.op = "hDel" /\ Range(pipe) = {k} \cup Range(pipe') /\ k \in RedisCall
    BY <1>1, <1>2, <1>6 DEF RedisHDel
  <2>2. status' = status \ {k.user} /\ overtaken' = overtaken /\ silent' = silent \ {k.user}
    BY <1>6 DEF RedisHDel
  <2>3. OnlineClaim(u) => OnlineClaim(u)'
    <3>1. CASE u = k.user /\ u \in status
      <4>1. r \in Range(replies') /\ r.call.op = "hDel" /\ r.call.user = u /\ r.result = {u}
        BY <2>1, <3>1
      <4> QED BY <4>1
    <3>2. CASE u # k.user \/ u \notin status
      BY <2>1, <2>2, <3>2
    <3> QED BY <3>1, <3>2
  <2>4. OfflineClaim(u) => OfflineClaim(u)'
    BY <2>1, <2>2
  <2> QED BY <2>3, <2>4
<1> QED BY <1>3, <1>4, <1>5, <1>6 DEF Redis

\* Handling an answer keeps the claims on all users but the one that clients are told of.
LEMMA AnswerClaims ==
    ASSUME TypeOK, NEW op, NEW task, Answered(op, task), UNCHANGED <<status, silent>>,
           NEW u, u \in overtaken => u \in overtaken',
           Range(pipe) \subseteq Range(pipe'), op = "hGetAll" \/ u # Head(replies).call.user
    PROVE  ClaimsKept(u)
<1>1. Range(replies) = {Head(replies)} \cup Range(replies') /\ Head(replies).call.op = op
  BY AnsweredRanges
<1>2. Corrections(u) \subseteq Range(replies')
  BY <1>1 DEF Corrections
<1> QED BY <1>2, ClaimsStay

LEMMA HashIsSetClaims ==
    ASSUME TypeOK, HashIsSet, NEW u
    PROVE  ClaimsKept(u)
<1>1. PICK task \in {"subscribe", "pong"} : Answered("hSet", task)
  BY DEF HashIsSet
<1> DEFINE k == Head(replies).call
           next == [Head(replies).call EXCEPT !.op = "set"]
<1>2. Range(replies) = {Head(replies)} \cup Range(replies') /\ k.op = "hSet" /\ k \in RedisCall
  BY <1>1, AnsweredRanges, AnsweredType
<1>3. next \in RedisCall /\ next.op = "set" /\ next.user = k.user /\ next.task = k.task
  BY <1>2, NextCall
<1>4. pipe' = Append(pipe, next) /\ pipe \in Seq(RedisCall) /\ UNCHANGED <<status, overtaken, silent>>
  BY DEF HashIsSet, TypeOK, store, history
<1> HIDE DEF next
<1>5. Range(pipe') = Range(pipe) \cup {next}
  BY <1>3, <1>4, RangeAppend
<1>6. OfflineIsComing(u) => OfflineIsComing(u)'
  BY <1>2 DEF OfflineIsComing, Unhandled
<1>7. OnlineIsComing(u) => OnlineIsComing(u)'
  BY <1>2, <1>3, <1>5 DEF OnlineIsComing, Issued, Unhandled
<1> QED BY <1>4, <1>6, <1>7 DEF ClaimsKept, OnlineClaim, OfflineClaim

LEMMA PongIsStoredClaims ==
    ASSUME TypeOK, PongIsStored, NEW u
    PROVE  ClaimsKept(u)
<1>1. /\ Range(replies) = {Head(replies)} \cup Range(replies')
      /\ Head(replies).call.op = "set" /\ Head(replies).call.task = "pong"
  BY AnsweredRanges, AnsweredType DEF PongIsStored
<1>2. UNCHANGED <<pipe, status, overtaken, silent>>
  BY DEF PongIsStored, store, history
<1> QED BY <1>1, <1>2 DEF ClaimsKept, OnlineClaim, OfflineClaim, OfflineIsComing, OnlineIsComing,
           Issued, Unhandled

\* Steps after which clients know more than before.
Telling == StatusIsSet \/ SnapshotIsRead \/ StatusIsDeleted \/ ExpiredIsDeleted

LEMMA ClaimsStep ==
    ASSUME TypeOK, AnsweredSoFar, Next, errors' = 0, ~Telling, ~Exit, NEW u \in Users
    PROVE  ClaimsKept(u)
<1> USE DEF gateway, store, process, history
<1>1. ASSUME NEW c \in Conns, Client(c) PROVE ClaimsKept(u)
  <2>1. UNCHANGED <<overtaken, silent>>
    BY <1>1 DEF Client, handleConnection, handleDisconnect, BadRequest, SubscribeGuest,
       UnsubscribeGuest, pong
  <2> QED BY <1>1, <2>1, ClientsOnlyAsk, AskingKeepsClaims
<1>2. ASSUME NEW m \in Message, handleMessage(m) \/ CheckDone(m) PROVE ClaimsKept(u)
  <2>1. UNCHANGED <<overtaken, silent>>
    BY <1>2 DEF handleMessage, CheckDone, CheckRefuses, subscribeMessage, unsubscribeMessage
  <2> QED BY <1>2, <2>1, RequestsOnlyAsk, AskingKeepsClaims
<1>3. CASE ping \/ Restart \/ (\E w \in Users : Expire(w))
  BY <1>3, ClaimsStay DEF ping, Restart, Expire, Corrections
<1>4. CASE handleRedisExpiration
  <2>1. Call("hDel", "expire", NoConn, Head(events), FALSE) \in RedisCall
    BY <1>4, AppendTypes, CallTypes DEF handleRedisExpiration
  <2>2. Range(pipe) \subseteq Range(pipe')
    BY <1>4, <2>1, PipeGrows DEF handleRedisExpiration, delStatus
  <2> QED BY <1>4, <2>2, ClaimsStay DEF handleRedisExpiration, Corrections
<1>5. CASE CommandFailed
  <2>1. Head(replies) \in Range(replies) /\ ~Head(replies).ok
    BY <1>5, RangeHeadTail DEF CommandFailed, TypeOK
  <2>2. errors = 0
    BY CountsGrow DEF TypeOK
  <2> QED BY <2>1, <2>2 DEF AnsweredSoFar
<1>6. CASE RedisFails
  BY <1>6 DEF RedisFails, TypeOK
<1> QED BY <1>1, <1>2, <1>3, <1>4, <1>5, <1>6, RedisClaims, HashIsSetClaims, PongIsStoredClaims
        DEF Next, ReplyHandled, Telling, Crash
-----------------------------------------------------------------------------
(* Views.                                                                   *)

\* Who is not tracked was told nothing that counts.
ViewsReset == \A c \in Conns : c \notin DOMAIN clients => \A u \in Users : view[c][u] = "unknown"

\* What the helpers on views return.
LEMMA ViewsAt ==
    ASSUME NEW v, NEW c \in Conns, NEW u \in Users
    PROVE  /\ \A cs, news : Tell(v, cs, news)[c][u] =
                 IF c \in cs /\ u \in DOMAIN news THEN news[u] ELSE v[c][u]
           /\ \A skip, w, s : broadcastStatus(v, skip, w, s)[c][u] =
                 IF c \in Receivers(skip) /\ u = w THEN s ELSE v[c][u]
           /\ \A cs : Forget(v, cs)[c][u] = IF c \in cs THEN "unknown" ELSE v[c][u]
<1>1. ASSUME NEW cs, NEW news
      PROVE  Tell(v, cs, news)[c][u] = IF c \in cs /\ u \in DOMAIN news THEN news[u] ELSE v[c][u]
  <2>1. CASE c \in cs
    <3>1. Tell(v, cs, news)[c] = [x \in Users |-> IF x \in DOMAIN news THEN news[x] ELSE v[c][x]]
      BY <2>1 DEF Tell
    <3> QED BY <2>1, <3>1
  <2>2. CASE c \notin cs
    BY <2>2 DEF Tell
  <2> QED BY <2>1, <2>2
<1>2. ASSUME NEW skip, NEW w, NEW s
      PROVE  broadcastStatus(v, skip, w, s)[c][u] = IF c \in Receivers(skip) /\ u = w THEN s ELSE v[c][u]
  <2>1. DOMAIN [x \in {w} |-> s] = {w} /\ (u = w => [x \in {w} |-> s][u] = s)
    OBVIOUS
  <2> QED BY <1>1, <2>1 DEF broadcastStatus
<1>3. \A cs : Forget(v, cs)[c][u] = IF c \in cs THEN "unknown" ELSE v[c][u]
  BY DEF Forget, NothingTold
<1> QED BY <1>1, <1>2, <1>3

\* Who watches and knows something of u watched before and knew the same.
Quiet(c, u) ==
    Watching(c)' /\ view'[c][u] # "unknown" => Watching(c) /\ view'[c][u] = view[c][u]

LEMMA ClosingOpensNone ==
    ASSUME TypeOK, NEW c, NEW d \in Conns, sock' = Closing(c), sock'[d] = "open"
    PROVE  sock[d] = "open"
BY DEF Closing, TypeOK

LEMMA QuietStep ==
    ASSUME TypeOK, ViewsReset, [Next]_vars, ~Telling, NEW c \in Conns, NEW u \in Users
    PROVE  Quiet(c, u)
<1> USE DEF gateway, history, Watching, Quiet
<1>0. ASSUME UNCHANGED <<sock, view>>, DOMAIN clients' \subseteq DOMAIN clients PROVE Quiet(c, u)
  BY <1>0
<1>1. ASSUME NEW d \in Conns, Client(d) PROVE Quiet(c, u)
  <2>1. CASE handleConnection(d)
    <3>1. d \notin DOMAIN clients /\ clients' = clients /\ view' = view /\ (c # d => sock'[c] = sock[c])
      BY <2>1 DEF handleConnection, RefersTo, TypeOK
    <3> QED BY <3>1
  <2>2. CASE handleDisconnect(d)
    <3>1. /\ clients' = Untrack(d) /\ view' = Forget(view, {d})
          /\ (c # d => sock'[c] = sock[c])
      BY <2>2 DEF handleDisconnect, TypeOK
    <3>2. DOMAIN clients' = DOMAIN clients \ {d}
      BY <3>1, MapUids
    <3>3. c # d => view'[c][u] = view[c][u]
      BY <3>1, ViewsAt
    <3> QED BY <3>1, <3>2, <3>3
  <2>3. CASE BadRequest(d)
    BY <2>3, ClosingOpensNone DEF BadRequest
  <2>4. CASE SubscribeGuest(d)
    <3>1. clients' = Track(d, NoUser) /\ view' = Forget(view, {d}) /\ sock' = sock
      BY <2>4 DEF SubscribeGuest
    <3>2. DOMAIN clients' = DOMAIN clients \cup {d}
      BY <3>1, MapUids
    <3>3. (c = d => view'[c][u] = "unknown") /\ (c # d => view'[c][u] = view[c][u])
      BY <3>1, ViewsAt
    <3> QED BY <3>1, <3>2, <3>3
  <2>5. CASE UnsubscribeGuest(d)
    <3>1. clients' = Untrack(d) /\ view' = Forget(view, {d}) /\ sock' = sock
      BY <2>5 DEF UnsubscribeGuest, Acknowledge
    <3>2. DOMAIN clients' = DOMAIN clients \ {d}
      BY <3>1, MapUids
    <3>3. (c = d => view'[c][u] = "unknown") /\ (c # d => view'[c][u] = view[c][u])
      BY <3>1, ViewsAt
    <3> QED BY <3>1, <3>2, <3>3
  <2>6. CASE pong(d)
    BY <1>0, <2>6 DEF pong
  <2> QED BY <1>1, <2>1, <2>2, <2>3, <2>4, <2>5, <2>6 DEF Client
<1>2. ASSUME NEW m \in Message, handleMessage(m) \/ CheckDone(m) PROVE Quiet(c, u)
  <2>1. CASE handleMessage(m) \/ subscribeMessage(m)
    BY <1>0, <2>1 DEF handleMessage, subscribeMessage
  <2>2. CASE CheckRefuses(m)
    BY <2>2, ClosingOpensNone DEF CheckRefuses
  <2>3. CASE unsubscribeMessage(m)
    <3>1. UNCHANGED <<sock, view>> /\ (clients' = clients \/ clients' = Untrack(m.conn))
      BY <2>3 DEF unsubscribeMessage, Acknowledge
    <3> QED BY <1>0, <3>1, MapUids
  <2> QED BY <1>2, <2>1, <2>2, <2>3 DEF CheckDone
<1>3. CASE ping
  <2>1. /\ DOMAIN clients' \subseteq DOMAIN clients /\ sock' = sock
        /\ view' = Forget(view, DOMAIN clients \ DOMAIN clients')
    BY <1>3 DEF ping
  <2>2. c \in DOMAIN clients' => view'[c][u] = view[c][u]
    BY <2>1, ViewsAt
  <2> QED BY <2>1, <2>2
<1>4. CASE Exit
  BY <1>4, ExitEmpties
<1>5. CASE CommandFailed \/ Crash
  BY <1>0, <1>4, <1>5 DEF CommandFailed, Crash
<1>6. CASE Redis \/ HashIsSet \/ PongIsStored \/ handleRedisExpiration
           \/ (\E w \in Users : Expire(w)) \/ RedisFails \/ Restart \/ UNCHANGED vars
  <2>1. UNCHANGED <<sock, clients, view>>
    BY <1>6 DEF Redis, RedisHSet, RedisSetEX, RedisHGetAll, RedisHDel, Execute, HashIsSet, PongIsStored,
         handleRedisExpiration, Expire, RedisFails, Restart, vars
  <2> QED BY <1>0, <2>1
<1> QED BY <1>1, <1>2, <1>3, <1>5, <1>6 DEF Next, ReplyHandled, Telling
(* What the four telling steps do to the views.                             *)
LEMMA StatusIsSetViews ==
    ASSUME TypeOK, StatusIsSet, NEW c \in Conns, NEW u \in Users
    PROVE  /\ DOMAIN clients' = DOMAIN clients \cup {Head(replies).call.conn} /\ sock' = sock
           /\ \/ view'[c][u] = view[c][u]
                 /\ (c \in DOMAIN clients' /\ sock[c] = "open" => u # Head(replies).call.user)
              \/ view'[c][u] = "unknown"
              \/ view'[c][u] = "online" /\ u = Head(replies).call.user /\ c \in DOMAIN clients'
<1> DEFINE d == Head(replies).call.conn
           w == Head(replies).call.user
           told == broadcastStatus(view, d, w, "online")
           news == [x \in {w} |-> "online"]
<1>1. /\ DOMAIN clients' = DOMAIN clients \cup {d} /\ sock' = sock
      /\ view' = IF Head(replies).call.reset THEN Forget(told, {d})
                 ELSE Tell(told, {d} \cap {x \in Conns : sock[x] = "open"}, news)
  BY MapUids DEF StatusIsSet
<1>2. /\ c \in Receivers(d) /\ u = w => told[c][u] = "online"
      /\ ~(c \in Receivers(d) /\ u = w) => told[c][u] = view[c][u]
  BY ViewsAt
<1>3. c \in Receivers(d) <=> c \in DOMAIN clients /\ c # d /\ sock[c] = "open"
  BY DEF Receivers
<1>4. DOMAIN news = {w} /\ news[w] = "online"
  OBVIOUS
<1> HIDE DEF news, told, d, w
<1>5. CASE Head(replies).call.reset
  <2>1. (c = d => view'[c][u] = "unknown") /\ (c # d => view'[c][u] = told[c][u])
    BY <1>1, <1>5, ViewsAt
  <2> QED BY <1>1, <1>2, <1>3, <2>1 DEF d, w
<1>6. CASE ~Head(replies).call.reset
  <2>1. /\ c = d /\ sock[c] = "open" /\ u = w => view'[c][u] = "online"
        /\ ~(c = d /\ sock[c] = "open" /\ u = w) => view'[c][u] = told[c][u]
    BY <1>1, <1>4, <1>6, ViewsAt
  <2> QED BY <1>1, <1>2, <1>3, <2>1 DEF d, w
<1> QED BY <1>5, <1>6

LEMMA SnapshotIsReadViews ==
    ASSUME TypeOK, SnapshotIsRead, NEW c \in Conns, NEW u \in Users
    PROVE  /\ clients' = clients /\ sock' = sock
           /\ \/ view'[c][u] = view[c][u]
              \/ /\ c \in DOMAIN clients
                 /\ view'[c][u] = IF u \in Head(replies).result THEN "online" ELSE "offline"
<1> DEFINE snapshot == [x \in Users |-> IF x \in Head(replies).result THEN "online" ELSE "offline"]
           asker == {Head(replies).call.conn} \cap Receivers(NoConn)
<1>1. /\ view' = Tell(view, asker, snapshot)
      /\ clients' = clients /\ sock' = sock
  BY DEF SnapshotIsRead, gateway
<1>2. DOMAIN snapshot = Users /\ snapshot[u] = IF u \in Head(replies).result THEN "online" ELSE "offline"
  OBVIOUS
<1>4. c \in asker => c \in DOMAIN clients
  BY DEF Receivers
<1> HIDE DEF snapshot, asker
<1>3. /\ c \in asker /\ u \in DOMAIN snapshot => Tell(view, asker, snapshot)[c][u] = snapshot[u]
      /\ c \notin asker => Tell(view, asker, snapshot)[c][u] = view[c][u]
  BY ViewsAt
<1> QED BY <1>1, <1>2, <1>3, <1>4 DEF asker

LEMMA StatusIsDeletedViews ==
    ASSUME TypeOK, StatusIsDeleted, NEW c \in Conns, NEW u \in Users
    PROVE  /\ DOMAIN clients' = DOMAIN clients \ {Head(replies).call.conn} /\ sock' = sock
           /\ c = Head(replies).call.conn => view'[c][u] = "unknown"
           /\ \/ view'[c][u] = view[c][u]
                 /\ (c \in DOMAIN clients' /\ sock[c] = "open" => u # Head(replies).call.user)
              \/ view'[c][u] = "unknown"
              \/ view'[c][u] = "offline" /\ u = Head(replies).call.user /\ c \in DOMAIN clients'
<1> DEFINE d == Head(replies).call.conn
           w == Head(replies).call.user
           told == broadcastStatus(view, d, w, "offline")
<1>1. DOMAIN clients' = DOMAIN clients \ {d} /\ sock' = sock /\ view' = Forget(told, {d})
  BY MapUids DEF StatusIsDeleted, Acknowledge
<1>2. /\ c \in Receivers(d) /\ u = w => told[c][u] = "offline"
      /\ ~(c \in Receivers(d) /\ u = w) => told[c][u] = view[c][u]
  BY ViewsAt
<1>3. c \in Receivers(d) <=> c \in DOMAIN clients /\ c # d /\ sock[c] = "open"
  BY DEF Receivers
<1> HIDE DEF told, d, w
<1>4. (c = d => view'[c][u] = "unknown") /\ (c # d => view'[c][u] = told[c][u])
  BY <1>1, ViewsAt
<1> QED BY <1>1, <1>2, <1>3, <1>4 DEF d, w

LEMMA ExpiredIsDeletedViews ==
    ASSUME TypeOK, ExpiredIsDeleted, NEW c \in Conns, NEW u \in Users
    PROVE  /\ clients' = clients /\ sock' = sock
           /\ \/ view'[c][u] = view[c][u]
                 /\ (c \in DOMAIN clients /\ sock[c] = "open" =>
                        u # Head(replies).call.user \/ Head(replies).result = {})
              \/ view'[c][u] = "offline" /\ u = Head(replies).call.user /\ c \in DOMAIN clients
<1> DEFINE w == Head(replies).call.user
           told == broadcastStatus(view, NoConn, w, "offline")
<1>1. /\ clients' = clients /\ sock' = sock
      /\ view' = IF Head(replies).result # {} THEN told ELSE view
  BY DEF ExpiredIsDeleted, gateway
<1>2. told[c][u] = IF c \in Receivers(NoConn) /\ u = w THEN "offline" ELSE view[c][u]
  BY ViewsAt
<1>3. c \in Receivers(NoConn) <=> c \in DOMAIN clients /\ sock[c] = "open"
  BY NoConnAssumption DEF Receivers
<1> HIDE DEF told, w
<1> QED BY <1>1, <1>2, <1>3 DEF w

LEMMA ResetStep == TypeOK /\ ViewsReset /\ [Next]_vars => ViewsReset'
<1> SUFFICES ASSUME TypeOK, ViewsReset, [Next]_vars, NEW c \in Conns, c \notin DOMAIN clients', NEW u \in Users
             PROVE  view'[c][u] = "unknown"
  BY DEF ViewsReset
<1> USE DEF ViewsReset, gateway, history
<1>0. ASSUME view' = view, DOMAIN clients \subseteq DOMAIN clients' PROVE view'[c][u] = "unknown"
  BY <1>0
<1>1. ASSUME NEW d \in Conns, Client(d) PROVE view'[c][u] = "unknown"
  <2>1. CASE handleConnection(d) \/ BadRequest(d) \/ pong(d)
    BY <1>0, <2>1 DEF handleConnection, BadRequest, pong
  <2>2. CASE handleDisconnect(d) \/ SubscribeGuest(d) \/ UnsubscribeGuest(d)
    <3>1. view' = Forget(view, {d}) /\ (clients' = Untrack(d) \/ clients' = Track(d, NoUser))
      BY <2>2 DEF handleDisconnect, SubscribeGuest, UnsubscribeGuest, Acknowledge
    <3>2. DOMAIN clients \subseteq DOMAIN clients' \cup {d}
      <4>1. DOMAIN Untrack(d) = DOMAIN clients \ {d} /\ DOMAIN Track(d, NoUser) = DOMAIN clients \cup {d}
        BY MapUids
      <4> QED BY <3>1, <4>1
    <3>3. (c = d => view'[c][u] = "unknown") /\ (c # d => view'[c][u] = view[c][u])
      BY <3>1, ViewsAt
    <3> QED BY <3>2, <3>3
  <2> QED BY <1>1, <2>1, <2>2 DEF Client
<1>2. ASSUME NEW m \in Message, handleMessage(m) \/ CheckDone(m) PROVE view'[c][u] = "unknown"
  <2>1. CASE handleMessage(m) \/ subscribeMessage(m) \/ CheckRefuses(m)
    BY <1>0, <2>1 DEF handleMessage, subscribeMessage, CheckRefuses
  <2>2. CASE unsubscribeMessage(m)
    <3>1. view' = view /\ (clients' = clients \/ (m.conn \notin DOMAIN clients /\ clients' = Untrack(m.conn)))
      BY <2>2 DEF unsubscribeMessage, Acknowledge
    <3> QED BY <1>0, <3>1, MapUids
  <2> QED BY <1>2, <2>1, <2>2 DEF CheckDone
<1>3. CASE ping
  <2>1. view' = Forget(view, DOMAIN clients \ DOMAIN clients')
    BY <1>3 DEF ping
  <2>2. /\ c \in DOMAIN clients => view'[c][u] = "unknown"
        /\ c \notin DOMAIN clients => view'[c][u] = view[c][u]
    BY <2>1, ViewsAt
  <2> QED BY <2>2
<1>4. ASSUME Exit PROVE view'[c][u] = "unknown"
  <2>1. view' = Forget(view, Conns)
    BY <1>4 DEF Exit
  <2> QED BY <2>1, ViewsAt
<1>5. CASE CommandFailed \/ Crash
  BY <1>0, <1>4, <1>5 DEF CommandFailed, Crash
<1>6. CASE Redis \/ HashIsSet \/ PongIsStored \/ handleRedisExpiration
           \/ (\E w \in Users : Expire(w)) \/ RedisFails \/ Restart \/ UNCHANGED vars
  <2>1. UNCHANGED <<clients, view>>
    BY <1>6 DEF Redis, RedisHSet, RedisSetEX, RedisHGetAll, RedisHDel, Execute, HashIsSet, PongIsStored,
         handleRedisExpiration, Expire, RedisFails, Restart, vars
  <2> QED BY <1>0, <2>1
<1>7. CASE StatusIsSet
  BY <1>7, StatusIsSetViews
<1>8. CASE SnapshotIsRead
  BY <1>8, SnapshotIsReadViews
<1>9. CASE StatusIsDeleted
  BY <1>9, StatusIsDeletedViews
<1>10. CASE ExpiredIsDeleted
  BY <1>10, ExpiredIsDeletedViews
<1> QED BY <1>1, <1>2, <1>3, <1>5, <1>6, <1>7, <1>8, <1>9, <1>10 DEF Next, ReplyHandled
-----------------------------------------------------------------------------
(* The two view properties.                                                 *)

Views == TypeOK /\ AnsweredSoFar /\ ViewsReset /\ SnapshotsRight
\* What c was told of u is right or will be corrected.
Right(c, u) ==
    Watching(c) => /\ view[c][u] = "online" => OnlineClaim(u)
                   /\ view[c][u] = "offline" => OfflineClaim(u)
AllRight == errors = 0 => \A c \in Conns, u \in Users : Right(c, u)

LEMMA QuietIsRight ==
    ASSUME NEW c, NEW u, Right(c, u), Quiet(c, u), ClaimsKept(u)
    PROVE  Right(c, u)'
BY DEF Right, Quiet, ClaimsKept

\* The news that an answer brings is right: the hash agrees, or a later reply corrects it.
LEMMA NewsIsRight ==
    ASSUME TypeOK, AnsweredSoFar, SnapshotsRight, errors = 0, NEW u \in Users, replies # <<>>,
           replies' = Tail(replies), UNCHANGED <<status, silent>>
    PROVE  /\ Head(replies) \in Affirms(u) /\ (u \in overtaken => u \in overtaken') => OnlineClaim(u)'
           /\ Head(replies) \in Denies(u) => OfflineClaim(u)'
<1>1. AffirmsRight(u) /\ DeniesRight(u) /\ replies \in Seq(Reply)
  BY DEF SnapshotsRight, TypeOK
<1>2. ASSUME Head(replies) \in Affirms(u) PROVE OnlineClaim(u)'
  <2>1. u \in status \/ \E r \in Range(replies') : r \in Removes(u)
    BY <1>1, <1>2, FollowedTail DEF AffirmsRight
  <2> QED BY <2>1 DEF OnlineClaim, OfflineIsComing, Removes
<1>3. ASSUME Head(replies) \in Denies(u) PROVE OfflineClaim(u)'
  <2>1. u \notin status \ silent \/ \E r \in Range(replies') : r \in Announces(u)
    BY <1>1, <1>3, FollowedTail DEF DeniesRight
  <2>2. \A r \in Range(replies') : r.ok
    BY <1>1, RangeHeadTail DEF AnsweredSoFar
  <2> QED BY <2>1, <2>2 DEF OfflineClaim, OnlineIsComing, Unhandled, Announces
<1> QED BY <1>2, <1>3

LEMMA TellingIsRight ==
    ASSUME Views, AllRight, errors = 0, Telling, NEW c \in Conns, NEW u \in Users
    PROVE  Right(c, u)'
<1> USE DEF Views, Watching
<1> DEFINE w == Head(replies).call.user
<1>1. Right(c, u)
  BY DEF AllRight
<1>2. replies # <<>> /\ replies' = Tail(replies) /\ Head(replies) \in Reply /\ UNCHANGED <<status, silent>>
  <2>1. \E op, task : Answered(op, task)
    BY DEF Telling, StatusIsSet, SnapshotIsRead, StatusIsDeleted, ExpiredIsDeleted
  <2>2. UNCHANGED <<status, silent>>
    BY DEF Telling, StatusIsSet, SnapshotIsRead, StatusIsDeleted, ExpiredIsDeleted, store, history
  <2> QED BY <2>1, <2>2, HeadReply DEF Answered
<1>3. /\ Head(replies) \in Affirms(u) /\ (u \in overtaken => u \in overtaken') => OnlineClaim(u)'
      /\ Head(replies) \in Denies(u) => OfflineClaim(u)'
  BY <1>2, NewsIsRight
<1>4. CASE StatusIsSet
  <2>1. Answered("set", "subscribe")
    BY <1>4 DEF StatusIsSet
  <2>2. w \in Users /\ (u \in overtaken => u \in overtaken') /\ w \in status' \cup overtaken'
    BY <1>2, <1>4, <2>1, AnsweredType DEF StatusIsSet
  <2>3. Range(pipe) \subseteq Range(pipe')
    <3>1. Head(replies).call.conn \in Conns /\ w \in Uid
      BY <2>1, AnsweredType
    <3>2. Call("hGetAll", "subscribe", Head(replies).call.conn, w, TRUE) \in RedisCall
      BY <3>1, CallTypes
    <3> QED BY <1>4, <3>2, PipeGrows DEF StatusIsSet, getOnlineUsers
  <2>4. u # w => ClaimsKept(u)
    BY <1>2, <2>1, <2>2, <2>3, AnswerClaims
  <2>5. CASE u = w
    <3>1. OnlineClaim(u)'
      BY <2>2, <2>5 DEF OnlineClaim
    <3>2. Watching(c)' => view'[c][u] = "unknown" \/ view'[c][u] = "online"
      BY <1>4, <2>5, StatusIsSetViews
    <3> QED BY <3>1, <3>2 DEF Right
  <2>6. CASE u # w
    <3>1. view'[c][u] = view[c][u] \/ view'[c][u] = "unknown"
      BY <1>4, <2>6, StatusIsSetViews
    <3>2. Watching(c)' /\ view'[c][u] # "unknown" => Watching(c)
      BY <1>4, <3>1, StatusIsSetViews DEF ViewsReset
    <3>3. Quiet(c, u)
      BY <3>1, <3>2 DEF Quiet
    <3> QED BY <1>1, <2>4, <2>6, <3>3, QuietIsRight
  <2> QED BY <2>5, <2>6
<1>5. CASE SnapshotIsRead
  <2>1. Answered("hGetAll", "subscribe") /\ pipe' = pipe /\ overtaken' = overtaken
    BY <1>5 DEF SnapshotIsRead
  <2>2. ClaimsKept(u)
    BY <1>2, <2>1, AnswerClaims
  <2>3. Watching(c)' => Watching(c)
    BY <1>5, SnapshotIsReadViews
  <2>4. CASE view'[c][u] = view[c][u]
    BY <1>1, <2>2, <2>3, <2>4 DEF Right, ClaimsKept
  <2>5. CASE view'[c][u] = IF u \in Head(replies).result THEN "online" ELSE "offline"
    <3>1. IF u \in Head(replies).result THEN Head(replies) \in Affirms(u) ELSE Head(replies) \in Denies(u)
      BY <1>2, <2>1 DEF Answered, Affirms, Denies
    <3> QED BY <1>3, <2>1, <2>5, <3>1 DEF Right
  <2> QED BY <1>5, <2>4, <2>5, SnapshotIsReadViews
<1>6. CASE StatusIsDeleted
  <2>1. Answered("hDel", "unsubscribe") /\ pipe' = pipe
    BY <1>6 DEF StatusIsDeleted
  <2>2. u # w => ClaimsKept(u)
    <3>1. overtaken' = overtaken \ {w}
      BY <1>6 DEF StatusIsDeleted
    <3> QED BY <1>2, <2>1, <3>1, AnswerClaims
  <2>3. u = w => OfflineClaim(u)'
    BY <1>2, <1>3, <2>1 DEF Answered, Denies
  <2>4. Watching(c)' => Watching(c)
    BY <1>6, StatusIsDeletedViews
  <2>5. CASE view'[c][u] = view[c][u] /\ (c \in DOMAIN clients' /\ sock[c] = "open" => u # w)
    <3>1. Watching(c)' => u # w
      BY <1>6, <2>5, StatusIsDeletedViews
    <3> QED BY <1>1, <2>2, <2>4, <2>5, <3>1 DEF Right, ClaimsKept
  <2>6. CASE view'[c][u] = "unknown" \/ (view'[c][u] = "offline" /\ u = w)
    BY <2>3, <2>6 DEF Right
  <2> QED BY <1>6, <2>5, <2>6, StatusIsDeletedViews
<1>7. CASE ExpiredIsDeleted
  <2>1. Answered("hDel", "expire") /\ pipe' = pipe /\ Head(replies).call.op = "hDel"
    BY <1>7 DEF ExpiredIsDeleted, Answered
  <2>2. u # w => ClaimsKept(u)
    <3>1. overtaken' = overtaken \/ overtaken' = overtaken \ {w}
      BY <1>7 DEF ExpiredIsDeleted
    <3> QED BY <1>2, <2>1, <3>1, AnswerClaims
  <2>3. u = w => OfflineClaim(u)'
    BY <1>2, <1>3, <2>1 DEF Denies
  <2>4. Watching(c)' => Watching(c)
    BY <1>7, ExpiredIsDeletedViews
  <2>5. u = w /\ Head(replies).result = {} => ClaimsKept(u)
    <3>1. ASSUME u = w, Head(replies).result = {} PROVE overtaken' = overtaken
      BY <1>7, <3>1 DEF ExpiredIsDeleted
    <3>2. Range(replies) = {Head(replies)} \cup Range(replies') /\ Head(replies).call.task = "expire"
      BY <2>1, AnsweredRanges DEF Answered
    <3> QED BY <1>2, <2>1, <3>1, <3>2
            DEF ClaimsKept, OnlineClaim, OfflineClaim, OfflineIsComing, OnlineIsComing, Issued, Unhandled
  <2>6. CASE /\ view'[c][u] = view[c][u]
             /\ c \in DOMAIN clients /\ sock[c] = "open" => u # w \/ Head(replies).result = {}
    <3>1. Watching(c)' => ClaimsKept(u)
      BY <2>2, <2>4, <2>5, <2>6
    <3> QED BY <1>1, <2>4, <2>6, <3>1 DEF Right, ClaimsKept
  <2>7. CASE view'[c][u] = "offline" /\ u = w
    BY <2>3, <2>7 DEF Right
  <2> QED BY <1>7, <2>6, <2>7, ExpiredIsDeletedViews
<1> QED BY <1>4, <1>5, <1>6, <1>7 DEF Telling

LEMMA RightStep == Views /\ AllRight /\ [Next]_vars => AllRight'
<1> SUFFICES ASSUME Views, AllRight, [Next]_vars, errors' = 0, NEW c \in Conns, NEW u \in Users
             PROVE  Right(c, u)'
  BY DEF AllRight
<1>1. errors = 0 /\ Right(c, u)
  BY CountsGrow DEF Views, TypeOK, AllRight
<1>2. CASE Telling
  BY <1>1, <1>2, TellingIsRight
<1>3. CASE ~Telling
  <2>1. Quiet(c, u)
    BY <1>3, QuietStep DEF Views
  <2>2. CASE Exit
    BY <2>2, ExitEmpties DEF Right, Watching
  <2>3. CASE Next /\ ~Exit
    <3>1. ClaimsKept(u)
      BY <1>3, <2>3, ClaimsStep DEF Views
    <3> QED BY <1>1, <2>1, <3>1, QuietIsRight
  <2>4. CASE UNCHANGED vars
    <3>1. ClaimsKept(u)
      BY <2>4, ClaimsStay DEF vars, store, history, Corrections
    <3> QED BY <1>1, <2>1, <3>1, QuietIsRight
  <2> QED BY <2>2, <2>3, <2>4
<1> QED BY <1>2, <1>3

LEMMA AlwaysRight == Spec => [](Views /\ AllRight)
<1>1. Init => Views /\ AllRight
  <2> SUFFICES ASSUME Init PROVE Views /\ AllRight
    OBVIOUS
  <2>1. /\ DOMAIN clients = {} /\ status = {} /\ replies = <<>> /\ Range(replies) = {}
        /\ \A c \in Conns, u \in Users : view[c][u] = "unknown"
    BY DEF Init, Range, NothingTold
  <2> QED BY <2>1, InitType DEF Views, AnsweredSoFar, ViewsReset, SnapshotsRight, AffirmsRight,
             DeniesRight,
          Followed, AllRight, Right, Watching
<1>2. Views /\ AllRight /\ [Next]_vars => (Views /\ AllRight)'
  BY TypeStep, AnsweredStep, ResetStep, SnapshotsStep, RightStep DEF Views
<1> QED BY <1>1, <1>2, PTL DEF Spec

(* Until a command fails, and through any number of exits, a client that shows a user as *)
(* online is right, or a removal that will be broadcast to it has been executed, unless   *)
(* the user's own online broadcast came after the removal: handleRedisExpiration and      *)
(* unsubscribeMessage announce every removal, and no snapshot overwrites newer news.      *)
THEOREM OnlineViews == Spec => []OnlineViewJustified
<1>1. AllRight => OnlineViewJustified
  BY DEF AllRight, Right, OnlineClaim, OnlineViewJustified
<1> QED BY <1>1, AlwaysRight, PTL

(* A client that shows a user as offline is right or will hear of the subscription that   *)
(* is under way, unless a pong put the user back: subscribeMessage tracks the client      *)
(* before it asks for the snapshot (message 33, 37), so it misses no broadcast.           *)
THEOREM OfflineViews == Spec => []OfflineViewJustified
<1>1. AllRight => OfflineViewJustified
  BY DEF AllRight, Right, OfflineClaim, OfflineViewJustified
<1> QED BY <1>1, AlwaysRight, PTL

\* With no command and no notification under way, what is shown is what the hash holds, up
\* to the two exceptions, and until the first exit the hash holds nobody whose key has ended.
QuietViews ==
    errors = 0 /\ Calls = {} /\ events = <<>> =>
        /\ crashes = 0 /\ KeyspaceEvents => status \subseteq ttlKey
        /\ \A c \in Conns, u \in Users : Watching(c) =>
              /\ view[c][u] = "online" => u \in status \cup overtaken
              /\ view[c][u] = "offline" => u \notin status \ silent

(* Once everything is answered a watching client shows exactly who is in the hash. The    *)
(* one stale online status there is, which QuietViewIsRight shows, is that of a user      *)
(* whose set was answered after another handler had removed it (message 29); the one      *)
(* stale offline status is that of a user whom a pong put back unannounced (message 125). *)
THEOREM QuietPresence == Spec => []QuietViews
<1>1. OnlineViewJustified /\ OfflineViewJustified /\ NoGhostOnline => QuietViews
  <2> SUFFICES ASSUME OnlineViewJustified, OfflineViewJustified, NoGhostOnline,
                      errors = 0, Calls = {}, events = <<>>
               PROVE  /\ crashes = 0 /\ KeyspaceEvents => status \subseteq ttlKey
                      /\ \A c \in Conns, u \in Users : Watching(c) =>
                            /\ view[c][u] = "online" => u \in status \cup overtaken
                            /\ view[c][u] = "offline" => u \notin status \ silent
    BY DEF QuietViews
  <2>1. Range(pipe) = {} /\ Range(replies) = {} /\ Range(events) = {}
    <3>1. Range(events) = {}
      BY DEF Range
    <3>2. Range(pipe) = {}
      BY DEF Calls
    <3>3. \A r \in Range(replies) : r.call \in Calls
      BY DEF Calls
    <3> QED BY <3>1, <3>2, <3>3
  <2>2. \A u : ~OfflineIsComing(u) /\ ~OnlineIsComing(u)
    BY <2>1 DEF OfflineIsComing, OnlineIsComing, Issued, Unhandled
  <2>3. \A u : Guarded(u) => u \in ttlKey
    BY <2>1 DEF Guarded, Issued, Unhandled
  <2> QED BY <2>2, <2>3 DEF OnlineViewJustified, OfflineViewJustified, NoGhostOnline
<1> QED BY <1>1, OnlineViews, OfflineViews, NoGhosts, PTL

-----------------------------------------------------------------------------
(* A client whose socket is closed leaves the Map: what the code does about  *)
(* subscribeMessage tracking a client after its close event (message 33).    *)

Has(s, P) == \E i \in DOMAIN s : s[i] \in P
Lone(s, P) == \A i, j \in DOMAIN s : s[i] \in P /\ s[j] \in P => i = j

LEMMA LoneTail ==
    ASSUME NEW S, NEW s \in Seq(S), s # <<>>, NEW P, Lone(s, P)
    PROVE  /\ Lone(Tail(s), P)
           /\ Has(s, P) <=> Has(Tail(s), P) \/ Head(s) \in P
           /\ ~(Has(Tail(s), P) /\ Head(s) \in P)
<1> DEFINE t == Tail(s)
<1>1. /\ Len(s) \in Nat \ {0} /\ DOMAIN s = 1 .. Len(s) /\ DOMAIN t = 1 .. (Len(s) - 1)
      /\ Head(s) = s[1] /\ \A i \in 1 .. (Len(s) - 1) : t[i] = s[i + 1]
  OBVIOUS
<1> HIDE DEF t
<1>2. \A i \in DOMAIN t : i + 1 \in DOMAIN s /\ i + 1 # 1 /\ t[i] = s[i + 1]
  BY <1>1
<1>3. \A i \in DOMAIN s : i = 1 \/ (i - 1 \in DOMAIN t /\ t[i - 1] = s[i])
  BY <1>1
<1>4. 1 \in DOMAIN s /\ Head(s) = s[1]
  BY <1>1
<1>5. Lone(t, P)
  <2> SUFFICES ASSUME NEW i \in DOMAIN t, NEW j \in DOMAIN t, t[i] \in P, t[j] \in P PROVE i = j
    BY DEF Lone
  <2>1. i + 1 = j + 1
    BY <1>2 DEF Lone
  <2> QED BY <1>1, <2>1
<1>6. Has(s, P) <=> Has(t, P) \/ Head(s) \in P
  BY <1>2, <1>3, <1>4 DEF Has
<1>7. ~(Has(t, P) /\ Head(s) \in P)
  BY <1>2, <1>4 DEF Has, Lone
<1> QED BY <1>5, <1>6, <1>7 DEF t

LEMMA LoneAppend ==
    ASSUME NEW S, NEW s \in Seq(S), NEW x \in S, NEW P
    PROVE  /\ Has(Append(s, x), P) <=> Has(s, P) \/ x \in P
           /\ Lone(s, P) /\ ~(Has(s, P) /\ x \in P) => Lone(Append(s, x), P)
<1> DEFINE t == Append(s, x)
<1>1. /\ Len(s) \in Nat /\ DOMAIN s = 1 .. Len(s) /\ DOMAIN t = 1 .. (Len(s) + 1)
      /\ t[Len(s) + 1] = x /\ \A i \in 1 .. Len(s) : t[i] = s[i]
  OBVIOUS
<1> HIDE DEF t
<1>2. \A i \in DOMAIN t : i = Len(s) + 1 \/ (i \in DOMAIN s /\ t[i] = s[i])
  BY <1>1
<1>3. Len(s) + 1 \in DOMAIN t /\ \A i \in DOMAIN s : i \in DOMAIN t /\ t[i] = s[i]
  BY <1>1
<1>4. Has(t, P) <=> Has(s, P) \/ x \in P
  BY <1>1, <1>2, <1>3 DEF Has
<1>5. Lone(s, P) /\ ~(Has(s, P) /\ x \in P) => Lone(t, P)
  BY <1>1, <1>2 DEF Has, Lone
<1> QED BY <1>4, <1>5 DEF t

\* The same places hold elements of P.
LEMMA LoneSame ==
    ASSUME NEW s, NEW t, NEW P, DOMAIN s = DOMAIN t, \A i \in DOMAIN s : s[i] \in P <=> t[i] \in P
    PROVE  (Has(s, P) <=> Has(t, P)) /\ (Lone(s, P) <=> Lone(t, P))
BY DEF Has, Lone

\* The commands of a subscription of c that track c when the second one is answered.
Adopts(c) == {k \in RedisCall : k.op \in {"hSet", "set"} /\ k.task = "subscribe" /\ k.conn = c}
AdoptReplies(c) == {r \in Reply : r.call \in Adopts(c)}
Asks(c) == {m \in checks : m.conn = c /\ m.type = "subscribe"}
Subscribing(c) == Asks(c) # {} \/ Has(pipe, Adopts(c)) \/ Has(replies, AdoptReplies(c))
\* At most one subscription of c is under way.
Single(c) ==
    /\ Lone(pipe, Adopts(c)) /\ Lone(replies, AdoptReplies(c))
    /\ ~(Has(pipe, Adopts(c)) /\ Has(replies, AdoptReplies(c)))
    /\ \A m, n \in Asks(c) : m = n
    /\ Asks(c) # {} => ~Has(pipe, Adopts(c)) /\ ~Has(replies, AdoptReplies(c))
\* A step that leaves c with one subscription at most, and with none if it had none.
Finishes(c) == Single(c)' /\ (Subscribing(c)' => Subscribing(c))

(* What the two FIFOs do to the subscription of c. *)
LEMMA FinishMoved ==
    ASSUME TypeOK, NEW c, Single(c), pipe # <<>>, pipe' = Tail(pipe), checks' = checks,
           NEW r \in Reply, r.call = Head(pipe), replies' = Append(replies, r)
    PROVE  Finishes(c)
<1>1. pipe \in Seq(RedisCall) /\ replies \in Seq(Reply) /\ Lone(pipe, Adopts(c)) /\ Lone(replies, AdoptReplies(c))
  BY DEF TypeOK, Single
<1>2. r \in AdoptReplies(c) <=> Head(pipe) \in Adopts(c)
  BY DEF AdoptReplies
<1>3. /\ Lone(pipe', Adopts(c)) /\ (Has(pipe, Adopts(c)) <=> Has(pipe', Adopts(c)) \/ Head(pipe) \in Adopts(c))
      /\ ~(Has(pipe', Adopts(c)) /\ Head(pipe) \in Adopts(c))
  BY <1>1, LoneTail
<1>4. /\ Has(replies', AdoptReplies(c)) <=> Has(replies, AdoptReplies(c)) \/ r \in AdoptReplies(c)
      /\ ~(Has(replies, AdoptReplies(c)) /\ r \in AdoptReplies(c)) => Lone(replies', AdoptReplies(c))
  BY <1>1, LoneAppend
<1>5. Asks(c)' = Asks(c)
  BY DEF Asks
<1>6. Adopts(c)' = Adopts(c) /\ AdoptReplies(c)' = AdoptReplies(c)
  BY DEF Adopts, AdoptReplies
<1> QED BY <1>2, <1>3, <1>4, <1>5, <1>6 DEF Single, Subscribing, Finishes

LEMMA FinishHandled ==
    ASSUME TypeOK, NEW c, Single(c), replies # <<>>, replies' = Tail(replies), checks' = checks,
           \/ pipe' = pipe
           \/ \E x \in RedisCall : /\ pipe' = Append(pipe, x)
                                   /\ x \in Adopts(c) => Head(replies).call \in Adopts(c)
    PROVE  /\ Finishes(c)
           /\ pipe' = pipe \/ (\E x \in RedisCall \ Adopts(c) : pipe' = Append(pipe, x)) =>
                 (Head(replies).call \in Adopts(c) => ~Subscribing(c)')
<1>1. pipe \in Seq(RedisCall) /\ replies \in Seq(Reply) /\ Lone(pipe, Adopts(c)) /\ Lone(replies, AdoptReplies(c))
  BY DEF TypeOK, Single
<1>2. Head(replies) \in AdoptReplies(c) <=> Head(replies).call \in Adopts(c)
  BY HeadReply DEF AdoptReplies
<1>3. /\ Lone(replies', AdoptReplies(c))
      /\ Has(replies, AdoptReplies(c)) <=> Has(replies', AdoptReplies(c)) \/ Head(replies) \in AdoptReplies(c)
      /\ ~(Has(replies', AdoptReplies(c)) /\ Head(replies) \in AdoptReplies(c))
  BY <1>1, LoneTail
<1>4. ASSUME NEW x \in RedisCall, pipe' = Append(pipe, x)
      PROVE  /\ Has(pipe', Adopts(c)) <=> Has(pipe, Adopts(c)) \/ x \in Adopts(c)
             /\ ~(Has(pipe, Adopts(c)) /\ x \in Adopts(c)) => Lone(pipe', Adopts(c))
  BY <1>1, <1>4, LoneAppend
<1>5. Asks(c)' = Asks(c)
  BY DEF Asks
<1>6. Adopts(c)' = Adopts(c) /\ AdoptReplies(c)' = AdoptReplies(c)
  BY DEF Adopts, AdoptReplies
<1>7. CASE pipe' = pipe
  BY <1>2, <1>3, <1>5, <1>6, <1>7 DEF Single, Subscribing, Finishes
<1>8. ASSUME NEW x \in RedisCall, pipe' = Append(pipe, x), x \in Adopts(c) => Head(replies).call \in Adopts(c)
      PROVE  Finishes(c) /\ (x \notin Adopts(c) /\ Head(replies).call \in Adopts(c) => ~Subscribing(c)')
  BY <1>2, <1>3, <1>4, <1>5, <1>6, <1>8 DEF Single, Subscribing, Finishes
<1>9. \A x, y \in RedisCall : Append(pipe, x) = Append(pipe, y) => x = y
  <2>1. \A z \in RedisCall : Append(pipe, z)[Len(pipe) + 1] = z
    BY <1>1
  <2> QED BY <2>1
<1> QED BY <1>7, <1>8, <1>9

\* A command that no subscription of c issues, and a check that is done.
LEMMA FinishIssued ==
    ASSUME TypeOK, NEW c, Single(c), replies' = replies, checks' \subseteq checks,
           \/ pipe' = pipe
           \/ \E x \in RedisCall : /\ pipe' = Append(pipe, x)
                                   /\ x \in Adopts(c) => Asks(c) # {} /\ Asks(c)' = {}
    PROVE  Finishes(c)
<1>1. pipe \in Seq(RedisCall)
  BY DEF TypeOK
<1>2. ASSUME NEW x \in RedisCall, pipe' = Append(pipe, x)
      PROVE  /\ Has(pipe', Adopts(c)) <=> Has(pipe, Adopts(c)) \/ x \in Adopts(c)
             /\ Lone(pipe, Adopts(c)) /\ ~(Has(pipe, Adopts(c)) /\ x \in Adopts(c)) => Lone(pipe', Adopts(c))
  BY <1>1, <1>2, LoneAppend
<1>3. Asks(c)' \subseteq Asks(c)
  BY DEF Asks
<1>4. Adopts(c)' = Adopts(c) /\ AdoptReplies(c)' = AdoptReplies(c)
  BY DEF Adopts, AdoptReplies
<1>5. CASE pipe' = pipe
  BY <1>3, <1>4, <1>5 DEF Single, Subscribing, Finishes
<1>6. ASSUME NEW x \in RedisCall, pipe' = Append(pipe, x), x \in Adopts(c) => Asks(c) # {} /\ Asks(c)' = {}
      PROVE  Finishes(c)
  BY <1>2, <1>3, <1>4, <1>6 DEF Single, Subscribing, Finishes
<1> QED BY <1>5, <1>6

LEMMA FinishEmptied ==
    ASSUME NEW c, Exit
    PROVE  Single(c)' /\ ~Subscribing(c)'
<1>1. pipe' = <<>> /\ replies' = <<>> /\ checks' = {} /\ DOMAIN <<>> = {}
  BY DEF Exit
<1>2. Asks(c)' = {}
  BY <1>1 DEF Asks
<1>3. ~Has(pipe', Adopts(c)') /\ ~Has(replies', AdoptReplies(c)')
  BY <1>1 DEF Has
<1>4. Lone(pipe', Adopts(c)') /\ Lone(replies', AdoptReplies(c)')
  BY <1>1 DEF Lone
<1> QED BY <1>2, <1>3, <1>4 DEF Single, Subscribing

LEMMA FinishReply ==
    ASSUME TypeOK, NEW c, Single(c), ReplyHandled, ~Exit
    PROVE  /\ Finishes(c)
           /\ StatusIsSet /\ Head(replies).call.conn = c => ~Subscribing(c)'
<1> USE DEF gateway
<1> DEFINE k == Head(replies).call
<1>1. ASSUME NEW op, NEW task, Answered(op, task), checks' = checks, pipe' = pipe PROVE Finishes(c)
  BY <1>1, FinishHandled DEF Answered
<1>2. CASE HashIsSet
  <2>1. PICK task \in {"subscribe", "pong"} : Answered("hSet", task)
    BY <1>2 DEF HashIsSet
  <2>2. k \in RedisCall /\ k.op = "hSet"
    BY <2>1, AnsweredType
  <2>3. k \in SetCall
    BY <2>2 DEF RedisCall, SetCall, SnapshotCall, RemovalCall, ExpiryCall
  <2> DEFINE x == [k EXCEPT !.op = "set"]
  <2>4. x.conn = k.conn /\ x.task = k.task
    BY <2>3 DEF SetCall
  <2>5. x \in RedisCall
    BY <2>2, NextCall
  <2>6. checks' = checks /\ pipe' = Append(pipe, x) /\ replies # <<>> /\ replies' = Tail(replies)
    BY <1>2, <2>1 DEF HashIsSet, Answered
  <2> HIDE DEF x
  <2>7. x \in Adopts(c) => k \in Adopts(c)
    BY <2>2, <2>4 DEF Adopts
  <2>8. ~StatusIsSet
    BY <2>1, <2>2 DEF StatusIsSet, Answered
  <2> QED BY <2>5, <2>6, <2>7, <2>8, FinishHandled
<1>3. CASE StatusIsSet
  <2> DEFINE x == Call("hGetAll", "subscribe", k.conn, k.user, TRUE)
  <2>1. Answered("set", "subscribe") /\ checks' = checks /\ replies # <<>> /\ replies' = Tail(replies)
    BY <1>3 DEF StatusIsSet, Answered
  <2>2. x \in RedisCall /\ x.op = "hGetAll"
    BY <2>1, AnsweredType, CallTypes DEF Call
  <2>3. pipe' = pipe \/ pipe' = Append(pipe, x)
    BY <1>3 DEF StatusIsSet, getOnlineUsers
  <2> HIDE DEF x
  <2>4. x \notin Adopts(c)
    BY <2>2 DEF Adopts
  <2>5. k.conn = c => k \in Adopts(c)
    BY <2>1, AnsweredType DEF Adopts
  <2>6. pipe' = pipe \/ \E y \in RedisCall \ Adopts(c) : pipe' = Append(pipe, y)
    BY <2>2, <2>3, <2>4
  <2> QED BY <2>1, <2>5, <2>6, FinishHandled
<1>4. ASSUME ~HashIsSet, ~StatusIsSet PROVE Finishes(c)
  <2>1. CASE PongIsStored
    BY <1>1, <2>1 DEF PongIsStored
  <2>2. CASE SnapshotIsRead
    BY <1>1, <2>2 DEF SnapshotIsRead
  <2>3. CASE StatusIsDeleted
    BY <1>1, <2>3 DEF StatusIsDeleted
  <2>4. CASE ExpiredIsDeleted
    BY <1>1, <2>4 DEF ExpiredIsDeleted
  <2>5. CASE CommandFailed
    <3>1. checks' = checks /\ pipe' = pipe /\ replies # <<>> /\ replies' = Tail(replies)
      BY <2>5 DEF CommandFailed
    <3> QED BY <3>1, FinishHandled
  <2> QED BY <1>4, <2>1, <2>2, <2>3, <2>4, <2>5 DEF ReplyHandled
<1> QED BY <1>2, <1>3, <1>4

LEMMA FinishFailed ==
    ASSUME TypeOK, NEW c, Single(c), RedisFails
    PROVE  Finishes(c)
<1>1. checks' = checks
  BY DEF RedisFails, gateway
<1>2. CASE pipe # <<>> /\ pipe' = Tail(pipe)
           /\ replies' = Append(replies, [call |-> Head(pipe), ok |-> FALSE, result |-> {}])
  <2>1. [call |-> Head(pipe), ok |-> FALSE, result |-> {}] \in Reply
    BY <1>2, HeadCall DEF Reply
  <2> QED BY <1>1, <1>2, <2>1, FinishMoved
<1>3. CASE replies # <<>> /\ pipe' = pipe
           /\ replies' = <<[Head(replies) EXCEPT !.ok = FALSE]>> \o Tail(replies)
  <2> DEFINE r == [Head(replies) EXCEPT !.ok = FALSE]
  <2>1. Head(replies) \in Reply /\ Tail(replies) \in Seq(Reply) /\ replies \in Seq(Reply)
    BY <1>3, HeadReply DEF TypeOK
  <2>2. r \in Reply /\ r.call = Head(replies).call
    BY <2>1 DEF Reply
  <2>3. replies' = <<r>> \o Tail(replies)
    BY <1>3
  <2> HIDE DEF r
  <2>4. /\ DOMAIN replies = 1 .. Len(replies) /\ Len(replies) \in Nat \ {0} /\ Head(replies) = replies[1]
        /\ DOMAIN replies' = 1 .. Len(replies) /\ replies'[1] = r
        /\ \A i \in 2 .. Len(replies) : replies'[i] = replies[i]
    BY <1>3, <2>1, <2>2, <2>3
  <2>5. replies[1] \in AdoptReplies(c) <=> replies'[1] \in AdoptReplies(c)
    BY <2>1, <2>2, <2>4 DEF AdoptReplies
  <2>6. \A i \in DOMAIN replies : replies[i] \in AdoptReplies(c) <=> replies'[i] \in AdoptReplies(c)
    <3>1. \A i \in DOMAIN replies : i = 1 \/ i \in 2 .. Len(replies)
      BY <2>4
    <3> QED BY <2>4, <2>5, <3>1
  <2>7. /\ Has(replies, AdoptReplies(c)) <=> Has(replies', AdoptReplies(c))
        /\ Lone(replies, AdoptReplies(c)) <=> Lone(replies', AdoptReplies(c))
    BY <2>4, <2>6, LoneSame
  <2>8. Adopts(c)' = Adopts(c) /\ AdoptReplies(c)' = AdoptReplies(c) /\ Asks(c)' = Asks(c)
    BY <1>1 DEF Adopts, AdoptReplies, Asks
  <2> QED BY <1>3, <2>7, <2>8 DEF Single, Subscribing, Finishes
<1> QED BY <1>2, <1>3 DEF RedisFails

LEMMA FinishStep ==
    ASSUME TypeOK, NEW c \in Conns, Single(c), ~Pipelined, [Next]_vars
    PROVE  Single(c)' /\ (Subscribing(c)' => Subscribing(c) \/ sock[c] # "closed")
<1> USE DEF gateway
<1>1. SUFFICES ASSUME ~Finishes(c)
               PROVE  Single(c)' /\ (Subscribing(c)' => sock[c] # "closed")
  BY DEF Finishes
<1>2. ASSUME NEW d \in Conns, Client(d) PROVE FALSE
  <2>1. CASE pong(d)
    <3> DEFINE x == Call("hSet", "pong", d, clients[d].userUid, FALSE)
    <3>1. checks' = checks /\ replies' = replies
      BY <2>1 DEF pong
    <3>2. CASE pipe' # pipe
      <4>1. clients[d].userUid \in Users /\ pipe' = Append(pipe, x)
        BY <2>1, <3>2 DEF pong, hSet, TypeOK, TrackedClient, Uid
      <4>2. x \in RedisCall /\ x.task = "pong"
        BY <4>1, CallTypes DEF Call
      <4> HIDE DEF x
      <4>3. x \notin Adopts(c)
        BY <4>2 DEF Adopts
      <4> QED BY <1>1, <3>1, <4>1, <4>2, <4>3, FinishIssued
    <3> QED BY <1>1, <3>1, <3>2, FinishIssued
  <2>2. CASE SubscribeGuest(d)
    <3> DEFINE x == Call("hGetAll", "subscribe", d, NoUser, TRUE)
    <3>1. x \in RedisCall /\ x.op = "hGetAll"
      BY CallTypes DEF Uid, Call
    <3>2. checks' = checks /\ pipe' = Append(pipe, x) /\ replies' = replies
      BY <2>2 DEF SubscribeGuest, getOnlineUsers
    <3> HIDE DEF x
    <3>3. x \notin Adopts(c)
      BY <3>1 DEF Adopts
    <3> QED BY <1>1, <3>1, <3>2, <3>3, FinishIssued
  <2>3. CASE ~pong(d) /\ ~SubscribeGuest(d)
    <3>1. checks' = checks /\ pipe' = pipe /\ replies' = replies
      BY <1>2, <2>3 DEF Client, handleConnection, handleDisconnect, BadRequest, UnsubscribeGuest
    <3> QED BY <1>1, <3>1, FinishIssued
  <2> QED BY <2>1, <2>2, <2>3
<1>3. ASSUME NEW m \in Message, handleMessage(m)
      PROVE  Single(c)' /\ (Subscribing(c)' => sock[c] # "closed")
  <2>1. checks' = checks \cup {m} /\ pipe' = pipe /\ replies' = replies
    BY <1>3 DEF handleMessage
  <2>2. Adopts(c)' = Adopts(c) /\ AdoptReplies(c)' = AdoptReplies(c)
    BY DEF Adopts, AdoptReplies
  <2>3. CASE m.conn # c
    <3>1. Asks(c)' = Asks(c)
      BY <2>1, <2>3 DEF Asks
    <3>2. Finishes(c)
      BY <2>1, <2>2, <3>1 DEF Single, Subscribing, Finishes
    <3> QED BY <1>1, <3>2
  <2>4. CASE m.conn = c
    <3>1. sock[c] # "closed" /\ ~Busy(c)
      BY <1>3, <2>4 DEF handleMessage, MaySend
    <3>2. ~Has(pipe, Adopts(c))
      <4>1. \A i \in DOMAIN pipe : pipe[i] \in Calls
        BY DEF Calls, Range
      <4> QED BY <3>1, <4>1 DEF Has, Adopts, Busy
    <3>3. ~Has(replies, AdoptReplies(c))
      <4>1. \A i \in DOMAIN replies : replies[i].call \in Calls
        BY DEF Calls, Range
      <4> QED BY <3>1, <4>1 DEF Has, AdoptReplies, Adopts, Busy
    <3>4. \A n \in Asks(c)' : n = m
      BY <2>1, <3>1 DEF Asks, Busy
    <3>5. Single(c)'
      BY <2>1, <2>2, <3>2, <3>3, <3>4 DEF Single
    <3> QED BY <3>1, <3>5
  <2> QED BY <2>3, <2>4
<1>4. ASSUME NEW m \in Message, CheckDone(m) PROVE FALSE
  <2>1. m \in checks /\ checks' = checks \ {m} /\ checks' \subseteq checks /\ replies' = replies
    BY <1>4 DEF CheckDone, CheckRefuses, subscribeMessage, unsubscribeMessage
  <2>2. CASE subscribeMessage(m)
    <3> DEFINE x == Call("hSet", "subscribe", m.conn, m.user, m.reset)
    <3>1. x \in RedisCall /\ x.conn = m.conn /\ pipe' = Append(pipe, x) /\ m.type = "subscribe"
      BY <2>2, CallTypes, MessageType DEF subscribeMessage, hSet, Call
    <3> HIDE DEF x
    <3>2. ASSUME m.conn = c PROVE Asks(c) # {} /\ Asks(c)' = {}
      <4>1. m \in Asks(c)
        BY <2>1, <3>1, <3>2 DEF Asks
      <4>2. \A n \in Asks(c) : n = m
        BY <4>1 DEF Single
      <4> QED BY <2>1, <4>1, <4>2 DEF Asks
    <3>3. x \in Adopts(c) => m.conn = c
      BY <3>1 DEF Adopts
    <3> QED BY <1>1, <2>1, <3>1, <3>2, <3>3, FinishIssued
  <2>3. CASE unsubscribeMessage(m)
    <3> DEFINE x == Call("hDel", "unsubscribe", m.conn, m.user, FALSE)
    <3>1. x \in RedisCall /\ x.op = "hDel" /\ (pipe' = pipe \/ pipe' = Append(pipe, x))
      BY <2>3, CallTypes, MessageType DEF unsubscribeMessage, delStatus, Call
    <3> HIDE DEF x
    <3>2. x \notin Adopts(c)
      BY <3>1 DEF Adopts
    <3> QED BY <1>1, <2>1, <3>1, <3>2, FinishIssued
  <2>4. CASE CheckRefuses(m)
    BY <1>1, <2>1, <2>4, FinishIssued DEF CheckRefuses
  <2> QED BY <1>4, <2>2, <2>3, <2>4 DEF CheckDone
<1>5. CASE handleRedisExpiration
  <2> DEFINE x == Call("hDel", "expire", NoConn, Head(events), FALSE)
  <2>1. checks' = checks /\ replies' = replies /\ pipe' = Append(pipe, x) /\ Head(events) \in Users
    BY <1>5, AppendTypes DEF handleRedisExpiration, delStatus
  <2>2. x \in RedisCall /\ x.task = "expire"
    BY <2>1, CallTypes DEF Call
  <2> HIDE DEF x
  <2>3. x \notin Adopts(c)
    BY <2>2 DEF Adopts
  <2> QED BY <1>1, <2>1, <2>2, <2>3, FinishIssued
<1>6. CASE ping \/ Restart \/ (\E u \in Users : Expire(u)) \/ UNCHANGED vars
  <2>1. checks' = checks /\ pipe' = pipe /\ replies' = replies
    BY <1>6 DEF ping, Restart, Expire, vars
  <2> QED BY <1>1, <2>1, FinishIssued
<1>7. CASE Redis
  <2>1. ASSUME NEW op, NEW result \in SUBSET Users, Execute(op, result) PROVE FALSE
    <3> DEFINE r == [call |-> Head(pipe), ok |-> TRUE, result |-> result]
    <3>1. r \in Reply /\ r.call = Head(pipe)
      BY <2>1, HeadCall DEF Execute, Reply
    <3>2. pipe # <<>> /\ pipe' = Tail(pipe) /\ replies' = Append(replies, r) /\ checks' = checks
      BY <2>1 DEF Execute
    <3> HIDE DEF r
    <3> QED BY <1>1, <3>1, <3>2, FinishMoved
  <2>2. {} \in SUBSET Users /\ status \in SUBSET Users /\ status \cap {Head(pipe).user} \in SUBSET Users
    BY DEF TypeOK
  <2> QED BY <1>7, <2>1, <2>2 DEF Redis, RedisHSet, RedisSetEX, RedisHGetAll, RedisHDel
<1>8. CASE Exit
  BY <1>8, FinishEmptied
<1>9. CASE (ReplyHandled /\ ~Exit) \/ RedisFails
  BY <1>1, <1>9, FinishReply, FinishFailed
<1> QED BY <1>2, <1>3, <1>4, <1>5, <1>6, <1>7, <1>8, <1>9 DEF Next, Crash

\* What a step does to a tracked client: it leaves the Map, or stays there with a socket that
\* does not open again and no sign of life once closed; only a request of an open client or
\* the end of its subscription tracks it anew.
LEMMA TrackedMoves ==
    ASSUME TypeOK, NEW c \in Conns, [Next]_vars
    PROVE  \/ c \notin DOMAIN clients'
           \/ /\ c \in DOMAIN clients /\ (sock'[c] = "closed" <=> sock[c] = "closed")
              /\ sock[c] = "closed" /\ clients'[c].isAlive => clients[c].isAlive
           \/ sock[c] # "closed" /\ sock'[c] # "closed"
           \/ ReplyHandled /\ ~Exit /\ StatusIsSet /\ Head(replies).call.conn = c /\ sock' = sock
<1> USE DEF gateway
<1> DEFINE Stays == /\ c \in DOMAIN clients /\ (sock'[c] = "closed" <=> sock[c] = "closed")
                    /\ sock[c] = "closed" /\ clients'[c].isAlive => clients[c].isAlive
<1>1. ASSUME UNCHANGED <<sock, clients>> PROVE c \notin DOMAIN clients' \/ Stays
  BY <1>1
<1>2. ASSUME NEW d, clients' = Untrack(d), d = c \/ sock'[c] = sock[c] PROVE c \notin DOMAIN clients' \/ Stays
  <2>1. DOMAIN clients' = DOMAIN clients \ {d} /\ \A e \in DOMAIN clients' : clients'[e] = clients[e]
    BY <1>2, MapUids
  <2> QED BY <1>2, <2>1
<1>3. ASSUME NEW d, NEW u, d # c, clients' = Track(d, u), sock' = sock PROVE c \notin DOMAIN clients' \/ Stays
  <2>1. c \in DOMAIN clients' => c \in DOMAIN clients /\ clients'[c] = clients[c]
    BY <1>3 DEF Track
  <2> QED BY <1>3, <2>1
<1>4. ASSUME NEW d \in Conns, sock' = Closing(d), clients' = clients PROVE c \notin DOMAIN clients' \/ Stays
  <2>1. sock'[c] = "closed" <=> sock[c] = "closed"
    BY <1>4 DEF Closing, TypeOK
  <2> QED BY <1>4, <2>1
<1> HIDE DEF Stays
<1>5. ASSUME NEW d \in Conns, Client(d)
      PROVE  c \notin DOMAIN clients' \/ Stays \/ (sock[c] # "closed" /\ sock'[c] # "closed")
  <2>1. CASE handleConnection(d)
    <3>1. d = c => c \notin DOMAIN clients'
      BY <2>1 DEF handleConnection, RefersTo
    <3>2. d # c => sock'[c] = sock[c] /\ clients' = clients
      BY <2>1 DEF handleConnection, TypeOK
    <3> QED BY <3>1, <3>2 DEF Stays
  <2>2. CASE handleDisconnect(d)
    <3>1. clients' = Untrack(d) /\ (d = c \/ sock'[c] = sock[c])
      BY <2>2 DEF handleDisconnect, TypeOK
    <3> QED BY <1>2, <3>1
  <2>3. CASE BadRequest(d)
    BY <1>4, <2>3 DEF BadRequest
  <2>4. CASE SubscribeGuest(d)
    <3>1. clients' = Track(d, NoUser) /\ sock' = sock /\ sock[d] # "closed"
      BY <2>4 DEF SubscribeGuest, MaySend
    <3> QED BY <1>3, <3>1
  <2>5. CASE UnsubscribeGuest(d)
    BY <1>2, <2>5 DEF UnsubscribeGuest, Acknowledge
  <2>6. CASE pong(d)
    <3>1. d = c => sock[c] # "closed" /\ sock'[c] # "closed"
      BY <2>6 DEF pong
    <3>2. d # c => c \notin DOMAIN clients' \/ Stays
      BY <2>6 DEF pong, Stays
    <3> QED BY <3>1, <3>2
  <2> QED BY <1>5, <2>1, <2>2, <2>3, <2>4, <2>5, <2>6 DEF Client
<1>6. ASSUME NEW m \in Message, handleMessage(m) \/ CheckDone(m) PROVE c \notin DOMAIN clients' \/ Stays
  <2>1. CASE handleMessage(m) \/ subscribeMessage(m)
    BY <1>1, <2>1 DEF handleMessage, subscribeMessage
  <2>2. CASE CheckRefuses(m)
    BY <1>4, <2>2, MessageType DEF CheckRefuses
  <2>3. CASE unsubscribeMessage(m)
    BY <1>1, <1>2, <2>3 DEF unsubscribeMessage, Acknowledge
  <2> QED BY <1>6, <2>1, <2>2, <2>3 DEF CheckDone
<1>7. ASSUME ReplyHandled, StatusIsSet, ~Exit
      PROVE  c \notin DOMAIN clients' \/ Stays \/ (Head(replies).call.conn = c /\ sock' = sock)
  <2>1. clients' = Track(Head(replies).call.conn, Head(replies).call.user) /\ sock' = sock
    BY <1>7 DEF StatusIsSet
  <2> QED BY <1>3, <2>1
<1>8. ASSUME StatusIsDeleted PROVE c \notin DOMAIN clients' \/ Stays
  <2>1. clients' = Untrack(Head(replies).call.conn) /\ sock' = sock
    BY <1>8 DEF StatusIsDeleted, Acknowledge
  <2> QED BY <1>2, <2>1
<1>9. ASSUME ping PROVE c \notin DOMAIN clients' \/ Stays
  <2>1. /\ sock' = sock /\ DOMAIN clients' \subseteq DOMAIN clients
        /\ c \in DOMAIN clients' => ~clients'[c].isAlive
    BY <1>9 DEF ping, TypeOK, TrackedClient
  <2> QED BY <2>1 DEF Stays
<1>10. ASSUME Exit PROVE c \notin DOMAIN clients'
  BY <1>10, ExitEmpties
<1>11. ASSUME \/ Redis \/ HashIsSet \/ PongIsStored \/ SnapshotIsRead \/ ExpiredIsDeleted \/ handleRedisExpiration
              \/ (\E u \in Users : Expire(u)) \/ RedisFails \/ Restart \/ UNCHANGED vars
       PROVE  c \notin DOMAIN clients' \/ Stays
  <2>1. UNCHANGED <<sock, clients>>
    BY <1>11 DEF Redis, RedisHSet, RedisSetEX, RedisHGetAll, RedisHDel, Execute, HashIsSet, PongIsStored,
         SnapshotIsRead, ExpiredIsDeleted, handleRedisExpiration, Expire, RedisFails, Restart, vars
  <2> QED BY <1>1, <2>1
<1>12. ASSUME CommandFailed, ~Exit PROVE c \notin DOMAIN clients' \/ Stays
  BY <1>1, <1>12 DEF CommandFailed
<1>13. ASSUME ReplyHandled, ~Exit PROVE c \notin DOMAIN clients' \/ Stays \/ (StatusIsSet /\ Head(replies).call.conn = c /\ sock' = sock)
  BY <1>7, <1>8, <1>11, <1>12, <1>13 DEF ReplyHandled
<1>14. \/ c \notin DOMAIN clients' \/ Stays \/ (sock[c] # "closed" /\ sock'[c] # "closed")
       \/ ReplyHandled /\ ~Exit /\ StatusIsSet /\ Head(replies).call.conn = c /\ sock' = sock
  BY <1>5, <1>6, <1>9, <1>10, <1>11, <1>13 DEF Next, Crash
<1> QED BY <1>14 DEF Stays

\* A client that is tracked although its socket is closed is tracked for the last time.
TrackedLast(c) == sock[c] = "closed" /\ c \in DOMAIN clients => ~Subscribing(c)
Settling == TypeOK /\ DownIsIdle /\ \A c \in Conns : Single(c) /\ TrackedLast(c)

LEMMA ClosedMoves ==
    ASSUME Settling, ~Pipelined, NEW c \in Conns, [Next]_vars
    PROVE  /\ Single(c)' /\ TrackedLast(c)'
           /\ sock[c] = "closed" /\ c \in DOMAIN clients =>
                 \/ c \notin DOMAIN clients'
                 \/ sock'[c] = "closed" /\ (clients'[c].isAlive => clients[c].isAlive)
<1>1. TypeOK /\ Single(c) /\ TrackedLast(c)
  BY DEF Settling
<1>2. Single(c)' /\ (Subscribing(c)' => Subscribing(c) \/ sock[c] # "closed")
  BY <1>1, FinishStep
<1>3. CASE c \notin DOMAIN clients'
  BY <1>2, <1>3 DEF TrackedLast
<1>4. CASE /\ c \in DOMAIN clients /\ (sock'[c] = "closed" <=> sock[c] = "closed")
           /\ sock[c] = "closed" /\ clients'[c].isAlive => clients[c].isAlive
  BY <1>1, <1>2, <1>4 DEF TrackedLast
<1>5. CASE sock[c] # "closed" /\ sock'[c] # "closed"
  BY <1>2, <1>5 DEF TrackedLast
<1>6. CASE ReplyHandled /\ ~Exit /\ StatusIsSet /\ Head(replies).call.conn = c /\ sock' = sock
  <2>1. ~Subscribing(c)'
    BY <1>1, <1>6, FinishReply
  <2>2. Subscribing(c)
    <3>1. Head(replies) \in Reply /\ Head(replies).call.op = "set" /\ Head(replies).call.task = "subscribe"
          /\ Head(replies).call \in RedisCall /\ replies # <<>>
      BY <1>1, <1>6, AnsweredType DEF StatusIsSet, Answered
    <3>2. Head(replies) \in AdoptReplies(c)
      BY <1>6, <3>1 DEF AdoptReplies, Adopts
    <3>3. 1 \in DOMAIN replies /\ Head(replies) = replies[1]
      BY <1>1, <3>1 DEF TypeOK
    <3> QED BY <3>2, <3>3 DEF Subscribing, Has
  <2> QED BY <1>1, <1>2, <2>1, <2>2 DEF TrackedLast
<1> QED BY <1>1, <1>3, <1>4, <1>5, <1>6, TrackedMoves

LEMMA AlwaysSettling ==
    ASSUME ~Pipelined
    PROVE  Spec => []Settling
<1>1. Init => Settling
  <2> SUFFICES ASSUME Init PROVE Settling
    OBVIOUS
  <2>1. pipe = <<>> /\ replies = <<>> /\ checks = {} /\ DOMAIN <<>> = {} /\ up
    BY DEF Init
  <2>2. DOMAIN clients = {}
    BY DEF Init
  <2>3. ASSUME NEW c \in Conns PROVE Single(c) /\ TrackedLast(c)
    <3>1. Asks(c) = {} /\ ~Has(pipe, Adopts(c)) /\ ~Has(replies, AdoptReplies(c))
      BY <2>1 DEF Asks, Has
    <3>2. Lone(pipe, Adopts(c)) /\ Lone(replies, AdoptReplies(c))
      BY <2>1 DEF Lone
    <3> QED BY <2>2, <3>1, <3>2 DEF Single, TrackedLast
  <2> QED BY <2>1, <2>3, InitType DEF DownIsIdle, Settling
<1>2. Settling /\ [Next]_vars => Settling'
  <2> SUFFICES ASSUME Settling, [Next]_vars PROVE Settling'
    OBVIOUS
  <2>1. TypeOK' /\ DownIsIdle'
    BY TypeStep, DownStep DEF Settling
  <2>2. ASSUME NEW c \in Conns PROVE Single(c)' /\ TrackedLast(c)'
    BY ClosedMoves
  <2> QED BY <2>1, <2>2 DEF Settling
<1> QED BY <1>1, <1>2, PTL DEF Spec

\* What WF_vars(ping) says: setInterval fires again and again while there are clients.
SetIntervalGoesOn == <>[](up /\ DOMAIN clients # {}) => []<><<ping>>_vars

(* Whatever else the process does, a client that subscribeMessage tracked after the close  *)
(* event of its socket leaves the Map: the first ping after that marks it, nothing unmarks *)
(* it, and the second one drops it.  The clients wait for the answer to their last request.*)
THEOREM LateClientsLeave ==
    ASSUME ~Pipelined
    PROVE  Spec /\ SetIntervalGoesOn => ClosedIsDropped
<1> SUFFICES ASSUME NEW c \in Conns
             PROVE  Spec /\ SetIntervalGoesOn =>
                       ((sock[c] = "closed" /\ c \in DOMAIN clients) ~> (c \notin DOMAIN clients))
  BY DEF ClosedIsDropped
<1> DEFINE Dropped == c \notin DOMAIN clients
           Late == sock[c] = "closed" /\ c \in DOMAIN clients
           Marked == Late /\ ~clients[c].isAlive
           Pingable == up /\ DOMAIN clients # {}
<1>1. Settling /\ [Next]_vars /\ Late => Late' \/ Dropped'
  BY ClosedMoves
<1>2. Settling /\ [Next]_vars /\ Marked => Marked' \/ Dropped'
  BY ClosedMoves
<1>3. Settling /\ [Next]_vars /\ Late /\ <<ping>>_vars => Marked' \/ Dropped'
  <2> SUFFICES ASSUME Settling, Late, ping PROVE Marked' \/ Dropped'
    OBVIOUS
  <2> QED BY DEF ping, Settling, TypeOK, TrackedClient
<1>4. Settling /\ [Next]_vars /\ Marked /\ <<ping>>_vars => Dropped'
  BY DEF ping
<1>5. Settling /\ Late => Pingable
  BY DEF Settling, DownIsIdle
<1>6. Late <=> Late /\ ~Dropped
  OBVIOUS
<1> HIDE DEF Dropped, Late, Marked, Pingable
<1>7. (<>[]Pingable => []<><<ping>>_vars) /\ []Settling /\ [][Next]_vars => (Late ~> Dropped)
  BY <1>1, <1>2, <1>3, <1>4, <1>5, <1>6, PTL
<1>8. Spec => []Settling
  BY AlwaysSettling
<1>9. Spec /\ (<>[]Pingable => []<><<ping>>_vars) => (Late ~> Dropped)
  BY <1>7, <1>8, PTL DEF Spec
<1> QED BY <1>9 DEF Dropped, Late, Pingable, SetIntervalGoesOn
=============================================================================
