------------------------------ MODULE Heartbeat ------------------------------
(***************************************************************************)
(* The clock of user presence: setInterval pings every tracked client, a   *)
(* pong renews the TTL key of the client's user, and a client that has not *)
(* answered by the next ping is dropped.  The clients of one user share    *)
(* one key.  Time passes in units of a second; what a delay may be is a    *)
(* constant.  UserStatus has the same steps without time.                  *)
(***************************************************************************)
EXTENDS Integers

CONSTANTS
    Conns,               \* the WebSockets of one user
    Answering,           \* those that answer every ping within MaxReply
    PING_INTERVAL,
    TTL_EXPIRATION_TIME,
    Lag,                 \* how late setInterval may call ping
    MaxReply,            \* from a ping to the pong of an answering client
    MaxWrite,            \* from a pong to the execution of its SET in Redis
    MaxAck               \* from a subscription's SET to the handling of its reply

ASSUME AnsweringAssumption == Answering \subseteq Conns
ASSUME TimesAssumption ==
    /\ {PING_INTERVAL, TTL_EXPIRATION_TIME} \subseteq Nat \ {0}
    /\ {Lag, MaxReply, MaxWrite, MaxAck} \subseteq Nat
\* An answer is back before the next ping ...
ASSUME ReplyAssumption == MaxReply < PING_INTERVAL
\* ... and the delays fit into what the TTL leaves beyond the interval (5 seconds).
ASSUME DelayAssumption == PING_INTERVAL + Lag + MaxReply + MaxWrite + MaxAck < TTL_EXPIRATION_TIME

VARIABLES
    tick,    \* time since the last call of ping
    ttl,     \* what is left of the user's TTL key; 0: there is none
    alive,   \* isAlive of each client in the Map: a function on the tracked clients
    pings,   \* ages of the pings each client has not answered
    writes,  \* ages of the SETs that pongs have asked for
    acks,    \* ages of the executed SETs of subscriptions that wait for their reply
    quiet    \* history: time since the client was tracked or was last heard of

vars == <<tick, ttl, alive, pings, writes, acks, quiet>>

tracked == DOMAIN alive
Interval == PING_INTERVAL + Lag
None == [c \in Conns |-> {}]

\* Every clock stays below its limit.
TypeOK ==
    /\ tick \in 0 .. Interval
    /\ ttl \in 0 .. TTL_EXPIRATION_TIME
    /\ tracked \subseteq Conns /\ alive \in [tracked -> BOOLEAN]
    /\ pings \in [Conns -> SUBSET (0 .. MaxReply)]
    /\ writes \in [Conns -> SUBSET (0 .. MaxWrite)]
    /\ acks \in [Conns -> SUBSET (0 .. MaxAck)]
    /\ quiet \in [tracked -> Nat]

Init ==
    /\ tick = 0 /\ ttl = 0
    /\ alive = [c \in {} |-> TRUE] /\ quiet = [c \in {} |-> 0]
    /\ pings = None /\ writes = None /\ acks = None

With(f, c, x) == [d \in DOMAIN f \cup {c} |-> IF d = c THEN x ELSE f[d]]
Add(f, c, x) == [f EXCEPT ![c] = @ \cup {x}]
Drop(f, c, x) == [f EXCEPT ![c] = @ \ {x}]
Only(f, S) == [c \in S |-> f[c]]

-----------------------------------------------------------------------------
\* Mutant of expireIn: the time is added to what is left.
expireInAdded == ttl + TTL_EXPIRATION_TIME
\* SET key value EX: the key has its whole time again.
expireIn == TTL_EXPIRATION_TIME

\* A subscription's SET is executed; its reply is on the way.
SubscriptionStored(c) ==
    /\ ttl' = expireIn
    /\ acks' = Add(acks, c, 0)
    /\ UNCHANGED <<tick, alive, pings, writes, quiet>>

\* Mutant of Track: the client counts as alive from its first pong.
TrackUnanswered(c) == With(alive, c, FALSE)
Track(c) == With(alive, c, TRUE)
\* subscribeMessage goes on: the client is in the Map (again).
Subscribed(c) ==
    /\ \E a \in acks[c] : acks' = Drop(acks, c, a)
    /\ alive' = Track(c)
    /\ quiet' = With(quiet, c, 0)
    /\ UNCHANGED <<tick, ttl, pings, writes>>

\* An unsubscribe, or the end of the connection.
Left(c) ==
    /\ c \in tracked
    /\ alive' = Only(alive, tracked \ {c})
    /\ quiet' = Only(quiet, tracked \ {c})
    /\ UNCHANGED <<tick, ttl, pings, writes, acks>>

\* Mutant of ping: isAlive is not reset.
pingKeepsAlive ==
    /\ tick \in PING_INTERVAL .. Interval /\ tick' = 0
    /\ LET answered == {c \in tracked : alive[c]} IN
       /\ alive' = Only(alive, answered)
       /\ pings' = [c \in Conns |-> IF c \in answered THEN pings[c] \cup {0} ELSE pings[c]]
       /\ quiet' = Only(quiet, answered)
    /\ UNCHANGED <<ttl, writes, acks>>
\* Who has not answered the last ping is dropped, the others are pinged.
ping ==
    /\ tick \in PING_INTERVAL .. Interval /\ tick' = 0
    /\ LET answered == {c \in tracked : alive[c]} IN
       /\ alive' = [c \in answered |-> FALSE]
       /\ pings' = [c \in Conns |-> IF c \in answered THEN pings[c] \cup {0} ELSE pings[c]]
       /\ quiet' = Only(quiet, answered)
    /\ UNCHANGED <<ttl, writes, acks>>

\* Mutant of pong: the answer is noted, the key is not renewed.
pongOnlyAlive(c) ==
    /\ \E p \in pings[c] : pings' = Drop(pings, c, p)
    /\ IF c \in tracked
       THEN /\ alive' = [alive EXCEPT ![c] = TRUE]
            /\ quiet' = [quiet EXCEPT ![c] = 0]
            /\ UNCHANGED writes
       ELSE UNCHANGED <<alive, quiet, writes>>
    /\ UNCHANGED <<tick, ttl, acks>>
\* The pong of a client that is no longer in the Map changes nothing.
pong(c) ==
    /\ \E p \in pings[c] : pings' = Drop(pings, c, p)
    /\ IF c \in tracked
       THEN /\ alive' = [alive EXCEPT ![c] = TRUE]
            /\ quiet' = [quiet EXCEPT ![c] = 0]
            /\ writes' = Add(writes, c, 0)
       ELSE UNCHANGED <<alive, quiet, writes>>
    /\ UNCHANGED <<tick, ttl, acks>>

\* The SET of a pong is executed.
PongStored(c) ==
    /\ \E w \in writes[c] : writes' = Drop(writes, c, w)
    /\ ttl' = expireIn
    /\ UNCHANGED <<tick, alive, pings, acks, quiet>>

Older(f) == [c \in Conns |-> {x + 1 : x \in f[c]}]
\* The pings of a silent or slow client keep no age: they may be answered at any time, or never.
Aged(c) == IF c \in Answering THEN {x + 1 : x \in pings[c]} ELSE pings[c]

\* A second passes.  It cannot while something is due that the delays promise.
Tick ==
    /\ tick < Interval /\ tick' = tick + 1
    /\ \A c \in Conns : MaxWrite \notin writes[c] /\ MaxAck \notin acks[c]
    /\ \A c \in Answering : MaxReply \notin pings[c]
    /\ ttl' = IF ttl = 0 THEN 0 ELSE ttl - 1
    /\ pings' = [c \in Conns |-> Aged(c)]
    /\ writes' = Older(writes) /\ acks' = Older(acks)
    /\ quiet' = [c \in tracked |-> quiet[c] + 1]
    /\ UNCHANGED alive

Next ==
    \/ \E c \in Conns : \/ SubscriptionStored(c) \/ Subscribed(c) \/ Left(c)
                        \/ pong(c) \/ PongStored(c)
    \/ ping \/ Tick

Spec == Init /\ [][Next]_vars

-----------------------------------------------------------------------------
\* The key of a tracked client that answers never ends: PING_INTERVAL and
\* TTL_EXPIRATION_TIME leave 5 seconds for the ping, the pong and Redis.
AnsweringNeverExpires == \A c \in tracked \cap Answering : ttl > 0

\* ping never drops a client that answers.
AnsweringNeverDropped == [][ping => tracked \cap Answering \subseteq tracked']_vars

\* A client that is not heard of leaves the Map with the second ping at the latest.
SilentIsDropped == \A c \in tracked : quiet[c] <= 2 * Interval
=============================================================================
