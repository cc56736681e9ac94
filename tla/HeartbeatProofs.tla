--------------------------- MODULE HeartbeatProofs ---------------------------
(***************************************************************************)
(* For all clients, intervals and delays that satisfy the assumptions of   *)
(* Heartbeat: the key of an answering client never ends, ping never drops  *)
(* one, and a silent client is dropped by the second ping.                 *)
(***************************************************************************)
EXTENDS Heartbeat, TLAPS

USE AnsweringAssumption, TimesAssumption DEF tracked, Interval

\* The time an answering client's next SET still needs, one bound for each place it can be.
WritePending(c) == \E w \in writes[c] : ttl > MaxWrite - w
PongPending(c) == \E p \in pings[c] : ttl > MaxReply - p + MaxWrite
PingPending == ttl > Interval - tick + MaxReply + MaxWrite
Renewed(c) == WritePending(c) \/ PongPending(c) \/ PingPending

\* The key outlives the wait for the renewal that is next.
KeyLasts ==
    /\ \A c \in tracked \cap Answering : Renewed(c)
    /\ \A c \in Conns : \A a \in acks[c] : ttl >= TTL_EXPIRATION_TIME - a

\* Who has not answered was pinged by the last ping; nobody is silent for longer than
\* the pings since then.
PingedLast ==
    /\ \A c \in tracked \cap Answering : ~alive[c] => tick \in pings[c]
    /\ \A c \in tracked : quiet[c] <= IF alive[c] THEN tick ELSE Interval + tick

IInv == TypeOK /\ KeyLasts /\ PingedLast

\* Every clock stays below its limit, whatever the constants.
LEMMA InitTyping == Init => TypeOK
BY DEF Init, TypeOK, None

LEMMA NextTyping == TypeOK /\ [Next]_vars => TypeOK'
<1> SUFFICES ASSUME TypeOK, [Next]_vars PROVE TypeOK'
  OBVIOUS
<1> USE DEF TypeOK
<1>1. ASSUME NEW c \in Conns, SubscriptionStored(c) PROVE TypeOK'
  BY <1>1 DEF SubscriptionStored, expireIn, Add
<1>2. ASSUME NEW c \in Conns, Subscribed(c) PROVE TypeOK'
  <2>1. alive' \in [tracked' -> BOOLEAN] /\ tracked' \subseteq Conns
    BY <1>2 DEF Subscribed, Track, With
  <2>2. tracked' = tracked \cup {c}
    BY <1>2 DEF Subscribed, Track, With
  <2>3. quiet' \in [tracked' -> Nat]
    BY <1>2, <2>2 DEF Subscribed, With
  <2>4. acks' \in [Conns -> SUBSET (0 .. MaxAck)]
    BY <1>2 DEF Subscribed, Drop
  <2> QED BY <1>2, <2>1, <2>3, <2>4 DEF Subscribed
<1>3. ASSUME NEW c \in Conns, Left(c) PROVE TypeOK'
  BY <1>3 DEF Left, Only
<1>4. ASSUME NEW c \in Conns, pong(c) PROVE TypeOK'
  <2>1. pings' \in [Conns -> SUBSET (0 .. MaxReply)]
    BY <1>4 DEF pong, Drop
  <2>2. tick' = tick /\ ttl' = ttl /\ acks' = acks
    BY <1>4 DEF pong
  <2>3. CASE c \in tracked
    <3>1. alive' = [alive EXCEPT ![c] = TRUE] /\ quiet' = [quiet EXCEPT ![c] = 0]
      BY <1>4, <2>3 DEF pong
    <3>2. alive' \in [tracked -> BOOLEAN] /\ tracked' = tracked /\ quiet' \in [tracked -> Nat]
      BY <3>1
    <3>3. writes' \in [Conns -> SUBSET (0 .. MaxWrite)]
      BY <1>4, <2>3 DEF pong, Add
    <3> QED BY <2>1, <2>2, <3>2, <3>3
  <2>4. CASE c \notin tracked
    BY <1>4, <2>1, <2>2, <2>4 DEF pong
  <2> QED BY <2>3, <2>4
<1>5. ASSUME NEW c \in Conns, PongStored(c) PROVE TypeOK'
  BY <1>5 DEF PongStored, expireIn, Drop
<1>6. CASE ping
  BY <1>6 DEF ping, Only
<1>7. CASE Tick
  <2>1. tick' \in 0 .. Interval /\ ttl' \in 0 .. TTL_EXPIRATION_TIME
    BY <1>7 DEF Tick
  <2>2. pings' \in [Conns -> SUBSET (0 .. MaxReply)]
    BY <1>7 DEF Tick, Aged
  <2>3. writes' \in [Conns -> SUBSET (0 .. MaxWrite)]
    BY <1>7 DEF Tick, Older
  <2>4. acks' \in [Conns -> SUBSET (0 .. MaxAck)]
    BY <1>7 DEF Tick, Older
  <2>5. alive' \in [tracked' -> BOOLEAN] /\ tracked' \subseteq Conns /\ quiet' \in [tracked' -> Nat]
    BY <1>7 DEF Tick
  <2> QED BY <2>1, <2>2, <2>3, <2>4, <2>5
<1>8. CASE UNCHANGED vars
  BY <1>8 DEF vars
<1> QED
  BY <1>1, <1>2, <1>3, <1>4, <1>5, <1>6, <1>7, <1>8 DEF Next

LEMMA InitLasts == Init => KeyLasts /\ PingedLast
BY DEF Init, None, KeyLasts, PingedLast

\* Every step keeps the key alive: a SET that is due moves on, and time takes as much
\* from the wait as from the key.
LEMMA NextLasts == TypeOK /\ KeyLasts /\ [Next]_vars => KeyLasts'
<1> SUFFICES ASSUME TypeOK, KeyLasts, [Next]_vars PROVE KeyLasts'
  OBVIOUS
<1> USE DEF TypeOK, KeyLasts, Renewed, WritePending, PongPending, PingPending
<1>1. ASSUME NEW c \in Conns, SubscriptionStored(c) PROVE KeyLasts'
  <2>1. PingPending'
    BY <1>1, DelayAssumption DEF SubscriptionStored, expireIn
  <2>2. ASSUME NEW d \in Conns, NEW a \in acks'[d] PROVE ttl' >= TTL_EXPIRATION_TIME - a
    <3>1. a \in acks[d] \/ a = 0
      BY <1>1, <2>2 DEF SubscriptionStored, Add
    <3>2. a \in Nat
      BY <3>1
    <3> QED BY <1>1, <3>2 DEF SubscriptionStored, expireIn
  <2> QED BY <2>1, <2>2
<1>2. ASSUME NEW c \in Conns, Subscribed(c) PROVE KeyLasts'
  <2>1. PICK a \in acks[c] : acks' = Drop(acks, c, a)
    BY <1>2 DEF Subscribed
  <2>2. ttl' = ttl /\ tick' = tick /\ pings' = pings /\ writes' = writes
    BY <1>2 DEF Subscribed
  <2>3. PingPending'
    <3>1. ttl >= TTL_EXPIRATION_TIME - a /\ a \in 0 .. MaxAck
      BY <2>1
    <3> QED BY <2>2, <3>1, DelayAssumption
  <2>4. ASSUME NEW d \in Conns, NEW b \in acks'[d] PROVE b \in acks[d]
    BY <2>1, <2>4 DEF Drop
  <2> QED BY <2>2, <2>3, <2>4
<1>3. ASSUME NEW c \in Conns, Left(c) PROVE KeyLasts'
  BY <1>3 DEF Left, Only
<1>4. ASSUME NEW c \in Conns, pong(c) PROVE KeyLasts'
  <2>1. ttl' = ttl /\ tick' = tick /\ acks' = acks /\ tracked' = tracked
    BY <1>4 DEF pong
  <2>2. ASSUME NEW d \in tracked \cap Answering PROVE Renewed(d)'
    <3>1. CASE d # c
      <4>1. pings'[d] = pings[d] /\ writes'[d] = writes[d]
        BY <1>4, <3>1 DEF pong, Drop, Add
      <4> QED BY <2>1, <2>2, <4>1
    <3>2. CASE d = c
      <4>1. PICK p \in pings[c] : pings' = Drop(pings, c, p)
        BY <1>4 DEF pong
      <4>2. writes' = Add(writes, c, 0)
        BY <1>4, <2>2, <3>2 DEF pong
      <4>3. writes'[c] = writes[c] \cup {0} /\ pings'[c] = pings[c] \ {p}
        BY <4>1, <4>2 DEF Add, Drop
      <4>4. CASE WritePending(c)
        BY <2>1, <3>2, <4>3, <4>4
      <4>5. CASE PingPending
        BY <2>1, <3>2, <4>5
      <4>6. CASE PongPending(c)
        <5>1. ttl > MaxWrite
          BY <4>6
        <5> QED BY <2>1, <3>2, <4>3, <5>1
      <4> QED BY <2>2, <3>2, <4>4, <4>5, <4>6
    <3> QED BY <3>1, <3>2
  <2> QED BY <2>1, <2>2
<1>5. ASSUME NEW c \in Conns, PongStored(c) PROVE KeyLasts'
  <2>1. PingPending'
    BY <1>5, DelayAssumption DEF PongStored, expireIn
  <2>2. acks' = acks /\ ttl' = TTL_EXPIRATION_TIME
    BY <1>5 DEF PongStored, expireIn
  <2>3. \A d \in Conns : \A a \in acks[d] : a \in Nat
    OBVIOUS
  <2> QED BY <2>1, <2>2, <2>3
<1>6. CASE ping
  <2>1. ttl' = ttl /\ writes' = writes /\ acks' = acks /\ tick' = 0 /\ tracked' \subseteq tracked
    BY <1>6 DEF ping
  <2>2. ASSUME NEW d \in tracked' \cap Answering PROVE Renewed(d)'
    <3>1. Renewed(d)
      BY <2>1, <2>2
    <3>2. pings'[d] = pings[d] \cup {0}
      BY <1>6, <2>2 DEF ping
    <3>3. CASE WritePending(d)
      BY <2>1, <3>3
    <3>4. CASE PongPending(d)
      BY <2>1, <3>2, <3>4
    <3>5. CASE PingPending
      <4>1. ttl > MaxReply - 0 + MaxWrite
        BY <3>5
      <4> QED BY <2>1, <3>2, <4>1
    <3> QED BY <3>1, <3>3, <3>4, <3>5
  <2> QED BY <2>1, <2>2
<1>7. CASE Tick
  <2>1. tick' = tick + 1 /\ tracked' = tracked /\ ttl' = IF ttl = 0 THEN 0 ELSE ttl - 1
    BY <1>7 DEF Tick
  <2>2. ASSUME NEW d \in tracked \cap Answering PROVE Renewed(d)'
    <3>1. CASE WritePending(d)
      <4>1. PICK w \in writes[d] : ttl > MaxWrite - w
        BY <3>1
      <4>2. w + 1 \in writes'[d] /\ w # MaxWrite
        BY <1>7, <2>2, <4>1 DEF Tick, Older
      <4>3. ttl' > MaxWrite - (w + 1)
        BY <2>1, <4>1, <4>2
      <4> QED BY <4>2, <4>3
    <3>2. CASE PongPending(d)
      <4>1. PICK p \in pings[d] : ttl > MaxReply - p + MaxWrite
        BY <3>2
      <4>2. p + 1 \in pings'[d] /\ p # MaxReply
        BY <1>7, <2>2, <4>1 DEF Tick, Aged
      <4>3. ttl' > MaxReply - (p + 1) + MaxWrite
        BY <2>1, <4>1, <4>2
      <4> QED BY <4>2, <4>3
    <3>3. CASE PingPending
      <4>1. tick < Interval
        BY <1>7 DEF Tick
      <4> QED BY <2>1, <3>3, <4>1
    <3> QED BY <2>2, <3>1, <3>2, <3>3
  <2>3. ASSUME NEW d \in Conns, NEW a \in acks'[d] PROVE ttl' >= TTL_EXPIRATION_TIME - a
    <3>1. PICK b \in acks[d] : a = b + 1
      BY <1>7, <2>3 DEF Tick, Older
    <3>2. ttl >= TTL_EXPIRATION_TIME - b /\ b \in 0 .. MaxAck
      BY <2>3, <3>1
    <3> QED BY <2>1, <3>1, <3>2, DelayAssumption
  <2> QED BY <2>1, <2>2, <2>3
<1>8. CASE UNCHANGED vars
  BY <1>8 DEF vars
<1> QED
  BY <1>1, <1>2, <1>3, <1>4, <1>5, <1>6, <1>7, <1>8 DEF Next

\* A client that did not answer was pinged by the last ping, and the silence of each
\* is bounded by the pings since it was heard of.
LEMMA NextPinged == TypeOK /\ PingedLast /\ [Next]_vars => PingedLast'
<1> SUFFICES ASSUME TypeOK, PingedLast, [Next]_vars PROVE PingedLast'
  OBVIOUS
<1> USE DEF TypeOK, PingedLast
<1>1. ASSUME NEW c \in Conns, SubscriptionStored(c) PROVE PingedLast'
  BY <1>1 DEF SubscriptionStored
<1>2. ASSUME NEW c \in Conns, Subscribed(c) PROVE PingedLast'
  <2>1. tracked' = tracked \cup {c} /\ tick' = tick /\ pings' = pings
    BY <1>2 DEF Subscribed, Track, With
  <2>2. \A d \in tracked' : alive'[d] = IF d = c THEN TRUE ELSE alive[d]
    BY <1>2 DEF Subscribed, Track, With
  <2>3. DOMAIN quiet' = tracked' /\ \A d \in tracked' : quiet'[d] = IF d = c THEN 0 ELSE quiet[d]
    BY <1>2, <2>1 DEF Subscribed, With
  <2>4. ASSUME NEW d \in tracked' PROVE quiet'[d] <= (IF alive'[d] THEN tick' ELSE Interval + tick')
    <3>1. CASE d = c
      BY <2>1, <2>2, <2>3, <2>4, <3>1
    <3>2. CASE d # c
      BY <2>1, <2>2, <2>3, <2>4, <3>2
    <3> QED BY <3>1, <3>2
  <2>5. ASSUME NEW d \in tracked' \cap Answering, ~alive'[d] PROVE tick' \in pings'[d]
    BY <2>1, <2>2, <2>5
  <2> QED BY <2>4, <2>5
<1>3. ASSUME NEW c \in Conns, Left(c) PROVE PingedLast'
  BY <1>3 DEF Left, Only
<1>4. ASSUME NEW c \in Conns, pong(c) PROVE PingedLast'
  BY <1>4 DEF pong, Drop
<1>5. ASSUME NEW c \in Conns, PongStored(c) PROVE PingedLast'
  BY <1>5 DEF PongStored
<1>6. CASE ping
  <2>1. \A d \in tracked' : d \in tracked /\ alive[d] /\ ~alive'[d] /\ 0 \in pings'[d] /\ quiet'[d] = quiet[d]
    BY <1>6 DEF ping, Only
  <2>2. tick' = 0 /\ tick <= Interval
    BY <1>6 DEF ping
  <2> QED BY <2>1, <2>2
<1>7. CASE Tick
  <2>1. \A d \in tracked \cap Answering : tick \in pings[d] => tick + 1 \in pings'[d]
    BY <1>7 DEF Tick, Aged
  <2>2. tick' = tick + 1 /\ alive' = alive /\ quiet' = [c \in tracked |-> quiet[c] + 1]
    BY <1>7 DEF Tick
  <2> QED BY <2>1, <2>2
<1>8. CASE UNCHANGED vars
  BY <1>8 DEF vars
<1> QED
  BY <1>1, <1>2, <1>3, <1>4, <1>5, <1>6, <1>7, <1>8 DEF Next

LEMMA Inductive == Spec => []IInv
<1>1. Init => IInv
  BY InitTyping, InitLasts DEF IInv
<1>2. IInv /\ [Next]_vars => IInv'
  BY NextTyping, NextLasts, NextPinged DEF IInv
<1> QED BY <1>1, <1>2, PTL DEF Spec

\* The key of a tracked client that answers within the delays never ends.
THEOREM NeverExpires == Spec => []AnsweringNeverExpires
<1>1. IInv => AnsweringNeverExpires
  <2> SUFFICES ASSUME IInv, NEW c \in tracked \cap Answering PROVE ttl > 0
    BY DEF AnsweringNeverExpires
  <2> USE DEF IInv, TypeOK, KeyLasts
  <2>1. CASE WritePending(c)
    BY <2>1 DEF WritePending
  <2>2. CASE PongPending(c)
    BY <2>2 DEF PongPending
  <2>3. CASE PingPending
    BY <2>3 DEF PingPending
  <2> QED BY <2>1, <2>2, <2>3 DEF Renewed
<1> QED BY <1>1, Inductive, PTL

\* ping never drops a client that answers before the next ping.
THEOREM NeverDropped == Spec => AnsweringNeverDropped
<1>1. IInv /\ [Next]_vars => [ping => tracked \cap Answering \subseteq tracked']_vars
  <2> SUFFICES ASSUME IInv, ping, NEW c \in tracked \cap Answering PROVE c \in tracked'
    BY Zenon
  <2>1. tick > MaxReply
    BY ReplyAssumption DEF ping, IInv, TypeOK
  <2>2. alive[c]
    BY <2>1 DEF IInv, TypeOK, PingedLast
  <2> QED BY <2>2 DEF ping
<1> QED BY <1>1, Inductive, PTL DEF Spec, AnsweringNeverDropped

\* A client that is not heard of is dropped by the second ping.
THEOREM SilentDropped == Spec => []SilentIsDropped
<1>1. IInv => SilentIsDropped
  BY DEF IInv, TypeOK, PingedLast, SilentIsDropped
<1> QED BY <1>1, Inductive, PTL

\* Every clock stays below its limit.
THEOREM Typing == Spec => []TypeOK
BY InitTyping, NextTyping, PTL DEF Spec
=============================================================================
