------------------------------ MODULE SqsUtil ------------------------------
(***************************************************************************)
(* SqsUtil: the three operations of the SQS utility, with the queue they   *)
(* talk to.  A message that was received is hidden for the visibility      *)
(* timeout and comes back unless it is deleted with the handle of its last *)
(* receipt.                                                                *)
(***************************************************************************)
EXTENDS Naturals, FiniteSets

CONSTANTS
    Messages,
    Clients,                  \* the pool of receive clients
    MAX_MESSAGES_PER_RECEIVE

VARIABLES
    mode,    \* sqsConfig.mode
    place,   \* where the queue has each message
    held,    \* what each client received and its caller has not finished
    stale    \* of that, what another client has received since

vars == <<mode, place, held, stale>>

\* Every variable stays in its domain.
TypeOK ==
    /\ mode \in {"development", "deployment"}
    /\ place \in [Messages -> {"nowhere", "delayed", "visible", "hidden", "deleted"}]
    /\ held \in [Clients -> SUBSET Messages]
    /\ \A c \in Clients : stale[c] \subseteq held[c]

Init ==
    /\ mode \in {"development", "deployment"}
    /\ place = [m \in Messages |-> "nowhere"]
    /\ held = [c \in Clients |-> {}] /\ stale = held

Queued == {m \in Messages : place[m] \in {"delayed", "visible", "hidden"}}
At(S, where) == [m \in Messages |-> IF m \in S THEN where ELSE place[m]]

\* sendMessage resolves with a message id, made up in development mode.
sendMessage(m) ==
    /\ place' = IF mode = "development" THEN place ELSE At({m}, "delayed")
    /\ UNCHANGED <<mode, held, stale>>

\* It rejects: the queue refused the message, or stored it and the answer got lost.
SendRejects(m) ==
    /\ mode # "development"
    /\ place' \in {place, At({m}, "delayed")}
    /\ UNCHANGED <<mode, held, stale>>

DelayEnds(m) ==
    /\ place[m] = "delayed" /\ place' = At({m}, "visible")
    /\ UNCHANGED <<mode, held, stale>>

\* Mutant of VisibilityEnds: a message whose receiver is gone stays hidden.
VisibilityEndsHeld(m) ==
    /\ place[m] = "hidden" /\ place' = At({m}, "visible")
    /\ \E c \in Clients : m \in held[c]
    /\ UNCHANGED <<mode, held, stale>>
\* The VisibilityTimeout of the receive options is over.
VisibilityEnds(m) ==
    /\ place[m] = "hidden" /\ place' = At({m}, "visible")
    /\ UNCHANGED <<mode, held, stale>>

\* Mutant of receiveMessages: a VisibilityTimeout of 0.
receiveMessagesUnhidden(c, S, answered) ==
    /\ mode # "development"
    /\ held[c] = {} /\ held' = [held EXCEPT ![c] = IF answered THEN S ELSE {}]
    /\ S # {} /\ S \subseteq {m \in Messages : place[m] = "visible"}
    /\ Cardinality(S) <= MAX_MESSAGES_PER_RECEIVE
    /\ stale' = [d \in Clients |-> IF d = c THEN {} ELSE stale[d] \cup (held[d] \cap S)]
    /\ UNCHANGED <<mode, place>>
\* A poll that finds messages; the caller has them unless the answer got lost.
receiveMessages(c, S, answered) ==
    /\ mode # "development"
    /\ held[c] = {} /\ held' = [held EXCEPT ![c] = IF answered THEN S ELSE {}]
    /\ S # {} /\ S \subseteq {m \in Messages : place[m] = "visible"}
    /\ Cardinality(S) <= MAX_MESSAGES_PER_RECEIVE
    /\ place' = At(S, "hidden")
    /\ stale' = [d \in Clients |-> IF d = c THEN {} ELSE stale[d] \cup (held[d] \cap S)]
    /\ UNCHANGED mode

\* The messages a delete by c must remove: the handle of a later receipt replaces c's.
Deletable(c) == held[c] \ stale[c]

\* The caller gives its batch up without a delete.
Abandon(c) ==
    /\ held' = [held EXCEPT ![c] = {}] /\ stale' = [stale EXCEPT ![c] = {}]
    /\ UNCHANGED <<mode, place>>

\* Part of a batch is deleted.  The answer's Failed entries are not read: the caller
\* goes on in either case.
deleteMessages(c, gone) ==
    /\ held[c] # {} /\ gone \subseteq held[c]
    /\ place' = At(gone, "deleted")
    /\ held' = [held EXCEPT ![c] = {}] /\ stale' = [stale EXCEPT ![c] = {}]
    /\ UNCHANGED mode

\* The process ends with what its callers held.
Exit ==
    /\ held' = [c \in Clients |-> {}] /\ stale' = held'
    /\ UNCHANGED <<mode, place>>
=============================================================================
