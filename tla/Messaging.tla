----------------------------- MODULE Messaging -----------------------------
(***************************************************************************)
(* Messaging: the way of a message along "AWS SQS -> BullMQ -> Workers"    *)
(* (README 160 of the repository): a request whose handler awaits          *)
(* SqsUtil.sendMessage behind the validation pipe and the exception        *)
(* filter, the queue, consumers that turn what they receive into jobs, and *)
(* the worker.  Routes and consumers are not in the repository: they are   *)
(* the environment, and do with the utilities what these are made for.     *)
(***************************************************************************)
EXTENDS HttpErrors, FiniteSets

CONSTANTS
    Messages, Clients, MAX_MESSAGES_PER_RECEIVE,
    ATTEMPTS, MAX_STALLED_COUNT, CONCURRENCY,
    MaxIncidents  \* bound: failed calls, late handlings, lost locks, removals, process exits

ASSUME SizesAssumption ==
    /\ {MAX_MESSAGES_PER_RECEIVE, ATTEMPTS, CONCURRENCY} \subseteq Nat \ {0}
    /\ {MAX_STALLED_COUNT, MaxIncidents, MaxNodes} \subseteq Nat
ASSUME ClientsAssumption == IsFiniteSet(Clients)

VARIABLES
    mode, place, held, stale,  \* see SqsUtil
    jobs, owned,                \* see MailQueue
    errors,   \* what validation found in the request of each message
    answers,  \* the answer to the request of each message
    added,    \* clients whose batch was handed to BullMQ and is not deleted yet
    incidents

Sqs == INSTANCE SqsUtil
Mail == INSTANCE MailQueue

http == <<errors, answers>>
vars == <<mode, place, held, stale, jobs, owned, errors, answers, added, incidents>>

NoAnswer == [status |-> 0, errorCode |-> "none", details |-> {}]
Accepted == [status |-> 201, errorCode |-> "none", details |-> {}]

\* Every variable stays in its domain; a handed-over batch is one that is held.
TypeOK ==
    /\ Sqs!TypeOK /\ Mail!TypeOK
    /\ \A m \in Messages : Len(errors[m]) <= MaxNodes
    /\ \A m \in Messages : answers[m] \in {NoAnswer, Accepted} \/ answers[m].status \in 400 .. 599
    /\ added \subseteq {c \in Clients : held[c] # {}}
    /\ incidents \in 0 .. MaxIncidents

Init ==
    /\ Sqs!Init /\ Mail!Init
    /\ errors = [m \in Messages |-> <<>>]
    /\ answers = [m \in Messages |-> NoAnswer]
    /\ added = {} /\ incidents = 0

Incident == incidents < MaxIncidents /\ incidents' = incidents + 1

-----------------------------------------------------------------------------
(* Requests.  What a handler awaits before its answer is one step with the answer: in
   between, nothing reads what it has changed but the queue, which only goes on. *)

\* A message that was not sent, or in an attempt that stored nothing and answered nothing.
Arrives(m) == answers[m] = NoAnswer /\ place[m] = "nowhere"
Respond(m, answer) ==
    /\ answers' = [answers EXCEPT ![m] = answer]
    /\ UNCHANGED <<jobs, owned, added>>

\* The pipe throws before the handler runs.
ValidationFails(m) ==
    /\ Arrives(m)
    /\ \E found \in ValidationErrors :
          /\ errors' = [errors EXCEPT ![m] = found]
          /\ Respond(m, catch(getExceptionObj(found)))
    /\ UNCHANGED <<mode, place, held, stale, incidents>>

HandlerThrows(m) ==
    /\ Arrives(m)
    /\ \E exception \in Exceptions : Respond(m, catch(exception))
    /\ UNCHANGED <<mode, place, held, stale, errors, incidents>>

HandlerSends(m) ==
    /\ Arrives(m) /\ UNCHANGED errors
    /\ \/ Sqs!sendMessage(m) /\ Respond(m, Accepted) /\ UNCHANGED incidents
       \/ Sqs!SendRejects(m) /\ Respond(m, catch(SdkError)) /\ Incident

\* The queue stores the message, and the process or the connection ends before the answer.
AnswerLost(m) ==
    /\ Arrives(m) /\ Incident
    /\ mode # "development" /\ Sqs!sendMessage(m)
    /\ UNCHANGED <<jobs, owned, errors, answers, added>>

-----------------------------------------------------------------------------
(* The queue's clock, consumers and the worker *)

DelayEnds(m) == Sqs!DelayEnds(m) /\ UNCHANGED <<jobs, owned, http, added, incidents>>

\* Nobody handles the message any more, or handling it outlasts the timeout.
VisibilityEnds(m) ==
    /\ Sqs!VisibilityEnds(m)
    /\ IF \E c \in Clients : m \in held[c] THEN Incident ELSE UNCHANGED incidents
    /\ UNCHANGED <<jobs, owned, http, added>>

Receive(c) ==
    /\ \E S \in SUBSET Messages :
          \/ Sqs!receiveMessages(c, S, TRUE) /\ UNCHANGED incidents
          \/ Sqs!receiveMessages(c, S, FALSE) /\ Incident
    /\ UNCHANGED <<jobs, owned, http, added>>

\* Mutant of AddFails: addBulkJobs does not throw the error again.
AddFailsUnnoticed(c) ==
    /\ Incident /\ added' = added \cup {c}
    /\ Mail!addBulkJobs(held[c]) \/ UNCHANGED <<jobs, owned>>
    /\ UNCHANGED <<mode, place, held, stale>>
\* addBulkJobs rejects, whether or not Redis had added the jobs: the batch is left to
\* come back.
AddFails(c) ==
    /\ Sqs!Abandon(c) /\ Incident
    /\ Mail!addBulkJobs(held[c]) \/ UNCHANGED <<jobs, owned>>
    /\ UNCHANGED added

AddSucceeds(c) ==
    /\ Mail!addBulkJobs(held[c]) /\ added' = added \cup {c}
    /\ UNCHANGED <<mode, place, held, stale, incidents>>

HandOver(c) ==
    /\ held[c] # {} /\ c \notin added
    /\ AddSucceeds(c) \/ AddFails(c)
    /\ UNCHANGED http

Delete(c) ==
    /\ c \in added /\ added' = added \ {c}
    /\ \E gone \in SUBSET held[c] :
          /\ Sqs!deleteMessages(c, gone)
          /\ IF Sqs!Deletable(c) \subseteq gone THEN UNCHANGED incidents ELSE Incident
    /\ UNCHANGED <<jobs, owned, http>>

Work(id) ==
    /\ Mail!Start(id) \/ Mail!processJob(id) \/ Mail!BackoffEnds(id) \/ Mail!Stalled(id)
    /\ UNCHANGED <<mode, place, held, stale, http, added, incidents>>

\* A worker is blocked too long, or a job is removed.
Interfere(id) ==
    /\ Mail!LockEnds(id) \/ Mail!removeJob(id)
    /\ Incident
    /\ UNCHANGED <<mode, place, held, stale, http, added>>

\* The process ends and is started again; SQS and Redis keep what they have.
Exit ==
    /\ Incident /\ Sqs!Exit /\ Mail!Exit
    /\ added' = {}
    /\ UNCHANGED http

Ids == Messages \X (1 .. 1 + MaxIncidents)
Next ==
    \/ \E m \in Messages :
          \/ ValidationFails(m) \/ HandlerThrows(m) \/ HandlerSends(m) \/ AnswerLost(m)
          \/ DelayEnds(m) \/ VisibilityEnds(m)
    \/ \E c \in Clients : Receive(c) \/ HandOver(c) \/ Delete(c)
    \/ \E id \in Ids : Work(id) \/ Interfere(id)
    \/ Exit

Spec == Init /\ [][Next]_vars

\* The queue keeps its delays, some consumer goes on polling and finishes, the worker and
\* BullMQ's timers run.  Nobody need send anything, SQS need not take it, and no timeout
\* need overtake a consumer.
Fairness ==
    /\ WF_vars(\E m \in Messages : (DelayEnds(m) \/ VisibilityEnds(m)) /\ UNCHANGED incidents)
    /\ WF_vars(\E c \in Clients : Receive(c) \/ HandOver(c) \/ Delete(c))
    /\ WF_vars(\E id \in Ids : Work(id))
FairSpec == Spec /\ Fairness

-----------------------------------------------------------------------------
\* What an answer says of the message is true, whatever gets lost: after 201 the queue
\* has taken it (unless the mode is development), and after any answer but 201 and 500
\* it has not and the request may be sent again.  Only 500 leaves it open (sqs.util 131,
\* filter 29): the queue may have stored a message whose sender was told of an error.
AnswersAreTrue ==
    \A m \in Messages :
        /\ answers[m] = Accepted /\ mode # "development" => place[m] # "nowhere"
        /\ answers[m].status \notin {0, 201, 500} => place[m] = "nowhere"

\* Each failed property of a body is named once in the answer, by the whole way to it:
\* the names of a chain of errors that starts in the list (validation.pipe 35).
Chains(found) == UNION {
    {chain \in [1 .. n -> DOMAIN found] :
        /\ found[chain[1]].parent = 0
        /\ \A i \in 1 .. n - 1 : found[chain[i + 1]].parent = chain[i]} : n \in DOMAIN found}
FailuresNamed(found) ==
    {[i \in DOMAIN chain |-> found[chain[i]].property] :
        chain \in {ch \in Chains(found) : found[ch[Len(ch)]].constraints}}
DetailsNameFailures ==
    \A m \in Messages : errors[m] # <<>> =>
        /\ answers[m].status = 400
        /\ answers[m].details = FailuresNamed(errors[m])
        /\ Cardinality(answers[m].details) = Cardinality({i \in DOMAIN errors[m] : errors[m][i].constraints})

\* The path from SQS to BullMQ is at-least-once delivery that gives nothing up: through
\* exits, lost answers, partly failed deletes and stale receipts, a message that the
\* queue took waits there until a job was made from it.
Pipeline == INSTANCE Delivery WITH
    Items <- Messages,
    waiting <- Sqs!Queued,
    delivered <- {m \in Messages : jobs[m] # <<>>},
    givenUp <- {}
HandsOver == Pipeline!Spec

\* A message becomes a second job only through an incident, and through each at most one:
\* clients that poll at the same time do not hand over the same receipt.
DuplicatesAreIncidents == \A m \in Messages : Len(jobs[m]) <= 1 + incidents

\* However failed attempts, lost locks, exits and removals alternate, the worker starts
\* a job at most once per attempt and once more for each stall BullMQ excuses.
StartsBounded ==
    \A id \in Mail!Ids : jobs[id[1]][id[2]].starts <= ATTEMPTS + MAX_STALLED_COUNT

\* A message that the queue took leaves it in the end, and all its jobs are settled.
EventuallySettled ==
    \A m \in Messages : m \in Sqs!Queued ~>
        /\ place[m] = "deleted" /\ jobs[m] # <<>>
        /\ \A i \in DOMAIN jobs[m] : jobs[m][i].state \in {"failed", "removed"}
=============================================================================
