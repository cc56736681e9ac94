----------------------------- MODULE MailQueue -----------------------------
(***************************************************************************)
(* MailQueue: the BullMQ queue of BullMqUtil, kept in Redis, and the       *)
(* EmailWorker of one process.  processJob throws for every job name: data *)
(* is not defined for the first, MailService has no sendVerificationEmail  *)
(* for the second, and the default rejects.  Every attempt ends in a       *)
(* failure or, when the worker loses its lock, in a stall.                 *)
(***************************************************************************)
EXTENDS Naturals, Sequences, FiniteSets

CONSTANTS
    Messages,          \* what jobs are made from
    ATTEMPTS,          \* defaultJobOptions.attempts
    MAX_STALLED_COUNT, \* BullMQ's maxStalledCount
    CONCURRENCY        \* of the worker

VARIABLES
    jobs,  \* for each message the jobs made from it
    owned  \* jobs, as <<message, index>>, that the live worker runs and holds the lock of

vars == <<jobs, owned>>

Job == [state : {"waiting", "active", "delayed", "failed", "removed"},
        made : 0 .. ATTEMPTS, stalled : 0 .. MAX_STALLED_COUNT + 1, starts : Nat]
Ids == UNION {{<<m, i>> : i \in DOMAIN jobs[m]} : m \in Messages}

\* Every variable stays in its domain; the worker runs active jobs only.
TypeOK ==
    /\ jobs \in [Messages -> Seq(Job)]
    /\ owned \subseteq Ids /\ Cardinality(owned) <= CONCURRENCY
    /\ \A id \in owned : jobs[id[1]][id[2]].state = "active"

Init ==
    /\ jobs = [m \in Messages |-> <<>>]
    /\ owned = {}

New == [state |-> "waiting", made |-> 0, stalled |-> 0, starts |-> 0]
\* addJob for one message and addBulkJobs for several, in one Redis transaction.
addBulkJobs(S) ==
    /\ jobs' = [m \in Messages |-> IF m \in S THEN Append(jobs[m], New) ELSE jobs[m]]
    /\ UNCHANGED owned

State(id) == jobs[id[1]][id[2]].state
Update(id, job) == jobs' = [jobs EXCEPT ![id[1]][id[2]] = job]

\* getJob finds every job; remove rejects one that a worker has locked.
removeJob(id) ==
    /\ id \in Ids \ owned /\ State(id) # "removed"
    /\ Update(id, [New EXCEPT !.state = "removed"])
    /\ UNCHANGED owned

\* Mutant of Start: the worker has no concurrency limit.
StartUnlimited(id) ==
    /\ id \in Ids /\ State(id) = "waiting"
    /\ Update(id, [jobs[id[1]][id[2]] EXCEPT !.state = "active", !.starts = @ + 1])
    /\ owned' = owned \cup {id}
\* The worker takes a job; among several waiting ones any may be the next.
Start(id) ==
    /\ id \in Ids /\ State(id) = "waiting"
    /\ Cardinality(owned) < CONCURRENCY
    /\ Update(id, [jobs[id[1]][id[2]] EXCEPT !.state = "active", !.starts = @ + 1])
    /\ owned' = owned \cup {id}

\* A failed attempt ends: BullMQ puts the job off until its attempts are used up.
Attempted(job, another) ==
    [job EXCEPT !.made = @ + 1, !.state = IF another THEN "delayed" ELSE "failed"]
\* Mutant of processJob: another attempt follows the last one.
processJobOnceMore(id) ==
    /\ id \in owned /\ owned' = owned \ {id}
    /\ LET job == jobs[id[1]][id[2]] IN Update(id, Attempted(job, job.made < ATTEMPTS))
\* processJob throws.
processJob(id) ==
    /\ id \in owned /\ owned' = owned \ {id}
    /\ LET job == jobs[id[1]][id[2]] IN Update(id, Attempted(job, job.made + 1 < ATTEMPTS))

BackoffEnds(id) ==
    /\ id \in Ids /\ State(id) = "delayed"
    /\ Update(id, [jobs[id[1]][id[2]] EXCEPT !.state = "waiting"])
    /\ UNCHANGED owned

\* A worker whose event loop was blocked loses a lock; what its attempt ends in is ignored.
LockEnds(id) ==
    /\ id \in owned /\ owned' = owned \ {id}
    /\ UNCHANGED jobs

\* The check for stalled jobs: back to the queue, or failed when it happens too often.
Stalled(id) ==
    /\ id \in Ids \ owned /\ State(id) = "active"
    /\ LET job == jobs[id[1]][id[2]] IN
       Update(id, [job EXCEPT !.stalled = @ + 1,
                              !.state = IF job.stalled < MAX_STALLED_COUNT THEN "waiting" ELSE "failed"])
    /\ UNCHANGED owned

Exit == owned' = {} /\ UNCHANGED jobs
=============================================================================
