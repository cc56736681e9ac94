-------------------------- MODULE MessagingProofs --------------------------
(***************************************************************************)
(* Theorems about Messaging for every set of messages and clients, every   *)
(* limit and any number of incidents.                                      *)
(***************************************************************************)
EXTENDS Messaging, HttpErrorsProofs

-----------------------------------------------------------------------------
(* The jobs: what each has been started for. *)

Live == {"waiting", "active", "delayed"}

\* Every start of a job ended in a failed attempt or a stall, but the one under way; a
\* job that can start again has neither used up.
Accounted(job) ==
    /\ job \in Mail!Job
    /\ job.state \in Live =>
          /\ job.made < ATTEMPTS /\ job.stalled <= MAX_STALLED_COUNT
          /\ job.starts = job.made + job.stalled + (IF job.state = "active" THEN 1 ELSE 0)
    /\ job.starts <= ATTEMPTS + MAX_STALLED_COUNT

AccountedJob == {job \in Mail!Job : Accounted(job)}

Owned ==
    /\ owned \subseteq Mail!Ids /\ IsFiniteSet(owned) /\ Cardinality(owned) <= CONCURRENCY
    /\ \A id \in owned : Mail!State(id) = "active"

JobsInv == jobs \in [Messages -> Seq(AccountedJob)] /\ Owned

LEMMA Constants ==
    /\ ATTEMPTS \in Nat \ {0} /\ CONCURRENCY \in Nat \ {0}
    /\ MAX_STALLED_COUNT \in Nat /\ MaxIncidents \in Nat /\ MaxNodes \in Nat
BY SizesAssumption

LEMMA IdType ==
    ASSUME NEW id \in Mail!Ids
    PROVE  id[1] \in Messages /\ id[2] \in DOMAIN jobs[id[1]] /\ id = <<id[1], id[2]>>
BY DEF Mail!Ids

LEMMA JobType ==
    ASSUME jobs \in [Messages -> Seq(AccountedJob)], NEW id \in Mail!Ids
    PROVE  jobs[id[1]][id[2]] \in AccountedJob
<1>1. jobs[id[1]] \in Seq(AccountedJob) /\ id[2] \in DOMAIN jobs[id[1]]
  BY IdType
<1> QED BY <1>1

\* An update changes one job, and no job appears or vanishes.
LEMMA UpdateKeeps ==
    ASSUME jobs \in [Messages -> Seq(AccountedJob)],
           NEW id \in Mail!Ids, NEW job \in AccountedJob, Mail!Update(id, job)
    PROVE  /\ jobs' \in [Messages -> Seq(AccountedJob)]
           /\ Mail!Ids' = Mail!Ids
           /\ \A m \in Messages : DOMAIN jobs'[m] = DOMAIN jobs[m]
           /\ jobs'[id[1]][id[2]] = job
           /\ \A other \in Mail!Ids : other # id => jobs'[other[1]][other[2]] = jobs[other[1]][other[2]]
<1> DEFINE n == id[1]
           i == id[2]
<1>1. n \in Messages /\ i \in DOMAIN jobs[n] /\ id = <<n, i>>
  BY IdType
<1>2. jobs' = [jobs EXCEPT ![n][i] = job]
  BY DEF Mail!Update
<1>3. jobs[n] \in Seq(AccountedJob) /\ i \in 1 .. Len(jobs[n])
  BY <1>1
<1>4. jobs' = [jobs EXCEPT ![n] = [jobs[n] EXCEPT ![i] = job]]
  BY <1>1, <1>2
<1>5. [jobs[n] EXCEPT ![i] = job] \in Seq(AccountedJob)
  BY <1>3, ExceptSeq
<1>6. jobs' \in [Messages -> Seq(AccountedJob)]
  BY <1>1, <1>4, <1>5
<1>7. \A m \in Messages : jobs'[m] = IF m = n THEN [jobs[n] EXCEPT ![i] = job] ELSE jobs[m]
  BY <1>1, <1>4
<1>8. \A m \in Messages : DOMAIN jobs'[m] = DOMAIN jobs[m]
  BY <1>7
<1>9. Mail!Ids' = Mail!Ids
  BY <1>8 DEF Mail!Ids
<1>10. jobs'[n][i] = job
  BY <1>1, <1>3, <1>7
<1>11. ASSUME NEW other \in Mail!Ids, other # id
       PROVE  jobs'[other[1]][other[2]] = jobs[other[1]][other[2]]
  <2>1. other[1] \in Messages /\ other[2] \in DOMAIN jobs[other[1]] /\ other = <<other[1], other[2]>>
    BY IdType
  <2>2. other[1] # n \/ other[2] # i
    BY <1>1, <1>11, <2>1
  <2> QED BY <1>3, <1>7, <2>1, <2>2
<1> QED BY <1>6, <1>8, <1>9, <1>10, <1>11

\* What a step of the worker may do to the jobs: none appears and none goes lost.
JobsStep == JobsInv' /\ \A m \in Messages : Len(jobs'[m]) = Len(jobs[m])

LEMMA Update ==
    ASSUME JobsInv, NEW id \in Mail!Ids, NEW job \in AccountedJob, Mail!Update(id, job),
           \/ owned' = owned \ {id}
           \/ owned' = owned /\ id \notin owned
           \/ owned' = owned \cup {id} /\ Cardinality(owned) < CONCURRENCY /\ job.state = "active"
    PROVE  JobsStep
<1>1. /\ jobs' \in [Messages -> Seq(AccountedJob)] /\ Mail!Ids' = Mail!Ids
      /\ \A m \in Messages : DOMAIN jobs'[m] = DOMAIN jobs[m]
      /\ jobs'[id[1]][id[2]] = job
      /\ \A other \in Mail!Ids : other # id => jobs'[other[1]][other[2]] = jobs[other[1]][other[2]]
  BY UpdateKeeps DEF JobsInv
<1>2. IsFiniteSet(owned) /\ Cardinality(owned) \in Nat /\ Cardinality(owned) <= CONCURRENCY
  BY FS_CardinalityType DEF JobsInv, Owned
<1>3. IsFiniteSet(owned') /\ Cardinality(owned') <= CONCURRENCY
  <2>1. CASE owned' = owned \ {id}
    BY <1>2, <2>1, FS_RemoveElement, Constants
  <2>2. CASE owned' = owned
    BY <1>2, <2>2
  <2>3. CASE owned' = owned \cup {id} /\ Cardinality(owned) < CONCURRENCY
    <3>1. /\ IsFiniteSet(owned \cup {id})
          /\ Cardinality(owned \cup {id}) = Cardinality(owned) \/ Cardinality(owned \cup {id}) = Cardinality(owned) + 1
      BY <1>2, FS_AddElement
    <3> QED BY <1>2, <2>3, <3>1, Constants
  <2> QED BY <2>1, <2>2, <2>3
<1>4. \A other \in owned' : other # id => other \in owned
  OBVIOUS
<1>5. \A other \in owned' : Mail!State(other)' = "active"
  BY <1>1, <1>4, SMTT(30) DEF JobsInv, Owned, Mail!State
<1>6. owned' \subseteq Mail!Ids'
  BY <1>1 DEF JobsInv, Owned
<1>7. ASSUME NEW m \in Messages PROVE Len(jobs'[m]) = Len(jobs[m])
  <2>1. jobs[m] \in Seq(AccountedJob) /\ jobs'[m] \in Seq(AccountedJob) /\ DOMAIN jobs'[m] = DOMAIN jobs[m]
    BY <1>1 DEF JobsInv
  <2> QED BY <2>1, LenProperties
<1> QED BY <1>1, <1>3, <1>5, <1>6, <1>7 DEF JobsStep, JobsInv, Owned

LEMMA Added ==
    ASSUME JobsInv, NEW S \in SUBSET Messages, Mail!addBulkJobs(S)
    PROVE  /\ JobsInv'
           /\ \A m \in Messages : Len(jobs'[m]) = IF m \in S THEN Len(jobs[m]) + 1 ELSE Len(jobs[m])
<1>1. /\ jobs' = [m \in Messages |-> IF m \in S THEN Append(jobs[m], Mail!New) ELSE jobs[m]]
      /\ owned' = owned
  BY DEF Mail!addBulkJobs
<1>2. Mail!New \in AccountedJob
  BY Constants DEF Mail!New, AccountedJob, Accounted, Mail!Job, Live
<1>3. ASSUME NEW m \in Messages
      PROVE  /\ jobs'[m] \in Seq(AccountedJob) /\ DOMAIN jobs[m] \subseteq DOMAIN jobs'[m]
             /\ \A i \in DOMAIN jobs[m] : jobs'[m][i] = jobs[m][i]
             /\ Len(jobs'[m]) = IF m \in S THEN Len(jobs[m]) + 1 ELSE Len(jobs[m])
  <2>1. jobs[m] \in Seq(AccountedJob)
    BY DEF JobsInv
  <2>2. CASE m \in S
    <3>1. jobs'[m] = Append(jobs[m], Mail!New)
      BY <1>1, <2>2
    <3>2. /\ Append(jobs[m], Mail!New) \in Seq(AccountedJob)
          /\ Len(Append(jobs[m], Mail!New)) = Len(jobs[m]) + 1
          /\ \A i \in 1 .. Len(jobs[m]) : Append(jobs[m], Mail!New)[i] = jobs[m][i]
      BY <1>2, <2>1, AppendProperties
    <3> QED BY <2>1, <2>2, <3>1, <3>2
  <2>3. CASE m \notin S
    BY <1>1, <2>1, <2>3
  <2> QED BY <2>2, <2>3
<1>4. jobs' \in [Messages -> Seq(AccountedJob)]
  BY <1>1, <1>3
<1>5. ASSUME NEW id \in owned PROVE id \in Mail!Ids' /\ Mail!State(id)' = "active"
  <2>1. id \in Mail!Ids /\ Mail!State(id) = "active"
    BY DEF JobsInv, Owned
  <2>2. id[1] \in Messages /\ id[2] \in DOMAIN jobs[id[1]] /\ id = <<id[1], id[2]>>
    BY <2>1, IdType
  <2>3. id[2] \in DOMAIN jobs'[id[1]] /\ jobs'[id[1]][id[2]] = jobs[id[1]][id[2]]
    BY <1>3, <2>2
  <2> QED BY <2>1, <2>2, <2>3 DEF Mail!Ids, Mail!State
<1> QED BY <1>1, <1>3, <1>4, <1>5 DEF JobsInv, Owned

LEMMA JobsStay == ASSUME JobsInv, UNCHANGED jobs, owned' \in {owned, {}} PROVE JobsStep
<1>1. Mail!Ids' = Mail!Ids /\ \A id : Mail!State(id)' = Mail!State(id)
  BY DEF Mail!Ids, Mail!State
<1>2. IsFiniteSet({}) /\ Cardinality({}) = 0
  BY FS_EmptySet
<1>3. jobs' \in [Messages -> Seq(AccountedJob)] /\ \A m \in Messages : Len(jobs'[m]) = Len(jobs[m])
  BY DEF JobsInv
<1>4. CASE owned' = owned
  BY <1>1, <1>3, <1>4 DEF JobsStep, JobsInv, Owned
<1>5. CASE owned' = {}
  BY <1>2, <1>3, <1>5, Constants DEF JobsStep, JobsInv, Owned
<1> QED BY <1>4, <1>5

LEMMA JobFields ==
    ASSUME NEW job \in AccountedJob
    PROVE  /\ job = [state |-> job.state, made |-> job.made, stalled |-> job.stalled, starts |-> job.starts]
           /\ job.made \in Nat /\ job.stalled \in Nat /\ job.starts \in Nat
           /\ job.made <= ATTEMPTS /\ job.stalled <= MAX_STALLED_COUNT + 1
           /\ job.starts <= ATTEMPTS + MAX_STALLED_COUNT
           /\ job.state \in Live =>
                 /\ job.made < ATTEMPTS /\ job.stalled <= MAX_STALLED_COUNT
                 /\ job.starts = job.made + job.stalled + (IF job.state = "active" THEN 1 ELSE 0)
<1>1. job \in Mail!Job /\ Accounted(job)
  BY DEF AccountedJob
<1>2. /\ job = [state |-> job.state, made |-> job.made, stalled |-> job.stalled, starts |-> job.starts]
      /\ job.made \in 0 .. ATTEMPTS /\ job.stalled \in 0 .. MAX_STALLED_COUNT + 1 /\ job.starts \in Nat
  BY <1>1 DEF Mail!Job
<1> QED BY <1>1, <1>2, Constants DEF Accounted

\* Two fields of a job that change in one step.
LEMMA SetStarts ==
    ASSUME NEW job, NEW s, NEW x,
           job = [state |-> job.state, made |-> job.made, stalled |-> job.stalled, starts |-> job.starts]
    PROVE  [job EXCEPT !.state = s, !.starts = x] = [state |-> s, made |-> job.made, stalled |-> job.stalled, starts |-> x]
<1> DEFINE r == [job EXCEPT !.state = s]
<1>1. [job EXCEPT !.state = s, !.starts = x] = [r EXCEPT !.starts = x]
  BY Zenon
<1>2. r = [state |-> s, made |-> job.made, stalled |-> job.stalled, starts |-> job.starts]
  OBVIOUS
<1>3. [r EXCEPT !.starts = x] = [state |-> s, made |-> job.made, stalled |-> job.stalled, starts |-> x]
  <2> HIDE DEF r
  <2> QED BY <1>2
<1> QED BY <1>1, <1>3, Zenon

LEMMA SetMade ==
    ASSUME NEW job, NEW s, NEW x,
           job = [state |-> job.state, made |-> job.made, stalled |-> job.stalled, starts |-> job.starts]
    PROVE  [job EXCEPT !.made = x, !.state = s] = [state |-> s, made |-> x, stalled |-> job.stalled, starts |-> job.starts]
<1> DEFINE r == [job EXCEPT !.made = x]
<1>1. [job EXCEPT !.made = x, !.state = s] = [r EXCEPT !.state = s]
  BY Zenon
<1>2. r = [state |-> job.state, made |-> x, stalled |-> job.stalled, starts |-> job.starts]
  OBVIOUS
<1>3. [r EXCEPT !.state = s] = [state |-> s, made |-> x, stalled |-> job.stalled, starts |-> job.starts]
  <2> HIDE DEF r
  <2> QED BY <1>2
<1> QED BY <1>1, <1>3, Zenon

LEMMA FieldsJob ==
    ASSUME NEW state \in {"waiting", "active", "delayed", "failed", "removed"},
           NEW made \in Nat, NEW stalled \in Nat, NEW starts \in Nat,
           made <= ATTEMPTS, stalled <= MAX_STALLED_COUNT + 1, starts <= ATTEMPTS + MAX_STALLED_COUNT,
           state \in Live =>
              /\ made < ATTEMPTS /\ stalled <= MAX_STALLED_COUNT
              /\ starts = made + stalled + (IF state = "active" THEN 1 ELSE 0)
    PROVE  [state |-> state, made |-> made, stalled |-> stalled, starts |-> starts] \in AccountedJob
<1> DEFINE job == [state |-> state, made |-> made, stalled |-> stalled, starts |-> starts]
<1>1. made \in 0 .. ATTEMPTS /\ stalled \in 0 .. MAX_STALLED_COUNT + 1
  BY Constants
<1>2. job \in Mail!Job
  BY <1>1 DEF Mail!Job
<1> QED BY <1>2 DEF AccountedJob, Accounted

\* A job that the worker or BullMQ's timers change stays accounted for.
LEMMA Changes ==
    ASSUME NEW job \in AccountedJob
    PROVE  /\ job.state = "waiting" => [job EXCEPT !.state = "active", !.starts = @ + 1] \in AccountedJob
           /\ job.state = "active" => Mail!Attempted(job, job.made + 1 < ATTEMPTS) \in AccountedJob
           /\ job.state = "delayed" => [job EXCEPT !.state = "waiting"] \in AccountedJob
           /\ job.state = "active" =>
                 [job EXCEPT !.stalled = @ + 1,
                             !.state = IF job.stalled < MAX_STALLED_COUNT THEN "waiting" ELSE "failed"]
                 \in AccountedJob
<1> DEFINE Rec(s, m, t, n) == [state |-> s, made |-> m, stalled |-> t, starts |-> n]
<1>f. /\ job = Rec(job.state, job.made, job.stalled, job.starts)
      /\ job.made \in Nat /\ job.stalled \in Nat /\ job.starts \in Nat
      /\ job.made <= ATTEMPTS /\ job.stalled <= MAX_STALLED_COUNT + 1
      /\ job.starts <= ATTEMPTS + MAX_STALLED_COUNT
      /\ job.state \in Live =>
            /\ job.made < ATTEMPTS /\ job.stalled <= MAX_STALLED_COUNT
            /\ job.starts = job.made + job.stalled + (IF job.state = "active" THEN 1 ELSE 0)
  BY JobFields
<1>1. ASSUME job.state = "waiting"
      PROVE  [job EXCEPT !.state = "active", !.starts = @ + 1] \in AccountedJob
  <2>1. [job EXCEPT !.state = "active", !.starts = @ + 1] = Rec("active", job.made, job.stalled, job.starts + 1)
    BY <1>f, SetStarts, Zenon
  <2>2. Rec("active", job.made, job.stalled, job.starts + 1) \in AccountedJob
    BY <1>1, <1>f, FieldsJob, Constants DEF Live
  <2> QED BY <2>1, <2>2, Zenon
<1>2. ASSUME job.state = "active" PROVE Mail!Attempted(job, job.made + 1 < ATTEMPTS) \in AccountedJob
  <2> DEFINE next == IF job.made + 1 < ATTEMPTS THEN "delayed" ELSE "failed"
  <2>1. Rec(next, job.made + 1, job.stalled, job.starts) \in AccountedJob
    <3>1. /\ next \in {"delayed", "failed"} /\ job.made + 1 <= ATTEMPTS /\ job.made + 1 \in Nat
          /\ next \in Live => job.made + 1 < ATTEMPTS /\ next = "delayed"
          /\ job.stalled <= MAX_STALLED_COUNT /\ job.starts = (job.made + 1) + job.stalled
      BY <1>2, <1>f, Constants DEF Live
    <3> HIDE DEF next
    <3> QED BY <1>f, <3>1, FieldsJob
  <2>2. Mail!Attempted(job, job.made + 1 < ATTEMPTS) = [job EXCEPT !.made = job.made + 1, !.state = next]
    BY Zenon DEF Mail!Attempted
  <2> HIDE DEF next
  <2>3. [job EXCEPT !.made = job.made + 1, !.state = next] = Rec(next, job.made + 1, job.stalled, job.starts)
    BY <1>f, SetMade, Zenon
  <2> QED BY <2>1, <2>2, <2>3, Zenon
<1>3. ASSUME job.state = "delayed" PROVE [job EXCEPT !.state = "waiting"] \in AccountedJob
  <2>1. [job EXCEPT !.state = "waiting"] = Rec("waiting", job.made, job.stalled, job.starts)
    BY <1>f
  <2> QED BY <1>3, <1>f, <2>1, FieldsJob DEF Live
<1>4. ASSUME job.state = "active"
      PROVE  [job EXCEPT !.stalled = @ + 1,
                         !.state = IF job.stalled < MAX_STALLED_COUNT THEN "waiting" ELSE "failed"]
             \in AccountedJob
  <2> DEFINE next == IF job.stalled < MAX_STALLED_COUNT THEN "waiting" ELSE "failed"
  <2>1. Rec(next, job.made, job.stalled + 1, job.starts) \in AccountedJob
    <3>1. /\ next \in {"waiting", "failed"} /\ job.stalled + 1 <= MAX_STALLED_COUNT + 1
          /\ next \in Live => job.stalled + 1 <= MAX_STALLED_COUNT /\ next = "waiting"
          /\ job.made < ATTEMPTS /\ job.starts = job.made + (job.stalled + 1) /\ job.stalled + 1 \in Nat
      BY <1>4, <1>f, Constants DEF Live
    <3> HIDE DEF next
    <3> QED BY <1>f, <3>1, FieldsJob
  <2> SUFFICES [job EXCEPT !.stalled = @ + 1, !.state = next] \in AccountedJob
    OBVIOUS
  <2> HIDE DEF next
  <2>2. [job EXCEPT !.stalled = @ + 1, !.state = next] = Rec(next, job.made, job.stalled + 1, job.starts)
    <3> DEFINE r == [job EXCEPT !.stalled = job.stalled + 1]
    <3>1. [job EXCEPT !.stalled = @ + 1, !.state = next] = [r EXCEPT !.state = next]
      BY Zenon
    <3>2. r = Rec(job.state, job.made, job.stalled + 1, job.starts)
      BY <1>f
    <3>3. [r EXCEPT !.state = next] = Rec(next, job.made, job.stalled + 1, job.starts)
      <4> HIDE DEF r
      <4> QED BY <3>2
    <3> QED BY <3>1, <3>3, Zenon
  <2> QED BY <2>1, <2>2, Zenon
<1> QED BY <1>1, <1>2, <1>3, <1>4

LEMMA Worked ==
    ASSUME JobsInv, NEW id, Work(id) \/ Interfere(id)
    PROVE  JobsStep
<1> DEFINE job == jobs[id[1]][id[2]]
<1>1. id \in Mail!Ids
  BY DEF Work, Interfere, Mail!Start, Mail!processJob, Mail!BackoffEnds, Mail!Stalled,
         Mail!LockEnds, Mail!removeJob, JobsInv, Owned
<1>2. job \in AccountedJob
  BY <1>1, JobType DEF JobsInv
<1>3. Mail!State(id) = job.state
  BY DEF Mail!State
<1> HIDE DEF job
<1> USE DEF JobsInv, Owned
<1>4. CASE Mail!Start(id)
  <2> DEFINE new == [job EXCEPT !.state = "active", !.starts = @ + 1]
  <2>1. /\ job.state = "waiting" /\ Mail!Update(id, new)
        /\ owned' = owned \cup {id} /\ Cardinality(owned) < CONCURRENCY
    BY <1>3, <1>4 DEF Mail!Start, job, Mail!Cardinality, Cardinality
  <2>2. new \in AccountedJob /\ new.state = "active"
    <3>1. new \in AccountedJob
      BY <1>2, <2>1, Changes
    <3>2. [state |-> "active", made |-> job.made, stalled |-> job.stalled, starts |-> job.starts + 1].state = "active"
      OBVIOUS
    <3>3. new = [state |-> "active", made |-> job.made, stalled |-> job.stalled, starts |-> job.starts + 1]
      BY <1>2, JobFields, SetStarts, Zenon
    <3> HIDE DEF new
    <3> QED BY <3>1, <3>2, <3>3
  <2> HIDE DEF new
  <2> QED BY <1>1, <2>1, <2>2, Update
<1>5. CASE Mail!processJob(id)
  <2> DEFINE new == Mail!Attempted(job, job.made + 1 < ATTEMPTS)
  <2>1. job.state = "active" /\ Mail!Update(id, new) /\ owned' = owned \ {id}
    BY <1>3, <1>5 DEF Mail!processJob, job
  <2>2. new \in AccountedJob
    BY <1>2, <2>1, Changes
  <2> HIDE DEF new
  <2> QED BY <1>1, <2>1, <2>2, Update
<1>6. CASE Mail!BackoffEnds(id)
  <2> DEFINE new == [job EXCEPT !.state = "waiting"]
  <2>1. job.state = "delayed" /\ Mail!Update(id, new) /\ owned' = owned
    BY <1>3, <1>6 DEF Mail!BackoffEnds, job
  <2>2. new \in AccountedJob /\ id \notin owned
    BY <1>2, <1>3, <2>1, Changes
  <2> HIDE DEF new
  <2> QED BY <1>1, <2>1, <2>2, Update
<1>7. CASE Mail!Stalled(id)
  <2> DEFINE new == [job EXCEPT !.stalled = @ + 1,
                                !.state = IF job.stalled < MAX_STALLED_COUNT THEN "waiting" ELSE "failed"]
  <2>1. job.state = "active" /\ id \notin owned /\ Mail!Update(id, new) /\ owned' = owned
    BY <1>3, <1>7 DEF Mail!Stalled, job
  <2>2. new \in AccountedJob
    BY <1>2, <2>1, Changes
  <2> HIDE DEF new
  <2> QED BY <1>1, <2>1, <2>2, Update
<1>8. CASE Mail!removeJob(id)
  <2> DEFINE new == [Mail!New EXCEPT !.state = "removed"]
  <2>1. new = [state |-> "removed", made |-> 0, stalled |-> 0, starts |-> 0]
    BY DEF Mail!New
  <2>2. new \in AccountedJob
    BY <2>1, FieldsJob, Constants DEF Live
  <2>3. Mail!Update(id, new) /\ owned' = owned /\ id \notin owned
    BY <1>8 DEF Mail!removeJob
  <2> HIDE DEF new
  <2> QED BY <1>1, <2>2, <2>3, Update
<1>9. CASE Mail!LockEnds(id)
  <2>1. Mail!Ids' = Mail!Ids /\ \A other : Mail!State(other)' = Mail!State(other)
    BY <1>9 DEF Mail!LockEnds, Mail!Ids, Mail!State
  <2>2. jobs' = jobs /\ owned' = owned \ {id} /\ id \in owned
    BY <1>9 DEF Mail!LockEnds
  <2>3. IsFiniteSet(owned \ {id}) /\ Cardinality(owned \ {id}) = Cardinality(owned) - 1 /\ Cardinality(owned) \in Nat
    BY <2>2, FS_RemoveElement, FS_CardinalityType
  <2>4. Cardinality(owned \ {id}) <= CONCURRENCY
    BY <2>3, Constants
  <2> QED BY <2>1, <2>2, <2>3, <2>4 DEF JobsStep
<1> QED BY <1>4, <1>5, <1>6, <1>7, <1>8, <1>9 DEF Work, Interfere

-----------------------------------------------------------------------------
(* The way of a message from the queue to its first job. *)

Taken ==
    /\ mode \in {"development", "deployment"}
    /\ place \in [Messages -> {"nowhere", "delayed", "visible", "hidden", "deleted"}]
    /\ held \in [Clients -> SUBSET Messages] /\ stale \in [Clients -> SUBSET Messages]
    /\ added \subseteq {c \in Clients : held[c] # {}}

\* Jobs come only from messages that the queue took, a deleted message has one, and so
\* has a batch that may be deleted.
Handed ==
    /\ \A m \in Messages : place[m] = "nowhere" => Len(jobs[m]) = 0
    /\ \A m \in Messages : place[m] = "deleted" => Len(jobs[m]) > 0
    /\ \A c \in Clients : \A m \in held[c] : place[m] # "nowhere" /\ (c \in added => Len(jobs[m]) > 0)

Inv == JobsInv /\ Taken /\ Handed

\* What every step does: it keeps the invariant and is one of the pipeline's.
Goes == Inv' /\ (Pipeline!Next \/ UNCHANGED Pipeline!vars)

LEMMA Lengths ==
    ASSUME JobsInv, NEW m \in Messages
    PROVE  Len(jobs[m]) \in Nat /\ (jobs[m] = <<>> <=> Len(jobs[m]) = 0)
<1>1. jobs[m] \in Seq(AccountedJob)
  BY DEF JobsInv
<1> QED BY <1>1, LenProperties, EmptySeq

\* A step that makes no job and moves messages only within the queue.
LEMMA Stutters ==
    ASSUME Inv, JobsInv', Sqs!Queued' = Sqs!Queued, \A m \in Messages : Len(jobs'[m]) = Len(jobs[m])
    PROVE  UNCHANGED Pipeline!vars
<1>1. \A m \in Messages : jobs'[m] = <<>> <=> jobs[m] = <<>>
  <2> SUFFICES ASSUME NEW m \in Messages PROVE jobs'[m] = <<>> <=> jobs[m] = <<>>
    OBVIOUS
  <2>1. jobs[m] = <<>> <=> Len(jobs[m]) = 0
    BY Lengths DEF Inv
  <2>2. jobs'[m] = <<>> <=> Len(jobs'[m]) = 0
    <3>1. jobs'[m] \in Seq(AccountedJob)
      BY DEF JobsInv
    <3> QED BY <3>1, LenProperties, EmptySeq
  <2> QED BY <2>1, <2>2
<1>2. {m \in Messages : jobs[m] # <<>>}' = {m \in Messages : jobs[m] # <<>>}
  BY <1>1
<1> QED BY <1>2 DEF Pipeline!vars

LEMMA Unmoved == ASSUME Inv, UNCHANGED jobs, owned' \in {owned, {}} PROVE JobsStep
BY JobsStay DEF Inv

\* A message leaves "nowhere" when the queue takes it.
LEMMA Stored ==
    ASSUME Inv, NEW m \in Messages, place[m] = "nowhere",
           UNCHANGED <<mode, held, stale, jobs, owned, added>>,
           place' = place \/ place' = Sqs!At({m}, "delayed")
    PROVE  Goes
<1>1. JobsStep
  BY Unmoved
<1>2. Taken'
  BY DEF Inv, Taken, Sqs!At
<1>3. Handed'
  BY DEF Inv, Taken, Handed, Sqs!At
<1>4. CASE place' = place
  <2>1. Sqs!Queued' = Sqs!Queued
    BY <1>4 DEF Sqs!Queued
  <2> QED BY <1>1, <1>2, <1>3, <2>1, Stutters DEF JobsStep, Goes, Inv
<1>5. CASE place' = Sqs!At({m}, "delayed")
  <2>1. Sqs!Queued' = Sqs!Queued \cup {m} /\ m \notin Sqs!Queued
    BY <1>5 DEF Inv, Taken, Sqs!At, Sqs!Queued
  <2>2. jobs[m] = <<>>
    BY Lengths DEF Inv, Handed
  <2>3. Pipeline!TakeOver(m)
    BY <2>1, <2>2 DEF Pipeline!TakeOver
  <2> QED BY <1>1, <1>2, <1>3, <2>3 DEF JobsStep, Goes, Inv, Pipeline!Next
<1> QED BY <1>4, <1>5

LEMMA RequestGoes ==
    ASSUME Inv, NEW m \in Messages,
           ValidationFails(m) \/ HandlerThrows(m) \/ HandlerSends(m) \/ AnswerLost(m)
    PROVE  Goes
<1>1. /\ place[m] = "nowhere" /\ UNCHANGED <<mode, held, stale, jobs, owned, added>>
      /\ place' = place \/ place' = Sqs!At({m}, "delayed")
  BY DEF ValidationFails, HandlerThrows, HandlerSends, AnswerLost, Arrives, Respond,
         Sqs!sendMessage, Sqs!SendRejects
<1> QED BY <1>1, Stored

\* The queue's clock and polls move messages within the queue.
LEMMA ClockGoes == ASSUME Inv, NEW m \in Messages, DelayEnds(m) \/ VisibilityEnds(m) PROVE Goes
<1>1. /\ place[m] \in {"delayed", "hidden"} /\ place' = Sqs!At({m}, "visible")
      /\ UNCHANGED <<mode, held, stale, jobs, owned, added>>
  BY DEF DelayEnds, VisibilityEnds, Sqs!DelayEnds, Sqs!VisibilityEnds
<1>2. JobsStep
  BY <1>1, Unmoved
<1>3. Taken' /\ Handed' /\ Sqs!Queued' = Sqs!Queued
  BY <1>1 DEF Inv, Taken, Handed, Sqs!At, Sqs!Queued
<1> QED BY <1>2, <1>3, Stutters DEF JobsStep, Goes, Inv

LEMMA ReceiveGoes == ASSUME Inv, NEW c \in Clients, Receive(c) PROVE Goes
<1>1. PICK S \in SUBSET Messages : Sqs!receiveMessages(c, S, TRUE) \/ Sqs!receiveMessages(c, S, FALSE)
  BY DEF Receive
<1>2. /\ \A m \in S : place[m] = "visible"
      /\ held[c] = {} /\ place' = Sqs!At(S, "hidden") /\ mode' = mode
      /\ held' = [held EXCEPT ![c] = S] \/ held' = [held EXCEPT ![c] = {}]
      /\ stale' = [d \in Clients |-> IF d = c THEN {} ELSE stale[d] \cup (held[d] \cap S)]
      /\ UNCHANGED <<jobs, owned, added>>
  BY <1>1 DEF Receive, Sqs!receiveMessages
<1>3. JobsStep
  BY <1>2, Unmoved
<1>4. c \notin added /\ \A d \in Clients : d # c => held'[d] = held[d]
  BY <1>2 DEF Inv, Taken
<1>5. Taken'
  BY <1>2, <1>4 DEF Inv, Taken, Sqs!At
<1>6. Handed' /\ Sqs!Queued' = Sqs!Queued
  BY <1>2, <1>4 DEF Inv, Taken, Handed, Sqs!At, Sqs!Queued
<1> QED BY <1>3, <1>5, <1>6, Stutters DEF JobsStep, Goes, Inv

LEMMA HandOverGoes == ASSUME Inv, NEW c \in Clients, HandOver(c) PROVE Goes
<1>1. /\ c \notin added /\ UNCHANGED <<mode, place>>
      /\ \/ held' = held /\ stale' = stale /\ added' = added \cup {c} /\ Mail!addBulkJobs(held[c])
         \/ /\ held' = [held EXCEPT ![c] = {}] /\ stale' = [stale EXCEPT ![c] = {}] /\ added' = added
            /\ Mail!addBulkJobs(held[c]) \/ UNCHANGED <<jobs, owned>>
  BY DEF HandOver, AddSucceeds, AddFails, Sqs!Abandon
<1>2. held[c] # {} /\ held[c] \in SUBSET Messages
  BY DEF HandOver, Inv, Taken
<1>3. Sqs!Queued' = Sqs!Queued
  BY <1>1 DEF Sqs!Queued
<1>4. Taken'
  BY <1>1, <1>2 DEF Inv, Taken
<1>5. CASE Mail!addBulkJobs(held[c])
  <2>1. /\ JobsInv'
        /\ \A m \in Messages : Len(jobs'[m]) = IF m \in held[c] THEN Len(jobs[m]) + 1 ELSE Len(jobs[m])
    BY <1>2, <1>5, Added DEF Inv
  <2>2. \A m \in Messages : /\ Len(jobs[m]) \in Nat /\ (jobs[m] = <<>> <=> Len(jobs[m]) = 0)
                            /\ Len(jobs'[m]) \in Nat /\ (jobs'[m] = <<>> <=> Len(jobs'[m]) = 0)
    <3>1. \A m \in Messages : Len(jobs[m]) \in Nat /\ (jobs[m] = <<>> <=> Len(jobs[m]) = 0)
      BY Lengths DEF Inv
    <3>2. ASSUME NEW m \in Messages PROVE Len(jobs'[m]) \in Nat /\ (jobs'[m] = <<>> <=> Len(jobs'[m]) = 0)
      <4>1. jobs'[m] \in Seq(AccountedJob)
        BY <2>1 DEF JobsInv
      <4> QED BY <4>1, LenProperties, EmptySeq
    <3> QED BY <3>1, <3>2
  <2>3. Handed'
    <3>1. \A m \in Messages : place[m] = "nowhere" => m \notin held[c] /\ Len(jobs'[m]) = 0
      BY <2>1, <2>2 DEF Inv, Taken, Handed
    <3>2. \A m \in Messages : Len(jobs[m]) > 0 \/ m \in held[c] => Len(jobs'[m]) > 0
      BY <2>1, <2>2
    <3>3. \A d \in Clients : held'[d] \subseteq held[d] /\ held[d] \subseteq Messages
      BY <1>1 DEF Inv, Taken
    <3>4. \A d \in Clients : d \in added' => d \in added \/ d = c
      BY <1>1
    <3> QED BY <1>1, <3>1, <3>2, <3>3, <3>4 DEF Inv, Handed
  <2>4. \A m \in held[c] : m \in Messages /\ (jobs[m] # <<>> \/ m \in Sqs!Queued)
    BY <1>2, <2>2 DEF Inv, Taken, Handed, Sqs!Queued
  <2>5. Pipeline!Deliver
    <3>1. \A m \in Messages : jobs'[m] # <<>> <=> jobs[m] # <<>> \/ m \in held[c]
      BY <2>1, <2>2
    <3>2. {m \in Messages : jobs[m] # <<>>}' = {m \in Messages : jobs[m] # <<>>} \cup held[c]
      BY <1>2, <3>1
    <3> QED BY <1>3, <2>4, <3>2 DEF Pipeline!Deliver
  <2> QED BY <1>4, <2>1, <2>3, <2>5 DEF Goes, Inv, Pipeline!Next
<1>6. CASE UNCHANGED <<jobs, owned>> /\ added' = added /\ held' = [held EXCEPT ![c] = {}]
  <2>1. JobsStep
    BY <1>6, Unmoved
  <2>2. Handed'
    BY <1>1, <1>6 DEF Inv, Taken, Handed
  <2> QED BY <1>3, <1>4, <2>1, <2>2, Stutters DEF JobsStep, Goes, Inv
<1> QED BY <1>1, <1>5, <1>6

LEMMA DeleteGoes == ASSUME Inv, NEW c \in Clients, Delete(c) PROVE Goes
<1>1. PICK gone \in SUBSET held[c] : Sqs!deleteMessages(c, gone)
  BY DEF Delete
<1>2. /\ c \in added /\ added' = added \ {c} /\ place' = Sqs!At(gone, "deleted") /\ mode' = mode
      /\ held' = [held EXCEPT ![c] = {}] /\ stale' = [stale EXCEPT ![c] = {}]
      /\ UNCHANGED <<jobs, owned>>
  BY <1>1 DEF Delete, Sqs!deleteMessages
<1>3. JobsStep
  BY <1>2, Unmoved
<1>4. \A m \in gone : m \in Messages /\ Len(jobs[m]) > 0 /\ place[m] # "nowhere"
  BY <1>2 DEF Inv, Taken, Handed
<1>5. Taken'
  BY <1>2 DEF Inv, Taken, Sqs!At
<1>6. Handed'
  BY <1>2, <1>4 DEF Inv, Taken, Handed, Sqs!At
<1>7. Sqs!Queued' = Sqs!Queued \ gone
  BY <1>2 DEF Inv, Taken, Sqs!At, Sqs!Queued
<1>8. \A m \in gone : jobs[m] # <<>>
  BY <1>4, Lengths DEF Inv
<1>9. Pipeline!Deliver
  BY <1>2, <1>4, <1>7, <1>8 DEF Pipeline!Deliver
<1> QED BY <1>3, <1>5, <1>6, <1>9 DEF JobsStep, Goes, Inv, Pipeline!Next

LEMMA WorkGoes == ASSUME Inv, NEW id, Work(id) \/ Interfere(id) PROVE Goes
<1>1. JobsStep
  BY Worked DEF Inv
<1>2. UNCHANGED <<mode, place, held, stale, added>>
  BY DEF Work, Interfere
<1>3. Taken' /\ Handed' /\ Sqs!Queued' = Sqs!Queued
  BY <1>1, <1>2 DEF JobsStep, Inv, Taken, Handed, Sqs!Queued
<1> QED BY <1>1, <1>3, Stutters DEF JobsStep, Goes, Inv

LEMMA ExitGoes == ASSUME Inv, Exit PROVE Goes
<1>1. /\ UNCHANGED <<mode, place, jobs>> /\ owned' = {} /\ added' = {}
      /\ held' = [c \in Clients |-> {}] /\ stale' = [c \in Clients |-> {}]
  BY DEF Exit, Sqs!Exit, Mail!Exit
<1>2. JobsStep
  BY <1>1, Unmoved
<1>3. Taken' /\ Handed' /\ Sqs!Queued' = Sqs!Queued
  BY <1>1 DEF Inv, Taken, Handed, Sqs!Queued
<1> QED BY <1>2, <1>3, Stutters DEF JobsStep, Goes, Inv

LEMMA IdleGoes == ASSUME Inv, UNCHANGED vars PROVE Goes
<1>1. JobsStep
  BY Unmoved DEF vars
<1>2. Taken' /\ Handed' /\ Sqs!Queued' = Sqs!Queued
  BY DEF vars, Inv, Taken, Handed, Sqs!Queued
<1> QED BY <1>1, <1>2, Stutters DEF JobsStep, Goes, Inv

LEMMA InitInv == Init => Inv /\ Pipeline!Init
<1> SUFFICES ASSUME Init PROVE Inv /\ Pipeline!Init
  OBVIOUS
<1> USE DEF Init, Sqs!Init, Mail!Init
<1>1. JobsInv
  BY FS_EmptySet, Constants DEF JobsInv, Owned
<1>2. Taken /\ Handed
  BY DEF Taken, Handed
<1>3. Pipeline!Init
  BY DEF Pipeline!Init, Sqs!Queued
<1> QED BY <1>1, <1>2, <1>3 DEF Inv

LEMMA StepGoes == Inv /\ [Next]_vars => Goes
<1> SUFFICES ASSUME Inv, [Next]_vars PROVE Goes
  OBVIOUS
<1>1. CASE \E m \in Messages :
             \/ ValidationFails(m) \/ HandlerThrows(m) \/ HandlerSends(m) \/ AnswerLost(m)
             \/ DelayEnds(m) \/ VisibilityEnds(m)
  BY <1>1, RequestGoes, ClockGoes
<1>2. CASE \E c \in Clients : Receive(c) \/ HandOver(c) \/ Delete(c)
  BY <1>2, ReceiveGoes, HandOverGoes, DeleteGoes
<1>3. CASE \E id \in Ids : Work(id) \/ Interfere(id)
  BY <1>3, WorkGoes
<1>4. CASE Exit
  BY <1>4, ExitGoes
<1>5. CASE UNCHANGED vars
  BY <1>5, IdleGoes
<1> QED BY <1>1, <1>2, <1>3, <1>4, <1>5 DEF Next

LEMMA InvInv == Spec => []Inv
<1>1. Init => Inv
  BY InitInv
<1>2. Inv /\ [Next]_vars => Inv'
  BY StepGoes DEF Goes
<1> QED BY <1>1, <1>2, PTL DEF Spec

\* The worker starts no job more often than it has attempts and excused stalls, whatever
\* the limits are and however often workers stall, exit or jobs are removed.
THEOREM StartsAreBounded == Spec => []StartsBounded
<1>1. Inv => StartsBounded
  <2> SUFFICES ASSUME Inv, NEW id \in Mail!Ids
               PROVE  jobs[id[1]][id[2]].starts <= ATTEMPTS + MAX_STALLED_COUNT
    BY DEF StartsBounded
  <2> QED BY JobType DEF Inv, JobsInv, AccountedJob, Accounted
<1> QED BY <1>1, InvInv, PTL

\* The path of a message through SQS to BullMQ is at-least-once delivery that gives
\* nothing up, for all messages and clients and any number of incidents.
THEOREM AtLeastOnce == Spec => HandsOver
<1>1. Init => Pipeline!Init
  BY InitInv
<1>2. Inv /\ [Next]_vars => [Pipeline!Next]_(Pipeline!vars)
  BY StepGoes DEF Goes
<1> QED BY <1>1, <1>2, InvInv, PTL DEF Spec, HandsOver, Pipeline!Spec

-----------------------------------------------------------------------------
(* Answers *)

ErrorStatus == {400, 401, 403, 404, 500, 503}

LEMMA ErrorsAnswered ==
    /\ \A exception \in Exceptions : catch(exception).status \in ErrorStatus
    /\ catch(SdkError).status = 500
    /\ \A found : catch(getExceptionObj(found)).status = 400
<1>1. \A code \in DOMAIN errorCodeMap : errorCodeMap[code] \in ErrorStatus
  BY DEF errorCodeMap, ErrorStatus
<1>2. \A code \in DOMAIN errorCodeMap : catch(Exception("ApiError", code, {})).status = errorCodeMap[code]
  BY DEF catch, Exception
<1>3. /\ catch(Exception("NotFoundException", "none", {})).status = 404
      /\ catch(Exception("HttpException", "none", {})).status = 500
      /\ catch(SdkError).status = 500
  BY DEF catch, Exception, SdkError
<1>4. \A found : catch(getExceptionObj(found)).status = 400
  BY DEF catch, Exception, getExceptionObj, errorCodeMap
<1> QED BY <1>1, <1>2, <1>3, <1>4 DEF Exceptions, ErrorStatus

Answered == answers = [m \in Messages |-> answers[m]] /\ AnswersAreTrue

LEMMA RequestAnswers ==
    ASSUME Inv, Answered, NEW m \in Messages,
           ValidationFails(m) \/ HandlerThrows(m) \/ HandlerSends(m) \/ AnswerLost(m)
    PROVE  Answered'
<1>1. answers[m] = NoAnswer /\ place[m] = "nowhere" /\ mode' = mode
  BY DEF ValidationFails, HandlerThrows, HandlerSends, AnswerLost, Arrives, Sqs!sendMessage,
     Sqs!SendRejects
<1>2. \A n \in Messages \ {m} : place'[n] = place[n] /\ answers'[n] = answers[n]
  BY DEF Inv, Taken, Answered, ValidationFails, HandlerThrows, HandlerSends, AnswerLost, Respond,
         Sqs!sendMessage, Sqs!SendRejects, Sqs!At
<1>3. answers' = [n \in Messages |-> answers'[n]]
  BY DEF Answered, ValidationFails, HandlerThrows, HandlerSends, AnswerLost, Respond
<1>4. /\ answers'[m] = Accepted /\ mode # "development" => place'[m] # "nowhere"
      /\ answers'[m].status \notin {0, 201, 500} => place'[m] = "nowhere"
  <2>1. ASSUME NEW answer, Respond(m, answer) PROVE answers'[m] = answer
    BY <2>1 DEF Respond, Answered
  <2>2. Accepted.status = 201 /\ NoAnswer.status = 0
    BY DEF Accepted, NoAnswer
  <2>3. CASE ValidationFails(m)
    <3>1. PICK found : answers'[m] = catch(getExceptionObj(found)) /\ place' = place
      BY <2>1, <2>3 DEF ValidationFails
    <3> QED BY <1>1, <2>2, <3>1, ErrorsAnswered
  <2>4. CASE HandlerThrows(m)
    <3>1. PICK exception \in Exceptions : answers'[m] = catch(exception) /\ place' = place
      BY <2>1, <2>4 DEF HandlerThrows
    <3>2. catch(exception).status # 201
      BY <3>1, ErrorsAnswered DEF ErrorStatus
    <3> QED BY <1>1, <2>2, <3>1, <3>2
  <2>5. CASE HandlerSends(m) /\ Sqs!sendMessage(m) /\ Respond(m, Accepted)
    <3>1. answers'[m] = Accepted
      BY <2>1, <2>5
    <3>2. mode # "development" => place'[m] = "delayed"
      BY <2>5 DEF Sqs!sendMessage, Sqs!At
    <3> QED BY <2>2, <3>1, <3>2
  <2>6. CASE HandlerSends(m) /\ Respond(m, catch(SdkError))
    <3>1. answers'[m] = catch(SdkError)
      BY <2>1, <2>6
    <3> QED BY <2>2, <3>1, ErrorsAnswered
  <2>7. CASE AnswerLost(m)
    <3>1. answers'[m] = NoAnswer
      BY <1>1, <2>7 DEF AnswerLost
    <3> QED BY <2>2, <3>1
  <2> QED BY <2>3, <2>4, <2>5, <2>6, <2>7 DEF HandlerSends
<1> QED BY <1>1, <1>2, <1>3, <1>4 DEF Answered, AnswersAreTrue

LEMMA AnswersStay ==
    ASSUME Inv, Answered, UNCHANGED <<mode, answers>>,
           \A m \in Messages : place'[m] = "nowhere" <=> place[m] = "nowhere"
    PROVE  Answered'
BY DEF Answered, AnswersAreTrue

LEMMA AnswersStep == Inv /\ Answered /\ [Next]_vars => Answered'
<1> SUFFICES ASSUME Inv, Answered, [Next]_vars PROVE Answered'
  OBVIOUS
<1>1. ASSUME NEW m \in Messages, DelayEnds(m) \/ VisibilityEnds(m) PROVE Answered'
  <2>1. place[m] \in {"delayed", "hidden"} /\ place' = Sqs!At({m}, "visible") /\ UNCHANGED <<mode, answers>>
    BY <1>1 DEF DelayEnds, VisibilityEnds, Sqs!DelayEnds, Sqs!VisibilityEnds, http
  <2> QED BY <2>1, AnswersStay DEF Sqs!At
<1>2. ASSUME NEW c \in Clients, Receive(c) PROVE Answered'
  <2>1. PICK S \in SUBSET Messages : Sqs!receiveMessages(c, S, TRUE) \/ Sqs!receiveMessages(c, S, FALSE)
    BY <1>2 DEF Receive
  <2>2. /\ \A m \in S : place[m] = "visible"
        /\ place' = Sqs!At(S, "hidden") /\ UNCHANGED <<mode, answers>>
    BY <1>2, <2>1 DEF Receive, Sqs!receiveMessages, http
  <2> QED BY <2>2, AnswersStay DEF Sqs!At
<1>3. ASSUME NEW c \in Clients, HandOver(c) PROVE Answered'
  <2>1. UNCHANGED <<mode, answers, place>>
    BY <1>3 DEF HandOver, AddSucceeds, AddFails, Sqs!Abandon, http
  <2> QED BY <2>1, AnswersStay
<1>4. ASSUME NEW c \in Clients, Delete(c) PROVE Answered'
  <2>1. PICK gone \in SUBSET held[c] : Sqs!deleteMessages(c, gone)
    BY <1>4 DEF Delete
  <2>2. place' = Sqs!At(gone, "deleted") /\ UNCHANGED <<mode, answers>>
    BY <1>4, <2>1 DEF Delete, Sqs!deleteMessages, http
  <2>3. \A m \in gone : place[m] # "nowhere"
    BY DEF Inv, Handed
  <2> QED BY <2>2, <2>3, AnswersStay DEF Sqs!At
<1>5. ASSUME NEW id, Work(id) \/ Interfere(id) PROVE Answered'
  BY <1>5, AnswersStay DEF Work, Interfere, http
<1>6. CASE Exit
  BY <1>6, AnswersStay DEF Exit, Sqs!Exit, http
<1>7. CASE UNCHANGED vars
  BY <1>7, AnswersStay DEF vars
<1> QED BY <1>1, <1>2, <1>3, <1>4, <1>5, <1>6, <1>7, RequestAnswers DEF Next

\* What an answer says of the message holds in every behaviour: 201 only for a message that
\* the queue took, any other answer but 500 only for one that it did not.
THEOREM AnswersTrue == Spec => []AnswersAreTrue
<1>1. Init => Answered
  BY DEF Init, Answered, AnswersAreTrue, NoAnswer, Accepted
<1>2. Inv /\ Answered /\ [Next]_vars => Answered'
  BY AnswersStep
<1>3. Answered => AnswersAreTrue
  BY DEF Answered
<1> QED BY <1>1, <1>2, <1>3, InvInv, PTL DEF Spec

-----------------------------------------------------------------------------
(* Details.  The pipe's recursion and the chains of errors of the property are two ways to
   the same names: HttpErrorsProofs has what each computes. *)

LEMMA ChainsAreChains ==
    ASSUME NEW found, Tree(found), NEW chain
    PROVE  chain \in Chains(found) <=> \E n \in DOMAIN found : IsChain(found, chain, n)
BY DEF Chains, IsChain

LEMMA NamesOfChain ==
    ASSUME NEW found, Tree(found), NEW n \in DOMAIN found, NEW chain, IsChain(found, chain, n)
    PROVE  /\ Len(chain) = n
           /\ [i \in DOMAIN chain |-> found[chain[i]].property] = propertyPath(found)[chain[n]]
           /\ chain[n] \in DOMAIN found
<1>1. n \in Nat \ {0}
  BY DEF Tree
<1>2. DOMAIN chain = 1 .. n /\ Len(chain) = n /\ chain[n] \in DOMAIN found
  BY <1>1 DEF IsChain
<1>3. [i \in 1 .. n |-> found[chain[i]].property] = propertyPath(found)[chain[n]]
  BY <1>1, ChainNames
<1> QED BY <1>2, <1>3

LEMMA DetailsAreNames ==
    ASSUME NEW found, Tree(found)
    PROVE  processValidationErrors(found) = FailuresNamed(found)
<1>1. ASSUME NEW j \in DOMAIN found, found[j].constraints
      PROVE  propertyPath(found)[j] \in FailuresNamed(found)
  <2>1. PICK n \in 1 .. j : \E ch : IsChain(found, ch, n) /\ ch[n] = j
    BY ChainTo
  <2>2. PICK chain : IsChain(found, chain, n) /\ chain[n] = j
    BY <2>1
  <2>3. n \in DOMAIN found
    BY DEF Tree
  <2>4. chain \in Chains(found)
    BY <2>2, <2>3, ChainsAreChains
  <2>5. /\ Len(chain) = n
        /\ [i \in DOMAIN chain |-> found[chain[i]].property] = propertyPath(found)[j]
    BY <2>2, <2>3, NamesOfChain
  <2> QED BY <1>1, <2>2, <2>4, <2>5 DEF FailuresNamed
<1>2. ASSUME NEW chain \in Chains(found), found[chain[Len(chain)]].constraints
      PROVE  [i \in DOMAIN chain |-> found[chain[i]].property] \in processValidationErrors(found)
  <2>1. PICK n \in DOMAIN found : IsChain(found, chain, n)
    BY ChainsAreChains
  <2>2. /\ Len(chain) = n /\ chain[n] \in DOMAIN found
        /\ [i \in DOMAIN chain |-> found[chain[i]].property] = propertyPath(found)[chain[n]]
    BY <2>1, NamesOfChain
  <2> QED BY <1>2, <2>2 DEF processValidationErrors
<1>3. FailuresNamed(found) \subseteq processValidationErrors(found)
  BY <1>2 DEF FailuresNamed
<1>4. processValidationErrors(found) \subseteq FailuresNamed(found)
  BY <1>1 DEF processValidationErrors
<1> QED BY <1>3, <1>4

\* The answer to a request with errors is the one made of them, and no other follows.
Refused ==
    /\ errors = [m \in Messages |-> errors[m]] /\ answers = [m \in Messages |-> answers[m]]
    /\ \A m \in Messages : errors[m] # <<>> =>
          errors[m] \in ValidationErrors /\ answers[m] = catch(getExceptionObj(errors[m]))

LEMMA RefusedStep == Refused /\ [Next]_vars => Refused'
<1> SUFFICES ASSUME Refused, [Next]_vars PROVE Refused'
  OBVIOUS
<1>1. ASSUME NEW m \in Messages, ValidationFails(m) PROVE Refused'
  <2>1. PICK found \in ValidationErrors :
           errors' = [errors EXCEPT ![m] = found] /\ answers' = [answers EXCEPT ![m] = catch(getExceptionObj(found))]
    BY <1>1 DEF ValidationFails, Respond
  <2>2. /\ \A n \in Messages : errors'[n] = IF n = m THEN found ELSE errors[n]
        /\ \A n \in Messages : answers'[n] = IF n = m THEN catch(getExceptionObj(found)) ELSE answers[n]
    BY <2>1 DEF Refused
  <2> QED BY <2>1, <2>2 DEF Refused
\* The other answers are given to requests that had none, in which no errors were found.
<1>2. ASSUME NEW m \in Messages, HandlerThrows(m) \/ HandlerSends(m) PROVE Refused'
  <2>1. answers[m] = NoAnswer /\ errors' = errors
    BY <1>2 DEF HandlerThrows, HandlerSends, Arrives
  <2>2. errors[m] = <<>>
    <3>1. \A found : catch(getExceptionObj(found)).status = 400
      BY ErrorsAnswered
    <3>2. NoAnswer.status = 0
      BY DEF NoAnswer
    <3> QED BY <2>1, <3>1, <3>2 DEF Refused
  <2>3. PICK answer : answers' = [answers EXCEPT ![m] = answer]
    BY <1>2 DEF HandlerThrows, HandlerSends, Respond
  <2> QED BY <2>1, <2>2, <2>3 DEF Refused
<1>3. ASSUME UNCHANGED http PROVE Refused'
  BY <1>3 DEF http, Refused
<1>4. ASSUME NEW m \in Messages, AnswerLost(m) \/ DelayEnds(m) \/ VisibilityEnds(m) PROVE UNCHANGED http
  BY <1>4 DEF AnswerLost, DelayEnds, VisibilityEnds, http
<1>5. ASSUME NEW c \in Clients, Receive(c) \/ HandOver(c) \/ Delete(c) PROVE UNCHANGED http
  BY <1>5 DEF Receive, HandOver, Delete
<1>6. ASSUME NEW id, Work(id) \/ Interfere(id) PROVE UNCHANGED http
  BY <1>6 DEF Work, Interfere
<1>7. CASE Exit \/ UNCHANGED vars
  BY <1>3, <1>7 DEF Exit, vars, http
<1> QED BY <1>1, <1>2, <1>3, <1>4, <1>5, <1>6, <1>7 DEF Next

\* Each failed property of a body is named in the answer once, by the whole way to it, for
\* every tree of errors that class-validator may report.
THEOREM FailuresAreNamed == Spec => []DetailsNameFailures
<1>1. Init => Refused
  BY DEF Init, Refused
<1>2. Refused => DetailsNameFailures
  <2> SUFFICES ASSUME Refused, NEW m \in Messages, errors[m] # <<>>
               PROVE  /\ answers[m].status = 400
                      /\ answers[m].details = FailuresNamed(errors[m])
                      /\ Cardinality(answers[m].details)
                            = Cardinality({i \in DOMAIN errors[m] : errors[m][i].constraints})
    BY DEF DetailsNameFailures
  <2>1. Tree(errors[m])
    BY ErrorsAreTrees, Constants DEF Refused
  <2>2. answers[m] = catch(getExceptionObj(errors[m]))
    BY DEF Refused
  <2>3. answers[m].status = 400 /\ answers[m].details = processValidationErrors(errors[m])
    BY <2>2 DEF catch, getExceptionObj, Exception, errorCodeMap
  <2> QED BY <2>1, <2>3, DetailsAreNames, DetailsCounted
<1> QED BY <1>1, <1>2, RefusedStep, PTL DEF Spec

-----------------------------------------------------------------------------
(* Duplicates.  A message has a claim to a further job as long as somebody holds it who has
   not handed it over, or the queue may give it to somebody for no incident. *)

Holders(m) == {c \in Clients \ added : m \in held[c]}
Fresh(m) == \E c \in Clients : m \in held[c] \ stale[c]
Free(m) ==
    IF place[m] \in {"nowhere", "delayed", "visible"} \/ (place[m] = "hidden" /\ ~Fresh(m)) THEN 1 ELSE 0
Claims(m) == Len(jobs[m]) + Cardinality(Holders(m)) + Free(m)
ClaimsInv == incidents \in Nat /\ \A m \in Messages : Claims(m) <= 1 + incidents

LEMMA Counted ==
    ASSUME Inv, NEW m \in Messages
    PROVE  /\ IsFiniteSet(Holders(m)) /\ Cardinality(Holders(m)) \in Nat
           /\ Free(m) \in {0, 1} /\ Len(jobs[m]) \in Nat
<1>1. Holders(m) \subseteq Clients
  BY DEF Holders
<1>2. IsFiniteSet(Holders(m)) /\ Cardinality(Holders(m)) \in Nat
  BY <1>1, ClientsAssumption, FS_Subset, FS_CardinalityType
<1> QED BY <1>2, Lengths DEF Inv, Free

\* What may happen to the claims to a message: a client takes the queue's, a holder's
\* becomes a job, or an incident makes up for one more.
Trade(a, b, c, x, y, z, incident) ==
    \/ x = a /\ y <= b /\ (z = c \/ c = 1)
    \/ x = a /\ y <= b + 1 /\ c = 1 /\ z = 0
    \/ x <= a + 1 /\ y = b - 1 /\ z = c
    \/ incident /\ ((x = a /\ y <= b) \/ (x <= a + 1 /\ y = b - 1))

LEMMA Balance ==
    ASSUME Inv, ClaimsInv, Inv', NEW m \in Messages, incidents' \in {incidents, incidents + 1},
           Trade(Len(jobs[m]), Cardinality(Holders(m)), Free(m),
                 Len(jobs'[m]), Cardinality(Holders(m)'), Free(m)', incidents' = incidents + 1)
    PROVE  Claims(m)' <= 1 + incidents'
<1> DEFINE a == Len(jobs[m])
           b == Cardinality(Holders(m))
           c == Free(m)
           x == Len(jobs'[m])
           y == Cardinality(Holders(m)')
           z == Free(m)'
           i == incidents
           j == incidents'
<1>1. a \in Nat /\ b \in Nat /\ c \in {0, 1}
  BY Counted
<1>2. x \in Nat /\ y \in Nat /\ z \in {0, 1}
  <2>1. IsFiniteSet(Holders(m)') /\ Cardinality(Holders(m)') \in Nat
    <3>1. Holders(m)' \subseteq Clients
      BY DEF Holders
    <3> QED BY <3>1, ClientsAssumption, FS_Subset, FS_CardinalityType
  <2>2. jobs'[m] \in Seq(AccountedJob)
    BY DEF Inv, JobsInv
  <2> QED BY <2>1, <2>2, LenProperties DEF Free
<1>3. Claims(m) <= 1 + incidents /\ i \in Nat /\ j \in {i, i + 1}
  BY DEF ClaimsInv
<1>4. a + b + c <= 1 + i
  BY <1>3 DEF Claims
<1>5. x + y + z <= 1 + j
  <2>1. Trade(a, b, c, x, y, z, j = i + 1)
    OBVIOUS
  <2> HIDE DEF a, b, c, x, y, z, i, j
  <2> QED BY <1>1, <1>2, <1>3, <1>4, <2>1 DEF Trade
<1>6. Claims(m)' = x + y + z
  BY DEF Claims
<1> QED BY <1>5, <1>6

\* A step in which nothing is handed over and nobody receives the message.
LEMMA NoClaim ==
    ASSUME Inv, ClaimsInv, Inv', NEW m \in Messages, incidents' \in {incidents, incidents + 1},
           Len(jobs'[m]) = Len(jobs[m]), Holders(m)' = Holders(m),
           Free(m)' = Free(m) \/ Free(m) = 1 \/ incidents' = incidents + 1
    PROVE  Claims(m)' <= 1 + incidents'
<1>1. Cardinality(Holders(m)') = Cardinality(Holders(m)) /\ Cardinality(Holders(m)) \in Nat
  BY Counted
<1>2. Cardinality(Holders(m)') <= Cardinality(Holders(m))
  BY <1>1
<1>3. Trade(Len(jobs[m]), Cardinality(Holders(m)), Free(m),
            Len(jobs'[m]), Cardinality(Holders(m)'), Free(m)', incidents' = incidents + 1)
  BY <1>2 DEF Trade
<1> QED BY <1>3, Balance

LEMMA ClaimsKept ==
    ASSUME Inv, ClaimsInv, incidents' \in {incidents, incidents + 1},
           \A m \in Messages : Claims(m)' <= 1 + incidents'
    PROVE  ClaimsInv'
BY DEF ClaimsInv

\* Neither a request nor the clock touches the jobs and who holds what.
LEMMA MovedClaims ==
    ASSUME Inv, ClaimsInv, Inv', incidents' \in {incidents, incidents + 1}, NEW n \in Messages,
           UNCHANGED <<held, stale, jobs, added>>,
           \A m \in Messages \ {n} : place'[m] = place[m],
           place'[n] = place[n] \/ Free(n) = 1 \/ incidents' = incidents + 1
    PROVE  ClaimsInv'
<1> SUFFICES ASSUME NEW m \in Messages PROVE Claims(m)' <= 1 + incidents'
  BY ClaimsKept
<1>1. Holders(m)' = Holders(m) /\ Fresh(m)' = Fresh(m) /\ Len(jobs'[m]) = Len(jobs[m])
  BY DEF Holders, Fresh
<1>2. CASE place'[m] = place[m]
  <2>1. Free(m)' = Free(m)
    BY <1>1, <1>2 DEF Free
  <2> QED BY <1>1, <2>1, NoClaim
<1>3. CASE place'[m] # place[m]
  <2>1. Free(m) = 1 \/ incidents' = incidents + 1
    BY <1>3
  <2> QED BY <1>1, <2>1, NoClaim
<1> QED BY <1>2, <1>3

LEMMA RequestClaims ==
    ASSUME Inv, ClaimsInv, Inv', NEW n \in Messages,
           ValidationFails(n) \/ HandlerThrows(n) \/ HandlerSends(n) \/ AnswerLost(n)
    PROVE  ClaimsInv'
<1>1. /\ place[n] = "nowhere" /\ UNCHANGED <<held, stale, jobs, added>>
      /\ place' = place \/ place' = Sqs!At({n}, "delayed")
      /\ incidents' \in {incidents, incidents + 1}
  BY DEF ValidationFails, HandlerThrows, HandlerSends, AnswerLost, Arrives, Respond, Incident,
         Sqs!sendMessage, Sqs!SendRejects
<1>2. Free(n) = 1
  BY <1>1 DEF Free
<1>3. \A m \in Messages \ {n} : place'[m] = place[m]
  BY <1>1 DEF Sqs!At
<1> QED BY <1>1, <1>2, <1>3, MovedClaims

LEMMA ClockClaims ==
    ASSUME Inv, ClaimsInv, Inv', NEW n \in Messages, DelayEnds(n) \/ VisibilityEnds(n)
    PROVE  ClaimsInv'
<1>1. /\ place' = Sqs!At({n}, "visible") /\ UNCHANGED <<held, stale, jobs, added>>
      /\ incidents' \in {incidents, incidents + 1}
  BY DEF DelayEnds, VisibilityEnds, Sqs!DelayEnds, Sqs!VisibilityEnds, Incident
<1>2. Free(n) = 1 \/ incidents' = incidents + 1
  <2>1. CASE DelayEnds(n)
    BY <2>1 DEF DelayEnds, Sqs!DelayEnds, Free
  <2>2. CASE VisibilityEnds(n) /\ \E c \in Clients : n \in held[c]
    BY <2>2 DEF VisibilityEnds, Incident
  <2>3. CASE VisibilityEnds(n) /\ ~\E c \in Clients : n \in held[c]
    BY <2>3 DEF VisibilityEnds, Sqs!VisibilityEnds, Free, Fresh
  <2> QED BY <2>1, <2>2, <2>3
<1>3. \A m \in Messages \ {n} : place'[m] = place[m]
  BY <1>1 DEF Sqs!At
<1> QED BY <1>1, <1>2, <1>3, MovedClaims

\* Who receives a message takes the claim of the queue, as nobody else holds a receipt that
\* counts.
LEMMA ReceiveClaims ==
    ASSUME Inv, ClaimsInv, Inv', NEW c \in Clients, Receive(c)
    PROVE  ClaimsInv'
<1>1. PICK S \in SUBSET Messages :
          \/ Sqs!receiveMessages(c, S, TRUE) /\ incidents' = incidents
          \/ Sqs!receiveMessages(c, S, FALSE) /\ incidents' = incidents + 1
  BY DEF Receive, Incident
<1>2. /\ \A m \in S : place[m] = "visible"
      /\ held[c] = {} /\ place' = Sqs!At(S, "hidden")
      /\ stale' = [d \in Clients |-> IF d = c THEN {} ELSE stale[d] \cup (held[d] \cap S)]
      /\ UNCHANGED <<jobs, added>> /\ incidents' \in {incidents, incidents + 1}
      /\ \/ held' = [held EXCEPT ![c] = S]
         \/ held' = [held EXCEPT ![c] = {}] /\ incidents' = incidents + 1
  BY <1>1 DEF Receive, Sqs!receiveMessages
<1>3. c \notin added
  BY <1>2 DEF Inv, Taken
<1> SUFFICES ASSUME NEW m \in Messages PROVE Claims(m)' <= 1 + incidents'
  BY <1>2, ClaimsKept
<1>4. CASE m \in S /\ held' = [held EXCEPT ![c] = S]
  <2>1. Holders(m)' = Holders(m) \cup {c} /\ c \notin Holders(m)
    BY <1>2, <1>3, <1>4 DEF Holders, Inv, Taken
  <2>2. Cardinality(Holders(m)') = Cardinality(Holders(m)) + 1
    BY <2>1, Counted, FS_AddElement
  <2>3. Free(m) = 1
    BY <1>2, <1>4 DEF Free
  <2>4. Fresh(m)' /\ place'[m] = "hidden"
    BY <1>2, <1>4 DEF Fresh, Sqs!At, Inv, Taken
  <2>5. Free(m)' = 0
    BY <2>4 DEF Free
  <2>6. Cardinality(Holders(m)') <= Cardinality(Holders(m)) + 1
    BY <2>2, Counted
  <2>7. Trade(Len(jobs[m]), Cardinality(Holders(m)), Free(m),
              Len(jobs'[m]), Cardinality(Holders(m)'), Free(m)', incidents' = incidents + 1)
    BY <1>2, <2>3, <2>5, <2>6 DEF Trade
  <2> QED BY <1>2, <2>7, Balance
<1>5. CASE m \notin S
  <2>1. Holders(m)' = Holders(m)
    BY <1>2, <1>5 DEF Holders, Inv, Taken
  <2>2. Fresh(m)' = Fresh(m) /\ place'[m] = place[m]
    BY <1>2, <1>5 DEF Fresh, Sqs!At, Inv, Taken
  <2>3. Free(m)' = Free(m)
    BY <2>2 DEF Free
  <2> QED BY <1>2, <2>1, <2>3, NoClaim
<1>6. CASE held' = [held EXCEPT ![c] = {}] /\ incidents' = incidents + 1
  <2>1. Holders(m)' = Holders(m)
    BY <1>2, <1>6 DEF Holders, Inv, Taken
  <2> QED BY <1>2, <1>6, <2>1, NoClaim
<1> QED BY <1>2, <1>4, <1>5, <1>6

\* A holder that hands over gives its claim for a job; what it may leave in the queue
\* when that fails, the incident makes up for.
LEMMA HandOverClaims ==
    ASSUME Inv, ClaimsInv, Inv', NEW c \in Clients, HandOver(c)
    PROVE  ClaimsInv'
<1>1. /\ c \notin added /\ held[c] \in SUBSET Messages /\ place' = place
      /\ Mail!addBulkJobs(held[c]) \/ UNCHANGED <<jobs, owned>>
      /\ \/ /\ UNCHANGED <<held, stale, incidents>> /\ added' = added \cup {c}
            /\ Mail!addBulkJobs(held[c])
         \/ /\ held' = [held EXCEPT ![c] = {}] /\ stale' = [stale EXCEPT ![c] = {}]
            /\ added' = added /\ incidents' = incidents + 1
  BY DEF HandOver, AddSucceeds, AddFails, Sqs!Abandon, Incident, Inv, Taken
<1> SUFFICES ASSUME NEW m \in Messages PROVE Claims(m)' <= 1 + incidents'
  BY <1>1, ClaimsKept
<1>2. /\ Len(jobs[m]) \in Nat
      /\ Len(jobs'[m]) = Len(jobs[m]) \/ (m \in held[c] /\ Len(jobs'[m]) = Len(jobs[m]) + 1)
      /\ Len(jobs'[m]) <= Len(jobs[m]) + 1
  <2>1. Len(jobs[m]) \in Nat
    BY Counted
  <2>2. CASE Mail!addBulkJobs(held[c])
    <3>1. Len(jobs'[m]) = IF m \in held[c] THEN Len(jobs[m]) + 1 ELSE Len(jobs[m])
      BY <1>1, <2>2, Added DEF Inv
    <3> QED BY <2>1, <3>1
  <2>3. CASE UNCHANGED <<jobs, owned>>
    BY <2>1, <2>3
  <2> QED BY <1>1, <2>2, <2>3
<1>3. CASE m \in held[c]
  <2>1. Holders(m)' = Holders(m) \ {c} /\ c \in Holders(m)
    BY <1>1, <1>3 DEF Holders, Inv, Taken
  <2>2. Cardinality(Holders(m)') = Cardinality(Holders(m)) - 1
    BY <2>1, Counted, FS_RemoveElement
  <2>3. Free(m)' = Free(m) \/ incidents' = incidents + 1
    BY <1>1 DEF Free, Fresh
  <2>4. Trade(Len(jobs[m]), Cardinality(Holders(m)), Free(m),
              Len(jobs'[m]), Cardinality(Holders(m)'), Free(m)', incidents' = incidents + 1)
    BY <1>2, <2>2, <2>3 DEF Trade
  <2> QED BY <1>1, <2>4, Balance
<1>4. CASE m \notin held[c]
  <2>1. Holders(m)' = Holders(m)
    BY <1>1, <1>4 DEF Holders, Inv, Taken
  <2>2. Free(m)' = Free(m)
    BY <1>1, <1>4 DEF Free, Fresh, Inv, Taken
  <2> QED BY <1>1, <1>2, <1>4, <2>1, <2>2, NoClaim
<1> QED BY <1>3, <1>4

\* A client that deletes has no claim any more; a message it should have removed and did
\* not is an incident.
LEMMA DeleteClaims ==
    ASSUME Inv, ClaimsInv, Inv', NEW c \in Clients, Delete(c)
    PROVE  ClaimsInv'
<1>1. PICK gone \in SUBSET held[c] :
          /\ Sqs!deleteMessages(c, gone)
          /\ incidents' = incidents \/ incidents' = incidents + 1
          /\ Sqs!Deletable(c) \subseteq gone \/ incidents' = incidents + 1
  BY DEF Delete, Incident
<1>2. /\ c \in added /\ added' = added \ {c} /\ place' = Sqs!At(gone, "deleted") /\ jobs' = jobs
      /\ held' = [held EXCEPT ![c] = {}] /\ stale' = [stale EXCEPT ![c] = {}]
  BY <1>1 DEF Delete, Sqs!deleteMessages
<1> SUFFICES ASSUME NEW m \in Messages PROVE Claims(m)' <= 1 + incidents'
  BY <1>1, ClaimsKept
<1>3. Holders(m)' = Holders(m)
  BY <1>2 DEF Holders, Inv, Taken
<1>4. Free(m)' = Free(m) \/ Free(m)' = 0 \/ incidents' = incidents + 1
  <2>1. CASE m \in gone
    BY <1>2, <2>1 DEF Free, Sqs!At
  <2>2. CASE m \notin gone /\ m \notin held[c] \ stale[c]
    <3>1. Fresh(m)' = Fresh(m)
      BY <1>2, <2>2 DEF Fresh, Inv, Taken
    <3>2. place'[m] = place[m]
      BY <1>2, <2>2 DEF Sqs!At
    <3> QED BY <3>1, <3>2 DEF Free
  <2>3. CASE m \notin gone /\ m \in held[c] \ stale[c]
    BY <1>1, <2>3 DEF Sqs!Deletable
  <2> QED BY <2>1, <2>2, <2>3
<1>5. CASE Free(m)' = 0
  <2>1. Free(m) = 1 \/ Free(m)' = Free(m)
    BY <1>5, Counted
  <2> QED BY <1>1, <1>2, <1>3, <2>1, NoClaim
<1> QED BY <1>1, <1>2, <1>3, <1>4, <1>5, NoClaim

LEMMA WorkClaims ==
    ASSUME Inv, ClaimsInv, Inv', NEW id, Work(id) \/ Interfere(id)
    PROVE  ClaimsInv'
<1>1. UNCHANGED <<place, held, stale, added>> /\ incidents' \in {incidents, incidents + 1}
  BY DEF Work, Interfere, Incident
<1>2. \A m \in Messages : Len(jobs'[m]) = Len(jobs[m])
  BY Worked DEF JobsStep, Inv
<1>3. \A m \in Messages : Holders(m)' = Holders(m) /\ Free(m)' = Free(m)
  BY <1>1 DEF Holders, Free, Fresh
<1> QED BY <1>1, <1>2, <1>3, NoClaim, ClaimsKept

\* An exit takes every holder's claim and is the incident for what comes back.
LEMMA ExitClaims == ASSUME Inv, ClaimsInv, Inv', Exit PROVE ClaimsInv'
<1>1. held' = [c \in Clients |-> {}] /\ jobs' = jobs /\ incidents' = incidents + 1
  BY DEF Exit, Sqs!Exit, Mail!Exit, Incident
<1> SUFFICES ASSUME NEW m \in Messages PROVE Claims(m)' <= 1 + incidents'
  BY <1>1, ClaimsKept
<1>2. Holders(m)' = {}
  BY <1>1 DEF Holders
<1>3. Cardinality(Holders(m)') = 0 /\ Cardinality(Holders(m)) \in Nat
  BY <1>2, Counted, FS_EmptySet
<1>4. Cardinality(Holders(m)') <= Cardinality(Holders(m))
  BY <1>3
<1>5. Trade(Len(jobs[m]), Cardinality(Holders(m)), Free(m),
            Len(jobs'[m]), Cardinality(Holders(m)'), Free(m)', incidents' = incidents + 1)
  BY <1>1, <1>4 DEF Trade
<1> QED BY <1>1, <1>5, Balance

LEMMA ClaimsStep == Inv /\ ClaimsInv /\ [Next]_vars => ClaimsInv'
<1> SUFFICES ASSUME Inv, ClaimsInv, [Next]_vars PROVE ClaimsInv'
  OBVIOUS
<1>1. Inv'
  BY StepGoes DEF Goes
<1>2. CASE \E m \in Messages :
             \/ ValidationFails(m) \/ HandlerThrows(m) \/ HandlerSends(m) \/ AnswerLost(m)
             \/ DelayEnds(m) \/ VisibilityEnds(m)
  BY <1>1, <1>2, RequestClaims, ClockClaims
<1>3. CASE \E c \in Clients : Receive(c) \/ HandOver(c) \/ Delete(c)
  BY <1>1, <1>3, ReceiveClaims, HandOverClaims, DeleteClaims
<1>4. CASE \E id \in Ids : Work(id) \/ Interfere(id)
  BY <1>1, <1>4, WorkClaims
<1>5. CASE Exit
  BY <1>1, <1>5, ExitClaims
<1>6. CASE UNCHANGED vars
  BY <1>6 DEF vars, ClaimsInv, Claims, Holders, Free, Fresh
<1> QED BY <1>2, <1>3, <1>4, <1>5, <1>6 DEF Next

LEMMA InitClaims == Init => ClaimsInv
<1> SUFFICES ASSUME Init, NEW m \in Messages PROVE incidents = 0 /\ Claims(m) = 1
  BY DEF Init, ClaimsInv
<1>1. Len(jobs[m]) = 0 /\ place[m] = "nowhere" /\ held = [c \in Clients |-> {}] /\ incidents = 0
  BY DEF Init, Sqs!Init, Mail!Init
<1>2. Holders(m) = {}
  BY <1>1 DEF Holders
<1>3. Cardinality(Holders(m)) = 0
  BY <1>2, FS_EmptySet
<1>4. Free(m) = 1
  BY <1>1 DEF Free
<1> QED BY <1>1, <1>3, <1>4 DEF Claims

\* However clients poll, delay, fail and exit, a message becomes at most one job and one more
\* for each incident: receipts that overlap or go stale make none of their own.
THEOREM DuplicatesBounded == Spec => []DuplicatesAreIncidents
<1>1. Inv /\ ClaimsInv => DuplicatesAreIncidents
  <2> SUFFICES ASSUME Inv, ClaimsInv, NEW m \in Messages PROVE Len(jobs[m]) <= 1 + incidents
    BY DEF DuplicatesAreIncidents
  <2> DEFINE a == Len(jobs[m])
             b == Cardinality(Holders(m))
             c == Free(m)
  <2>1. a \in Nat /\ b \in Nat /\ c \in Nat /\ a + b + c <= 1 + incidents /\ incidents \in Nat
    BY Counted DEF ClaimsInv, Claims
  <2>2. a <= 1 + incidents
    <3> HIDE DEF a, b, c
    <3> QED BY <2>1
  <2> QED BY <2>2
<1> QED BY <1>1, InitClaims, ClaimsStep, InvInv, PTL DEF Spec

-----------------------------------------------------------------------------
(* Types *)

Typed ==
    /\ \A c \in Clients : stale[c] \subseteq held[c]
    /\ errors = [m \in Messages |-> errors[m]] /\ \A m \in Messages : Len(errors[m]) <= MaxNodes
    /\ answers = [m \in Messages |-> answers[m]]
    /\ \A m \in Messages : answers[m] \in {NoAnswer, Accepted} \/ answers[m].status \in 400 .. 599
    /\ incidents \in 0 .. MaxIncidents

LEMMA ErrorsLength == \A found \in ValidationErrors : Len(found) <= MaxNodes
BY ErrorsAreTrees, Constants

LEMMA RequestTyped ==
    ASSUME Inv, Typed, NEW m \in Messages,
           ValidationFails(m) \/ HandlerThrows(m) \/ HandlerSends(m) \/ AnswerLost(m)
    PROVE  Typed'
<1>1. /\ UNCHANGED <<held, stale>> /\ incidents' \in 0 .. MaxIncidents
      /\ \/ errors' = errors
         \/ \E found \in ValidationErrors : errors' = [errors EXCEPT ![m] = found]
  BY Constants DEF Typed, ValidationFails, HandlerThrows, HandlerSends, AnswerLost, Sqs!sendMessage,
     Sqs!SendRejects,
         Respond, Incident
<1>2. \/ answers' = answers
      \/ \E answer : /\ answers' = [answers EXCEPT ![m] = answer]
                     /\ answer \in {NoAnswer, Accepted} \/ answer.status \in ErrorStatus
  <2>1. CASE ValidationFails(m)
    <3>1. PICK found : answers' = [answers EXCEPT ![m] = catch(getExceptionObj(found))]
      BY <2>1 DEF ValidationFails, Respond
    <3>2. catch(getExceptionObj(found)).status \in ErrorStatus
      BY ErrorsAnswered DEF ErrorStatus
    <3> QED BY <3>1, <3>2
  <2>2. CASE HandlerThrows(m)
    <3>1. PICK exception \in Exceptions : answers' = [answers EXCEPT ![m] = catch(exception)]
      BY <2>2 DEF HandlerThrows, Respond
    <3>2. catch(exception).status \in ErrorStatus
      BY <3>1, ErrorsAnswered
    <3> QED BY <3>1, <3>2
  <2>3. CASE HandlerSends(m)
    BY <2>3, ErrorsAnswered DEF HandlerSends, Respond, ErrorStatus
  <2>4. CASE AnswerLost(m)
    BY <2>4 DEF AnswerLost
  <2> QED BY <2>1, <2>2, <2>3, <2>4
<1>3. ErrorStatus \subseteq 400 .. 599
  BY DEF ErrorStatus
<1>4. answers' = [n \in Messages |-> answers'[n]]
  BY <1>2 DEF Typed
<1>5. \A n \in Messages : answers'[n] \in {NoAnswer, Accepted} \/ answers'[n].status \in 400 .. 599
  <2>1. CASE answers' = answers
    BY <2>1 DEF Typed
  <2>2. ASSUME NEW answer, answers' = [answers EXCEPT ![m] = answer],
               answer \in {NoAnswer, Accepted} \/ answer.status \in ErrorStatus,
               NEW n \in Messages
        PROVE  answers'[n] \in {NoAnswer, Accepted} \/ answers'[n].status \in 400 .. 599
    <3>1. answers'[n] = IF n = m THEN answer ELSE answers[n]
      BY <2>2 DEF Typed
    <3>2. CASE n = m
      <4>1. answers'[n] = answer
        BY <3>1, <3>2
      <4>2. \A status : status \in ErrorStatus => status \in 400 .. 599
        BY <1>3
      <4>3. answer \in {NoAnswer, Accepted} \/ answer.status \in 400 .. 599
        BY <2>2, <4>2, ZenonT(60)
      <4> QED BY <4>1, <4>3, ZenonT(60)
    <3>3. CASE n # m
      <4>1. answers'[n] = answers[n]
        BY <3>1, <3>3
      <4> QED BY <4>1 DEF Typed
    <3> QED BY <3>2, <3>3
  <2> QED BY <1>2, <2>1, <2>2
<1>6. /\ errors' = [n \in Messages |-> errors'[n]]
      /\ \A n \in Messages : Len(errors'[n]) <= MaxNodes
  BY <1>1, ErrorsLength DEF Typed
<1> QED BY <1>1, <1>4, <1>5, <1>6 DEF Typed

LEMMA OthersTyped ==
    ASSUME Inv, Typed, UNCHANGED <<errors, answers>>, incidents' = incidents \/ Incident,
           \A c \in Clients : stale'[c] \subseteq held'[c]
    PROVE  Typed'
<1>1. incidents' \in 0 .. MaxIncidents
  BY Constants DEF Typed, Incident
<1> QED BY <1>1 DEF Typed

LEMMA TypedStep == Inv /\ Typed /\ [Next]_vars => Typed'
<1> SUFFICES ASSUME Inv, Typed, [Next]_vars PROVE Typed'
  OBVIOUS
<1>1. ASSUME NEW m \in Messages, DelayEnds(m) \/ VisibilityEnds(m) PROVE Typed'
  <2>1. UNCHANGED <<held, stale, errors, answers>> /\ (incidents' = incidents \/ Incident)
    BY <1>1 DEF DelayEnds, VisibilityEnds, Sqs!DelayEnds, Sqs!VisibilityEnds, http
  <2> QED BY <2>1, OthersTyped DEF Typed
<1>2. ASSUME NEW c \in Clients, Receive(c) PROVE Typed'
  <2>1. PICK S \in SUBSET Messages : Sqs!receiveMessages(c, S, TRUE) \/ Sqs!receiveMessages(c, S, FALSE)
    BY <1>2 DEF Receive
  <2>2. /\ UNCHANGED <<errors, answers>> /\ (incidents' = incidents \/ Incident)
        /\ stale' = [d \in Clients |-> IF d = c THEN {} ELSE stale[d] \cup (held[d] \cap S)]
        /\ \A d \in Clients : d # c => held'[d] = held[d]
    BY <1>2, <2>1 DEF Receive, Sqs!receiveMessages, http, Inv, Taken
  <2>3. \A d \in Clients : stale'[d] \subseteq held'[d]
    BY <2>2 DEF Typed
  <2> QED BY <2>2, <2>3, OthersTyped
<1>3. ASSUME NEW c \in Clients, HandOver(c) \/ Delete(c) PROVE Typed'
  <2>1. /\ UNCHANGED <<errors, answers>> /\ (incidents' = incidents \/ Incident)
        /\ \/ UNCHANGED <<held, stale>>
           \/ held' = [held EXCEPT ![c] = {}] /\ stale' = [stale EXCEPT ![c] = {}]
    BY <1>3 DEF HandOver, Delete, AddSucceeds, AddFails, Sqs!Abandon, Sqs!deleteMessages, http
  <2>2. \A d \in Clients : stale'[d] \subseteq held'[d]
    BY <2>1 DEF Typed, Inv, Taken
  <2> QED BY <2>1, <2>2, OthersTyped
<1>4. ASSUME NEW id, Work(id) \/ Interfere(id) PROVE Typed'
  <2>1. UNCHANGED <<held, stale, errors, answers>> /\ (incidents' = incidents \/ Incident)
    BY <1>4 DEF Work, Interfere, http
  <2> QED BY <2>1, OthersTyped DEF Typed
<1>5. CASE Exit
  <2>1. /\ UNCHANGED <<errors, answers>> /\ Incident
        /\ \A d \in Clients : stale'[d] \subseteq held'[d]
    BY <1>5 DEF Exit, Sqs!Exit, http
  <2> QED BY <2>1, OthersTyped
<1>6. CASE UNCHANGED vars
  BY <1>6 DEF vars, Typed
<1> QED BY <1>1, <1>2, <1>3, <1>4, <1>5, <1>6, RequestTyped DEF Next

\* Every variable stays in its domain, and the worker never runs more jobs than its
\* concurrency allows nor one that is not active.
THEOREM TypeCorrect == Spec => []TypeOK
<1>1. Init => Typed
  <2> SUFFICES ASSUME Init PROVE Typed
    OBVIOUS
  <2>1. \A m \in Messages : errors[m] = <<>> /\ Len(errors[m]) = 0
    BY DEF Init
  <2> QED BY <2>1, Constants DEF Init, Sqs!Init, Typed
<1>2. Inv /\ Typed => TypeOK
  <2> SUFFICES ASSUME Inv, Typed PROVE TypeOK
    OBVIOUS
  <2>1. Sqs!TypeOK
    BY DEF Sqs!TypeOK, Inv, Taken, Typed
  <2>2. jobs \in [Messages -> Seq(Mail!Job)]
    <3>1. ASSUME NEW m \in Messages PROVE jobs[m] \in Seq(Mail!Job)
      <4>1. jobs[m] \in Seq(AccountedJob) /\ AccountedJob \subseteq Mail!Job
        BY DEF Inv, JobsInv, AccountedJob
      <4> QED BY <4>1
    <3> QED BY <3>1 DEF Inv, JobsInv
  <2>3. \A S : Mail!Cardinality(S) = Cardinality(S)
    BY DEF Mail!Cardinality, Cardinality
  <2>4. Mail!TypeOK
    BY <2>2, <2>3 DEF Mail!TypeOK, Mail!State, Inv, JobsInv, Owned
  <2> QED BY <2>1, <2>4 DEF TypeOK, Inv, Taken, Typed
<1>3. Inv /\ Typed /\ [Next]_vars => Typed'
  BY TypedStep
<1> QED BY <1>1, <1>2, <1>3, InvInv, PTL DEF Spec
=============================================================================
