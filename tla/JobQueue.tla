------------------------------ MODULE JobQueue ------------------------------
(***************************************************************************)
(* One live queue of apps/api/src/jobs/boss.ts and its dead-letter twin,   *)
(* as `registerWorker` sets them up on pg-boss, which is external.          *)
(*                                                                         *)
(* pg-boss delivers at least once.  A job is fetched by a handler; the     *)
(* handler returns (the job is completed) or throws (the job is retried).  *)
(* A job that stays active for longer than `expireInSeconds` is taken to   *)
(* belong to a dead worker and is retried as well, whether its handler is  *)
(* still running or not; from then on nothing that handler reports counts. *)
(* A job out of retries moves to the dead-letter queue, which takes no     *)
(* retries of its own: if its repair fails the job is simply gone.         *)
(***************************************************************************)
EXTENDS Naturals

CONSTANTS
    Items,       \* what a job is about: its payload
    JobIds,      \* slots for jobs that exist at the same time (a bound)
    Handlers,    \* handler activations that can run at the same time
    RetryLimit   \* RETRY_LIMIT of boss.ts

VARIABLES
    jobs,   \* the queue's rows
    held    \* the job a handler will report on, or "none"

JobStates == {"free", "created", "active", "dead", "mending"}

Job == [state : JobStates, item : Items \cup {"none"}, tries : 0..RetryLimit]

NoJob == [state |-> "free", item |-> "none", tries |-> 0]

QueueTypeOK ==
    /\ jobs \in [JobIds -> Job]
    /\ held \in [Handlers -> JobIds \cup {"none"}]

QueueInit ==
    /\ jobs = [j \in JobIds |-> NoJob]
    /\ held = [w \in Handlers |-> "none"]

(* A failed or expired attempt: the next rung of the ladder, or the        *)
(* dead-letter queue after the last one.                                   *)
NextAttempt(job) ==
    IF job.tries < RetryLimit
    THEN [state |-> "created", item |-> job.item, tries |-> job.tries + 1]
    ELSE [state |-> "dead", item |-> job.item, tries |-> 0]

(* A repair that fails or expires is not tried again (`retryLimit: 0`).    *)
AfterFailure(job) ==
    IF job.state = "active" THEN NextAttempt(job) ELSE NoJob

Send(x) ==
    \E j \in JobIds :
        /\ jobs[j].state = "free"
        /\ jobs' = [jobs EXCEPT ![j] = [state |-> "created", item |-> x, tries |-> 0]]

(* A worker of the live queue takes the job, or the one of the dead-letter *)
(* queue does.                                                             *)
Fetch(w, j) ==
    /\ held[w] = "none"
    /\ jobs[j].state = "created"
    /\ jobs' = [jobs EXCEPT ![j].state = "active"]
    /\ held' = [held EXCEPT ![w] = j]

FetchDead(w, j) ==
    /\ held[w] = "none"
    /\ jobs[j].state = "dead"
    /\ jobs' = [jobs EXCEPT ![j].state = "mending"]
    /\ held' = [held EXCEPT ![w] = j]

(* The handler returned.  Ignored when its job has expired meanwhile.      *)
Complete(w) ==
    /\ jobs' = IF held[w] = "none" THEN jobs
               ELSE [jobs EXCEPT ![held[w]] = NoJob]
    /\ held' = [held EXCEPT ![w] = "none"]

(* The handler threw.                                                      *)
Fail(w) ==
    /\ jobs' = IF held[w] = "none" THEN jobs
               ELSE [jobs EXCEPT ![held[w]] = AfterFailure(jobs[held[w]])]
    /\ held' = [held EXCEPT ![w] = "none"]

(* The handler's process died: the job stays active until it expires.      *)
Abandon(w) ==
    /\ held' = [held EXCEPT ![w] = "none"]
    /\ UNCHANGED jobs

Expire(j) ==
    /\ jobs[j].state \in {"active", "mending"}
    /\ jobs' = [jobs EXCEPT ![j] = AfterFailure(jobs[j])]
    /\ held' = [w \in Handlers |-> IF held[w] = j THEN "none" ELSE held[w]]

(* `cancel`: the live job about x is forgotten, and what a handler that    *)
(* already has it reports counts for nothing.  A job that has moved to the *)
(* dead-letter queue is another job.                                       *)
Cancel(x) ==
    LET gone == {j \in JobIds : jobs[j].item = x
                                /\ jobs[j].state \in {"created", "active"}} IN
    /\ jobs' = [j \in JobIds |-> IF j \in gone THEN NoJob ELSE jobs[j]]
    /\ held' = [w \in Handlers |-> IF held[w] \in gone THEN "none" ELSE held[w]]

HasHandler(j) == \E w \in Handlers : held[w] = j

(* A job about x that some handler will still be given.                    *)
Coming(x) ==
    \E j \in JobIds : jobs[j].item = x /\ jobs[j].state # "free"
=============================================================================
