------------------------------ MODULE EvalRuns ------------------------------
(***************************************************************************)
(* An eval run: the row and its job written together                       *)
(* (apps/api/src/evals/start-run.ts), the worker that answers the run's    *)
(* cases one by one (apps/api/src/jobs/eval-run.ts), and the repair after  *)
(* the last retry.  Every measured case costs money, so `paid`, a ghost,   *)
(* counts how often a case of a run was measured.                          *)
(***************************************************************************)
EXTENDS Naturals, Sequences, FiniteSets, SequencesExt

CONSTANTS
    Runs,             \* the run ids the database gives out
    Cases,            \* AUTO_REPLY_CASES of the build that enqueues
    Requests,         \* the lists of case ids a run may be asked to answer
    ByHand,           \* bound: those of them that are asked for outside a plan
    Droppable,        \* bound: the cases a deploy may drop
    Handlers,         \* activations of the run worker
    JobIds,           \* job slots of its queue
    RetryLimit,       \* RETRY_LIMIT of boss.ts
    MaxFailures,      \* bound: database calls that throw
    MaxCrashes,       \* bound: handlers killed midway
    MaxRepairCrashes, \* bound: dead-letter repairs killed midway
    MaxStalls,        \* bound: live handlers whose job expires
    MaxRenames,       \* bound: cases a deploy drops from the set
    MaxMishaps        \* bound: all of these together

ASSUME EvalRunsAssumption ==
    /\ "none" \notin Runs \cup JobIds \cup Cases
    /\ RetryLimit \in Nat
    /\ IsFiniteSet(Cases) /\ IsFiniteSet(Handlers)
    /\ Requests \subseteq Seq(Cases)
    /\ ByHand \subseteq Requests
    /\ Droppable \subseteq Cases
    /\ {MaxFailures, MaxCrashes, MaxRepairCrashes, MaxStalls, MaxRenames} \subseteq Nat

VARIABLES
    run,      \* each EvalRun: its status, the ids asked, its total of matches
    results,  \* EvalCaseResult: what each case of each run did
    paid,     \* ghost: how often each case of each run was measured
    known,    \* the cases the deployed build still names
    task,     \* what each handler activation is doing
    mishaps,  \* how much of each bound has been used
    jobs, held

queueVars == <<jobs, held>>
runVars == <<run, results, paid, known, task, mishaps, jobs, held>>

Queue == INSTANCE JobQueue WITH Items <- Runs

EVAL_RUN_STATUS == {"running", "completed", "failed"}

NoRun == [status |-> "absent", caseIds |-> <<>>, matches |-> 0]

(* `todo` has the positions, in the list of case ids, of the cases the     *)
(* loop has still to come to, and `at` the one it is measuring.            *)
Task ==
    [step : {"idle", "read", "list", "cases", "measure", "store", "sum",
             "close", "empty", "repair"},
     run : Runs \cup {"none"},
     todo : SUBSET Nat,
     at : Nat,
     done : SUBSET Cases,
     verdict : {"none", "match", "miss"},
     total : 0..Cardinality(Cases)]

Idle == [step |-> "idle", run |-> "none", todo |-> {}, at |-> 0, done |-> {},
         verdict |-> "none", total |-> 0]

Mishaps == [failures : 0..MaxFailures, crashes : 0..MaxCrashes,
            repairs : 0..MaxRepairCrashes, stalls : 0..MaxStalls,
            renames : 0..MaxRenames]

RunsTypeOK ==
    /\ run \in [Runs -> [status : EVAL_RUN_STATUS \cup {"absent"},
                         caseIds : Requests \cup {<<>>},
                         matches : 0..Cardinality(Cases)]]
    /\ results \in [Runs -> [Cases -> {"none", "match", "miss"}]]
    /\ paid \in [Runs -> [Cases -> Nat]]
    /\ known \in SUBSET Cases
    /\ task \in [Handlers -> Task]
    /\ mishaps \in Mishaps
    /\ Queue!QueueTypeOK

RunsInit ==
    /\ run = [r \in Runs |-> NoRun]
    /\ results = [r \in Runs |-> [c \in Cases |-> "none"]]
    /\ paid = [r \in Runs |-> [c \in Cases |-> 0]]
    /\ known = Cases
    /\ task = [w \in Handlers |-> Idle]
    /\ mishaps = [failures |-> 0, crashes |-> 0, repairs |-> 0, stalls |-> 0,
                  renames |-> 0]
    /\ Queue!QueueInit

Answered(r) == {c \in Cases : results[r][c] # "none"}
Matches(r)  == Cardinality({c \in Cases : results[r][c] = "match"})

(* A misfortune, within its own bound and the bound on all of them.       *)
Happens(what, max) ==
    /\ mishaps[what] < max
    /\ mishaps.failures + mishaps.crashes + mishaps.repairs + mishaps.stalls
          + mishaps.renames < MaxMishaps
    /\ mishaps' = [mishaps EXCEPT ![what] = @ + 1]

-----------------------------------------------------------------------------
(* startEvalRun: the row and the job in one transaction.                   *)
StartEvalRun(r, caseIds) ==
    /\ run[r].status = "absent"
    /\ run' = [run EXCEPT ![r] = [status |-> "running", caseIds |-> caseIds,
                                  matches |-> 0]]
    /\ Queue!Send(r)
    /\ UNCHANGED <<results, paid, known, task, mishaps, held>>

(* The worker.                                                             *)
Return(w) == Queue!Complete(w) /\ task' = [task EXCEPT ![w] = Idle]
Throw(w)  == Queue!Fail(w) /\ task' = [task EXCEPT ![w] = Idle]
Goto(w, step) == task' = [task EXCEPT ![w].step = step] /\ UNCHANGED queueVars

(* `updateMany({ where: { id, finishedAt: null } })`.                      *)
Settle(r, status, matches) ==
    run' = IF run[r].status = "running"
           THEN [run EXCEPT ![r].status = status, ![r].matches = matches]
           ELSE run

Start(w, j) ==
    /\ task[w].step = "idle"
    /\ Queue!Fetch(w, j)
    /\ task' = [task EXCEPT ![w] = [Idle EXCEPT !.step = "read", !.run = jobs[j].item]]
    /\ UNCHANGED <<run, results, paid, known, mishaps>>

(* Is the run still open, and which of its cases does this build name?     *)
Read(w) ==
    LET r == task[w].run
        ids == run[r].caseIds
        cases == {i \in DOMAIN ids : ids[i] \in known} IN
    /\ task[w].step = "read"
    /\ \/ run[r].status # "running" /\ Return(w)
       \/ run[r].status = "running" /\ cases = {} /\ Goto(w, "empty")
       \/ /\ run[r].status = "running" /\ cases # {}
          /\ task' = [task EXCEPT ![w].step = "list", ![w].todo = cases]
          /\ UNCHANGED queueVars
    /\ UNCHANGED <<run, results, paid, known, mishaps>>

SettleEmpty(w) ==
    /\ task[w].step = "empty"
    /\ Settle(task[w].run, "failed", 0)
    /\ Return(w)
    /\ UNCHANGED <<results, paid, known, mishaps>>

(* What an earlier delivery has paid for, read once.                       *)
List(w) ==
    /\ task[w].step = "list"
    /\ task' = [task EXCEPT ![w].step = "cases",
                            ![w].done = Answered(task[w].run)]
    /\ UNCHANGED <<run, results, paid, known, mishaps, queueVars>>

(* The loop's head: skip what was done, measure the next, or sum up.       *)
NextCase(w) ==
    LET ids == run[task[w].run].caseIds
        todo == task[w].todo IN
    /\ task[w].step = "cases"
    /\ \/ todo = {} /\ Goto(w, "sum")
       \/ \E i \in todo :
             /\ \A k \in todo : i <= k
             /\ task' = [task EXCEPT ![w] =
                           IF ids[i] \in task[w].done
                           THEN [@ EXCEPT !.todo = todo \ {i}]
                           ELSE [@ EXCEPT !.step = "measure", !.at = i]]
             /\ UNCHANGED queueVars
    /\ UNCHANGED <<run, results, paid, known, mishaps>>

(* The case a handler is busy with.                                        *)
CaseOf(w) == run[task[w].run].caseIds[task[w].at]

(* The model calls.  They are paid for whatever becomes of their answer.   *)
Measure(w) ==
    LET r == task[w].run
        c == CaseOf(w) IN
    /\ task[w].step = "measure"
    /\ paid' = [paid EXCEPT ![r][c] = @ + 1]
    /\ \E v \in {"match", "miss"} :
          task' = [task EXCEPT ![w].step = "store", ![w].verdict = v]
    /\ UNCHANGED <<run, results, known, mishaps, queueVars>>

(* Mutant: the last result wins.                                           *)
StoreOver(w) ==
    LET r == task[w].run
        c == CaseOf(w) IN
    /\ task[w].step = "store"
    /\ results' = [results EXCEPT ![r][c] = task[w].verdict]
    /\ task' = [task EXCEPT ![w].step = "cases", ![w].todo = @ \ {task[w].at},
                            ![w].at = 0, ![w].verdict = "none"]
    /\ UNCHANGED <<run, paid, known, mishaps, queueVars>>

(* The insert, or the unique index on (run, case) refusing it: a second    *)
(* delivery was faster, or the request names the case twice.               *)
Store(w) ==
    LET r == task[w].run
        c == CaseOf(w) IN
    /\ task[w].step = "store"
    /\ \/ /\ results[r][c] = "none"
          /\ results' = [results EXCEPT ![r][c] = task[w].verdict]
          /\ task' = [task EXCEPT ![w].step = "cases", ![w].todo = @ \ {task[w].at},
                                  ![w].at = 0, ![w].verdict = "none"]
          /\ UNCHANGED queueVars
       \/ /\ results[r][c] # "none"
          /\ Throw(w)
          /\ UNCHANGED results
    /\ UNCHANGED <<run, paid, known, mishaps>>

(* The totals, read back from the rows, and the close.                     *)
Sum(w) ==
    /\ task[w].step = "sum"
    /\ task' = [task EXCEPT ![w].step = "close", ![w].total = Matches(task[w].run)]
    /\ UNCHANGED <<run, results, paid, known, mishaps, queueVars>>

Close(w) ==
    /\ task[w].step = "close"
    /\ Settle(task[w].run, "completed", task[w].total)
    /\ Return(w)
    /\ UNCHANGED <<results, paid, known, mishaps>>

(* The dead-letter side.                                                   *)
StartRepair(w, j) ==
    /\ task[w].step = "idle"
    /\ Queue!FetchDead(w, j)
    /\ task' = [task EXCEPT ![w] = [Idle EXCEPT !.step = "repair", !.run = jobs[j].item]]
    /\ UNCHANGED <<run, results, paid, known, mishaps>>

(* Mutant: the repair is left to the log line and the alert.               *)
RepairByAlert(w) ==
    /\ task[w].step = "repair"
    /\ Return(w)
    /\ UNCHANGED <<run, results, paid, known, mishaps>>

Repair(w) ==
    /\ task[w].step = "repair"
    /\ Settle(task[w].run, "failed", 0)
    /\ Return(w)
    /\ UNCHANGED <<results, paid, known, mishaps>>

-----------------------------------------------------------------------------
(* What goes wrong: a database call throws, the process is killed, a job   *)
(* outlives its forty minutes, a deploy renames a case.                    *)
Breaks(w) ==
    /\ task[w].step \notin {"idle", "repair"}
    /\ Happens("failures", MaxFailures)
    /\ Throw(w)
    /\ UNCHANGED <<run, results, paid, known>>

Crash(w) ==
    /\ \/ task[w].step \notin {"idle", "repair"} /\ Happens("crashes", MaxCrashes)
       \/ task[w].step = "repair" /\ Happens("repairs", MaxRepairCrashes)
    /\ Queue!Abandon(w)
    /\ task' = [task EXCEPT ![w] = Idle]
    /\ UNCHANGED <<run, results, paid, known>>

ExpireOrphan(j) ==
    /\ ~Queue!HasHandler(j)
    /\ Queue!Expire(j)
    /\ UNCHANGED <<run, results, paid, known, task, mishaps>>

ExpireStalled(j) ==
    /\ Queue!HasHandler(j)
    /\ Happens("stalls", MaxStalls)
    /\ Queue!Expire(j)
    /\ UNCHANGED <<run, results, paid, known, task>>

Rename(c) ==
    /\ c \in known \cap Droppable
    /\ Happens("renames", MaxRenames)
    /\ known' = known \ {c}
    /\ UNCHANGED <<run, results, paid, task, queueVars>>

-----------------------------------------------------------------------------
HandlerStep(w) ==
    \/ Read(w) \/ SettleEmpty(w) \/ List(w) \/ NextCase(w) \/ Measure(w)
    \/ Store(w) \/ Sum(w) \/ Close(w) \/ Repair(w)

RunsNext ==
    \/ \E w \in Handlers : HandlerStep(w) \/ Breaks(w) \/ Crash(w)
    \/ \E w \in Handlers, j \in JobIds : Start(w, j) \/ StartRepair(w, j)
    \/ \E j \in JobIds : ExpireOrphan(j) \/ ExpireStalled(j)
    \/ \E c \in Cases : Rename(c)

(* An admin pressing Run, or the nightly sweep.                            *)
Asked == \E r \in Runs, q \in ByHand : StartEvalRun(r, q)

RunsSpec == RunsInit /\ [][RunsNext \/ Asked]_runVars

(* A running process goes on, a worker polls, pg-boss expires the job of a *)
(* dead handler.  Nobody has to press Run.                                 *)
Fairness ==
    /\ \A w \in Handlers : WF_runVars(HandlerStep(w))
    /\ \A j \in JobIds : /\ WF_runVars(\E w \in Handlers : Start(w, j))
                         /\ WF_runVars(\E w \in Handlers : StartRepair(w, j))
                         /\ WF_runVars(ExpireOrphan(j))

FairRunsSpec == RunsSpec /\ Fairness

-----------------------------------------------------------------------------
(* Properties.                                                             *)

(* A completed run answered every case it was asked for that the build     *)
(* still names, and its total is the sum of its rows: neither a resumed    *)
(* delivery, nor two at once, nor a late one leaves a run whose headline   *)
(* number says something else than its cases.  One corner is open: a       *)
(* stalled worker of the build before a deploy that dropped a case can     *)
(* still store that case after its successor has summed up.                *)
CompletedIsWhole ==
    \A r \in Runs :
       run[r].status = "completed" =>
          /\ ToSet(run[r].caseIds) \cap known \subseteq Answered(r)
          /\ \/ run[r].matches = Matches(r)
             \/ mishaps.stalls > 0 /\ mishaps.renames > 0

(* A run waiting for its answer has a job coming, unless a dead-letter     *)
(* repair was killed: that job is not retried.                             *)
OpenRunHasJob ==
    \A r \in Runs :
       run[r].status = "running" =>
          \/ Queue!Coming(r)
          \/ \E w \in Handlers : task[w].run = r
          \/ mishaps.repairs > 0

(* A case is measured once per mention in the request, and again only for  *)
(* a misfortune in between: a killed or stalled worker, a failed write.    *)
Mentions(r, c) == Cardinality({i \in DOMAIN run[r].caseIds : run[r].caseIds[i] = c})

PaysOncePerMishap ==
    \A r \in Runs, c \in Cases :
       paid[r][c] <= Mentions(r, c) + mishaps.crashes + mishaps.stalls
                     + mishaps.failures

(* A run does not read "running" for good.                                 *)
RunIsClosed ==
    \A r \in Runs :
       run[r].status = "running" ~> (run[r].status # "running" \/ mishaps.repairs > 0)
=============================================================================
