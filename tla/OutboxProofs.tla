---------------------------- MODULE OutboxProofs ----------------------------
(***************************************************************************)
(* Proofs about Outbox, for any emails, any handlers and job slots, any    *)
(* retry limit and whatever the bounds on what goes wrong.                 *)
(***************************************************************************)
EXTENDS Outbox, FiniteSetTheorems, TLAPS

-----------------------------------------------------------------------------
(* Types.  The queue's operations keep its own.                            *)

QueueOK ==
    /\ Queue!QueueTypeOK
    /\ \A j \in JobIds : jobs[j].state # "free" => jobs[j].item \in Emails

LEMMA NoneIsNoJob == "none" \notin JobIds
  BY OutboxAssumption

(* What is left of a job whose attempt failed: it waits for the next one   *)
(* with the same payload, or it is gone.                                   *)
LEMMA FailedJob ==
  ASSUME NEW job \in Queue!Job, job.state # "free" => job.item \in Emails
  PROVE  LET next == Queue!AfterFailure(job) IN
         /\ next \in Queue!Job
         /\ next.state # "free" =>
               /\ job.state = "active"
               /\ next.state \in {"created", "dead"}
               /\ next.item = job.item
               /\ next.item \in Emails
         /\ job.state = "active" => next.state # "free"
  <1>1. CASE job.state = "active" /\ job.tries < RetryLimit
    BY <1>1, OutboxAssumption
    DEF Queue!AfterFailure, Queue!NextAttempt, Queue!Job, Queue!JobStates
  <1>2. CASE job.state = "active" /\ ~(job.tries < RetryLimit)
    BY <1>2, OutboxAssumption
    DEF Queue!AfterFailure, Queue!NextAttempt, Queue!Job, Queue!JobStates
  <1>3. CASE job.state # "active"
    BY <1>3, OutboxAssumption
    DEF Queue!AfterFailure, Queue!NoJob, Queue!Job, Queue!JobStates
  <1>4. QED
    BY <1>1, <1>2, <1>3

LEMMA SendType ==
  ASSUME QueueOK, NEW e \in Emails, Queue!Send(e), UNCHANGED held
  PROVE  QueueOK'
  BY OutboxAssumption
  DEF QueueOK, Queue!QueueTypeOK, Queue!Send, Queue!Job, Queue!JobStates

LEMMA FetchType ==
  ASSUME QueueOK, NEW w \in Handlers, NEW j \in JobIds,
         Queue!Fetch(w, j) \/ Queue!FetchDead(w, j)
  PROVE  QueueOK' /\ jobs[j].item \in Emails
  BY DEF QueueOK, Queue!QueueTypeOK, Queue!Fetch, Queue!FetchDead, Queue!Job,
         Queue!JobStates

(* What a handler's report does to the queue: the job it holds, if it      *)
(* still does, is gone, or as FailedJob says, or left as it is.            *)
LEMMA ReportEffect ==
  ASSUME QueueOK, NEW w \in Handlers,
         Queue!Complete(w) \/ Queue!Fail(w) \/ Queue!Abandon(w)
  PROVE  /\ held' = [held EXCEPT ![w] = "none"]
         /\ \A j \in JobIds : j # held[w] => jobs'[j] = jobs[j]
         /\ Queue!Complete(w) /\ held[w] # "none" => jobs'[held[w]] = Queue!NoJob
         /\ Queue!Fail(w) /\ held[w] # "none" =>
               jobs'[held[w]] = Queue!AfterFailure(jobs[held[w]])
         /\ Queue!Abandon(w) => jobs' = jobs
  BY DEF QueueOK, Queue!QueueTypeOK, Queue!Complete, Queue!Fail, Queue!Abandon

LEMMA ReportType ==
  ASSUME QueueOK, NEW w \in Handlers,
         Queue!Complete(w) \/ Queue!Fail(w) \/ Queue!Abandon(w)
  PROVE  QueueOK'
  <1>1. held' \in [Handlers -> JobIds \cup {"none"}]
    BY DEF QueueOK, Queue!QueueTypeOK, Queue!Complete, Queue!Fail,
           Queue!Abandon
  <1>2. CASE held[w] = "none" \/ Queue!Abandon(w)
    BY <1>1, <1>2 DEF QueueOK, Queue!QueueTypeOK, Queue!Complete, Queue!Fail,
                      Queue!Abandon
  <1>3. CASE held[w] # "none" /\ Queue!Complete(w)
    BY <1>1, <1>3, OutboxAssumption
    DEF QueueOK, Queue!QueueTypeOK, Queue!Complete, Queue!NoJob, Queue!Job,
        Queue!JobStates
  <1>4. CASE held[w] # "none" /\ Queue!Fail(w)
    <2>1. held[w] \in JobIds /\ jobs[held[w]] \in Queue!Job
      BY <1>4 DEF QueueOK, Queue!QueueTypeOK
    <2>2. /\ Queue!AfterFailure(jobs[held[w]]) \in Queue!Job
          /\ Queue!AfterFailure(jobs[held[w]]).state # "free" =>
                Queue!AfterFailure(jobs[held[w]]).item \in Emails
      BY <2>1, FailedJob DEF QueueOK
    <2>3. QED
      BY <1>1, <1>4, <2>1, <2>2 DEF QueueOK, Queue!QueueTypeOK, Queue!Fail
  <1>5. QED
    BY <1>2, <1>3, <1>4

LEMMA ExpireType ==
  ASSUME QueueOK, NEW j \in JobIds, Queue!Expire(j)
  PROVE  QueueOK'
  <1>1. jobs[j] \in Queue!Job /\ jobs[j].item \in Emails
    BY DEF QueueOK, Queue!QueueTypeOK, Queue!Expire
  <1>2. /\ Queue!AfterFailure(jobs[j]) \in Queue!Job
        /\ Queue!AfterFailure(jobs[j]).state # "free" =>
              Queue!AfterFailure(jobs[j]).item \in Emails
    BY <1>1, FailedJob
  <1>3. QED
    BY <1>2 DEF QueueOK, Queue!QueueTypeOK, Queue!Expire

-----------------------------------------------------------------------------
(* The other variables, typed.                                             *)

WorkOK ==
    /\ work \in [Handlers -> Work]
    /\ \A w \in Handlers : work[w].step # "idle" => work[w].email \in Emails

RowsOK ==
    /\ status \in [Emails -> OUTBOUND_EMAIL_STATUS \cup {"absent", "gone"}]
    /\ copies \in [Emails -> Nat]

WorldOK ==
    /\ expired \in SUBSET Emails /\ doomed \in SUBSET Emails
    /\ configured \in BOOLEAN
    /\ spent \in Budget

LEMMA TypeParts == TypeOK <=> RowsOK /\ WorkOK /\ WorldOK /\ QueueOK
  BY DEF TypeOK, RowsOK, WorkOK, WorldOK, QueueOK

LEMMA WorkMoves ==
  ASSUME WorkOK, NEW w \in Handlers, NEW x \in Work,
         x.step # "idle" => x.email \in Emails,
         work' = [work EXCEPT ![w] = x]
  PROVE  WorkOK'
  BY DEF WorkOK

LEMMA IdleType ==
  ASSUME WorkOK, NEW w \in Handlers, work' = [work EXCEPT ![w] = Idle]
  PROVE  WorkOK'
  <1>1. Idle \in Work /\ Idle.step = "idle"
    BY DEF Work, Idle
  <1>2. QED
    BY <1>1, WorkMoves

LEMMA GotoType ==
  ASSUME WorkOK, NEW w \in Handlers, work[w].step # "idle",
         NEW step \in {"noProvider", "deliver"}, Goto(w, step)
  PROVE  WorkOK'
  BY DEF WorkOK, Work, Goto

LEMMA OutcomeType ==
  ASSUME WorkOK, NEW w \in Handlers, work[w].step # "idle",
         NEW result \in MAIL_OUTCOME, Outcome(w, result)
  PROVE  WorkOK'
  BY DEF WorkOK, Work, Outcome

LEMMA SpendType ==
  ASSUME spent \in Budget,
         NEW what \in {"retries", "crashes", "repairs", "stalls", "timeouts"},
         Spend(what)
  PROVE  spent' \in Budget
  BY DEF Budget, Spend

LEMMA SettleAsType ==
  ASSUME RowsOK, NEW e \in Emails, NEW s \in OUTBOUND_EMAIL_STATUS,
         SettleAs(e, s), UNCHANGED copies
  PROVE  RowsOK'
  BY DEF RowsOK, SettleAs

-----------------------------------------------------------------------------
(* Type correctness, by groups of actions.                                 *)

LEMMA HandlerStepType ==
  ASSUME TypeOK, NEW w \in Handlers, HandlerStep(w)
  PROVE  TypeOK'
  <1>1. RowsOK /\ WorkOK /\ WorldOK /\ QueueOK
    BY TypeParts
  <1>2. SUFFICES RowsOK' /\ WorkOK' /\ WorldOK' /\ QueueOK'
    BY DEF TypeOK, RowsOK, WorkOK, WorldOK, QueueOK
  <1>3. work[w].step # "idle" => work[w].email \in Emails
    BY <1>1 DEF WorkOK
  <1>4. UNCHANGED queueVars => QueueOK'
    BY <1>1 DEF queueVars, QueueOK, Queue!QueueTypeOK
  <1>5. CASE Read(w)
    <2>1. RowsOK' /\ WorldOK'
      BY <1>1, <1>5 DEF Read, RowsOK, WorldOK, pruneVars
    <2>2. WorkOK' /\ QueueOK'
      BY <1>1, <1>4, <1>5, IdleType, GotoType, ReportType DEF Read, Return
    <2>3. QED
      BY <2>1, <2>2
  <1>6. CASE NoProvider(w)
    BY <1>1, <1>3, <1>6, SettleAsType, IdleType, ReportType
    DEF NoProvider, Return, WorldOK, pruneVars, OUTBOUND_EMAIL_STATUS
  <1>7. CASE Deliver(w)
    <2>1. RowsOK'
      BY <1>1, <1>3, <1>7 DEF Deliver, RowsOK
    <2>2. WorldOK'
      BY <1>1, <1>7, SpendType DEF Deliver, WorldOK, pruneVars
    <2>3. WorkOK'
      BY <1>1, <1>7, OutcomeType, IdleType DEF Deliver, Throw, MAIL_OUTCOME
    <2>4. QueueOK'
      BY <1>1, <1>4, <1>7, ReportType DEF Deliver, Throw
    <2>5. QED
      BY <2>1, <2>2, <2>3, <2>4
  <1>8. CASE Settle(w)
    <2>1. RowsOK'
      BY <1>1, <1>3, <1>8, SettleAsType DEF Settle, RowsOK, OUTBOUND_EMAIL_STATUS
    <2>2. QED
      BY <1>1, <1>8, <2>1, IdleType, ReportType
      DEF Settle, Return, Throw, WorldOK, pruneVars
  <1>9. CASE Repair(w)
    BY <1>1, <1>3, <1>9, SettleAsType, IdleType, ReportType
    DEF Repair, Return, WorldOK, pruneVars, OUTBOUND_EMAIL_STATUS
  <1>10. QED
    BY <1>5, <1>6, <1>7, <1>8, <1>9 DEF HandlerStep

LEMMA StartType ==
  ASSUME TypeOK, NEW w \in Handlers, NEW j \in JobIds,
         Start(w, j) \/ StartRepair(w, j)
  PROVE  TypeOK'
  <1>1. RowsOK /\ WorkOK /\ WorldOK /\ QueueOK
    BY TypeParts
  <1>2. QueueOK' /\ jobs[j].item \in Emails
    BY <1>1, FetchType DEF Start, StartRepair
  <1>3. WorkOK'
    BY <1>1, <1>2, WorkMoves DEF Start, StartRepair, Work
  <1>4. QED
    BY <1>1, <1>2, <1>3
    DEF Start, StartRepair, TypeOK, RowsOK, WorkOK, WorldOK, QueueOK, pruneVars

LEMMA TroubleType ==
  ASSUME TypeOK,
         \/ \E w \in Handlers : Crash(w)
         \/ \E j \in JobIds : ExpireOrphan(j) \/ ExpireStalled(j)
  PROVE  TypeOK'
  <1>1. RowsOK /\ WorkOK /\ WorldOK /\ QueueOK
    BY TypeParts
  <1>2. CASE \E w \in Handlers : Crash(w)
    <2>1. PICK w \in Handlers : Crash(w)
      BY <1>2
    <2>2. WorkOK' /\ QueueOK' /\ spent' \in Budget
      BY <1>1, <2>1, IdleType, ReportType, SpendType DEF Crash, WorldOK
    <2>3. QED
      BY <1>1, <2>1, <2>2
      DEF Crash, TypeOK, RowsOK, WorkOK, WorldOK, QueueOK, pruneVars
  <1>3. CASE \E j \in JobIds : ExpireOrphan(j) \/ ExpireStalled(j)
    <2>1. PICK j \in JobIds : ExpireOrphan(j) \/ ExpireStalled(j)
      BY <1>3
    <2>2. QueueOK' /\ spent' \in Budget
      BY <1>1, <2>1, ExpireType, SpendType DEF ExpireOrphan, ExpireStalled, WorldOK
    <2>3. QED
      BY <1>1, <2>1, <2>2
      DEF ExpireOrphan, ExpireStalled, TypeOK, RowsOK, WorkOK, WorldOK, QueueOK,
          pruneVars
  <1>4. QED
    BY <1>2, <1>3

LEMMA EmailStepType ==
  ASSUME TypeOK, NEW e \in Emails, EmailStep(e)
  PROVE  TypeOK'
  <1>1. RowsOK /\ WorkOK /\ WorldOK /\ QueueOK
    BY TypeParts
  <1>2. SUFFICES RowsOK' /\ WorkOK' /\ WorldOK' /\ QueueOK'
    BY DEF TypeOK, RowsOK, WorkOK, WorldOK, QueueOK
  <1>3. RowsOK' /\ WorkOK'
    BY <1>1 DEF EmailStep, EnqueueEmail, WithholdEmail, Retry, Ages, TicketGoes,
                RowsOK, WorkOK, OUTBOUND_EMAIL_STATUS
  <1>4. WorldOK'
    BY <1>1, SpendType
    DEF EmailStep, EnqueueEmail, WithholdEmail, Retry, Ages, TicketGoes, WorldOK,
        pruneVars
  <1>5. UNCHANGED queueVars => QueueOK'
    BY <1>1 DEF queueVars, QueueOK, Queue!QueueTypeOK
  <1>6. QueueOK'
    BY <1>1, <1>5, SendType
    DEF EmailStep, EnqueueEmail, WithholdEmail, Retry, Ages, TicketGoes
  <1>7. QED
    BY <1>3, <1>4, <1>6

LEMMA SweepType ==
  ASSUME TypeOK, PruneSelects \/ PruneDeletes \/ SwitchProvider \/ UNCHANGED vars
  PROVE  TypeOK'
  <1>1. RowsOK /\ WorkOK /\ WorldOK /\ QueueOK
    BY TypeParts
  <1>2. RowsOK' /\ WorkOK' /\ WorldOK'
    BY <1>1 DEF PruneSelects, PruneDeletes, SwitchProvider, RowsOK, WorkOK,
                WorldOK, vars, pruneVars, queueVars
  <1>3. QueueOK'
    BY <1>1 DEF PruneSelects, PruneDeletes, SwitchProvider, QueueOK,
                Queue!QueueTypeOK, vars, queueVars
  <1>4. QED
    BY <1>2, <1>3 DEF TypeOK, RowsOK, WorkOK, WorldOK, QueueOK

LEMMA StepType == TypeOK /\ [Next]_vars => TypeOK'
  BY HandlerStepType, StartType, TroubleType, EmailStepType, SweepType
  DEF Next, QueueStep

LEMMA InitType == Init => TypeOK
  BY OutboxAssumption
  DEF Init, TypeOK, Budget, Idle, Work, Queue!QueueInit, Queue!QueueTypeOK,
      Queue!NoJob, Queue!Job, Queue!JobStates

(* Every reachable state is well typed.                                    *)
THEOREM TypeCorrect == Spec => []TypeOK
  BY InitType, StepType, PTL DEF Spec

-----------------------------------------------------------------------------
(* Handlers and the jobs they hold.                                        *)

(* A handler that still holds a job works on what the job is about, and    *)
(* nobody else holds it.                                                   *)
Holding ==
    \A w \in Handlers :
       held[w] # "none" =>
          /\ work[w].step # "idle"
          /\ jobs[held[w]].item = work[w].email
          /\ jobs[held[w]].state =
                (IF work[w].step = "repair" THEN "mending" ELSE "active")
          /\ \A v \in Handlers : held[v] = held[w] => v = w

(* What a step does to handlers and jobs is one of five things, or nothing:*)
(* a handler reports or dies, it takes a job, it goes on with its own, a   *)
(* job expires, a job is added.                                            *)
Ends(w) ==
    /\ work' = [work EXCEPT ![w] = Idle]
    /\ Queue!Complete(w) \/ Queue!Fail(w) \/ Queue!Abandon(w)

Takes(w, j) == Start(w, j) \/ StartRepair(w, j)

MovesOn(w, x) ==
    /\ work[w].step \notin {"idle", "repair"}
    /\ x.step \notin {"idle", "repair"}
    /\ x.email = work[w].email
    /\ work' = [work EXCEPT ![w] = x]
    /\ UNCHANGED queueVars

Expires(j) == Queue!Expire(j) /\ UNCHANGED work

Adds(e) == EnqueueEmail(e) \/ Retry(e)

LEMMA GotoMoves ==
  ASSUME WorkOK, NEW w \in Handlers, work[w].step \notin {"idle", "repair"},
         NEW step \in {"noProvider", "deliver"}, Goto(w, step), UNCHANGED queueVars
  PROVE  MovesOn(w, [work[w] EXCEPT !.step = step])
  BY DEF MovesOn, WorkOK, Work, Goto

LEMMA OutcomeMoves ==
  ASSUME WorkOK, NEW w \in Handlers, work[w].step \notin {"idle", "repair"},
         NEW result \in MAIL_OUTCOME, Outcome(w, result), UNCHANGED queueVars
  PROVE  MovesOn(w, [work[w] EXCEPT !.step = "settle", !.result = result])
  BY DEF MovesOn, WorkOK, Work, Outcome

LEMMA HandlerStepKind ==
  ASSUME TypeOK, NEW w \in Handlers, HandlerStep(w)
  PROVE  Ends(w) \/ \E x : MovesOn(w, x)
  <1>1. WorkOK
    BY TypeParts
  <1>2. CASE Read(w)
    <2>1. CASE Return(w)
      BY <2>1 DEF Return, Ends
    <2>2. CASE Goto(w, IF configured THEN "deliver" ELSE "noProvider")
               /\ UNCHANGED queueVars
      BY <1>1, <1>2, <2>2, GotoMoves DEF Read
    <2>3. QED
      BY <1>2, <2>1, <2>2 DEF Read
  <1>3. CASE NoProvider(w) \/ Settle(w) \/ Repair(w)
    BY <1>3 DEF NoProvider, Settle, Repair, Return, Throw, Ends
  <1>4. CASE Deliver(w)
    <2>1. CASE Throw(w)
      BY <2>1 DEF Throw, Ends
    <2>2. CASE UNCHANGED queueVars /\ \E result \in MAIL_OUTCOME : Outcome(w, result)
      BY <1>1, <1>4, <2>2, OutcomeMoves DEF Deliver
    <2>3. QED
      BY <1>4, <2>1, <2>2 DEF Deliver, MAIL_OUTCOME
  <1>5. QED
    BY <1>2, <1>3, <1>4 DEF HandlerStep

LEMMA StepKind ==
  ASSUME TypeOK, Next
  PROVE  \/ \E w \in Handlers : Ends(w)
         \/ \E w \in Handlers : \E x : MovesOn(w, x)
         \/ \E w \in Handlers, j \in JobIds : Takes(w, j)
         \/ \E j \in JobIds : Expires(j)
         \/ \E e \in Emails : Adds(e)
         \/ UNCHANGED <<work, queueVars>>
  <1>1. CASE \E w \in Handlers : HandlerStep(w)
    BY <1>1, HandlerStepKind
  <1>2. CASE \E w \in Handlers : Crash(w)
    BY <1>2 DEF Crash, Ends
  <1>3. CASE QueueStep
    BY <1>3 DEF QueueStep, Takes, ExpireOrphan, ExpireStalled, Expires
  <1>4. CASE \E e \in Emails : EmailStep(e)
    BY <1>4 DEF EmailStep, EnqueueEmail, WithholdEmail, Retry, Ages, TicketGoes,
                Adds, queueVars
  <1>5. CASE PruneSelects \/ PruneDeletes \/ SwitchProvider
    BY <1>5 DEF PruneSelects, PruneDeletes, SwitchProvider, queueVars
  <1>6. QED
    BY <1>1, <1>2, <1>3, <1>4, <1>5 DEF Next

LEMMA EndsHolding ==
  ASSUME WorkOK, QueueOK, Holding, NEW w \in Handlers, Ends(w)
  PROVE  Holding'
  <1>1. /\ held' = [held EXCEPT ![w] = "none"]
        /\ \A j \in JobIds : j # held[w] => jobs'[j] = jobs[j]
    BY ReportEffect DEF Ends
  <1>2. SUFFICES ASSUME NEW v \in Handlers, held'[v] # "none"
                 PROVE  /\ work'[v].step # "idle"
                        /\ jobs'[held'[v]].item = work'[v].email
                        /\ jobs'[held'[v]].state =
                              (IF work'[v].step = "repair" THEN "mending" ELSE "active")
                        /\ \A u \in Handlers : held'[u] = held'[v] => u = v
    BY DEF Holding
  <1>3. v # w /\ held'[v] = held[v] /\ held[v] \in JobIds /\ work'[v] = work[v]
    BY <1>1, <1>2 DEF QueueOK, Queue!QueueTypeOK, Ends, WorkOK
  <1>4. held[v] # held[w] /\ jobs'[held[v]] = jobs[held[v]]
    BY <1>1, <1>2, <1>3 DEF Holding
  <1>5. \A u \in Handlers : held'[u] = held'[v] => held[u] = held[v]
    BY <1>1, <1>2, <1>3 DEF QueueOK, Queue!QueueTypeOK
  <1>6. QED
    BY <1>2, <1>3, <1>4, <1>5 DEF Holding

LEMMA TakesHolding ==
  ASSUME WorkOK, QueueOK, Holding, NEW w \in Handlers, NEW j \in JobIds, Takes(w, j)
  PROVE  Holding'
  <1> DEFINE x == [step |-> IF Start(w, j) THEN "read" ELSE "repair",
                   email |-> jobs[j].item, result |-> "none"]
  <1>1. /\ held[w] = "none" /\ held' = [held EXCEPT ![w] = j]
        /\ jobs[j].state = (IF Start(w, j) THEN "created" ELSE "dead")
        /\ jobs' = [jobs EXCEPT ![j].state =
                        IF Start(w, j) THEN "active" ELSE "mending"]
        /\ work' = [work EXCEPT ![w] = x]
    BY DEF Takes, Start, StartRepair, Queue!Fetch, Queue!FetchDead
  <1>2. jobs'[j].item = jobs[j].item
        /\ jobs'[j].state = (IF Start(w, j) THEN "active" ELSE "mending")
    BY <1>1 DEF QueueOK, Queue!QueueTypeOK, Queue!Job
  <1>3. \A v \in Handlers : held[v] # j
    BY <1>1, NoneIsNoJob DEF Holding
  <1>4. \A v \in Handlers : v # w =>
           /\ held'[v] = held[v] /\ work'[v] = work[v]
           /\ held[v] # "none" => jobs'[held[v]] = jobs[held[v]]
    BY <1>1, <1>3 DEF WorkOK, QueueOK, Queue!QueueTypeOK
  <1>5. held'[w] = j /\ work'[w] = x
    BY <1>1 DEF WorkOK, QueueOK, Queue!QueueTypeOK
  <1>6. QED
    BY <1>2, <1>3, <1>4, <1>5 DEF Holding

LEMMA MovesHolding ==
  ASSUME WorkOK, QueueOK, Holding, NEW w \in Handlers, NEW x, MovesOn(w, x)
  PROVE  Holding'
  BY DEF MovesOn, Holding, WorkOK, QueueOK, Queue!QueueTypeOK, queueVars

LEMMA ExpiresHolding ==
  ASSUME WorkOK, QueueOK, Holding, NEW j \in JobIds, Expires(j)
  PROVE  Holding'
  BY DEF Expires, Queue!Expire, Holding, WorkOK, QueueOK, Queue!QueueTypeOK

LEMMA AddsHolding ==
  ASSUME WorkOK, QueueOK, Holding, NEW e \in Emails, Adds(e)
  PROVE  Holding'
  BY DEF Adds, EnqueueEmail, Retry, Queue!Send, Holding, WorkOK, QueueOK,
         Queue!QueueTypeOK

LEMMA StepHolding == TypeOK /\ Holding /\ [Next]_vars => Holding'
  <1> SUFFICES ASSUME TypeOK, Holding, [Next]_vars PROVE Holding'
    OBVIOUS
  <1>1. WorkOK /\ QueueOK
    BY TypeParts
  <1>2. UNCHANGED <<work, queueVars>> => Holding'
    BY DEF Holding, queueVars
  <1>3. CASE Next
    BY <1>1, <1>2, <1>3, StepKind, EndsHolding, TakesHolding, MovesHolding,
       ExpiresHolding, AddsHolding
  <1>4. CASE UNCHANGED vars
    BY <1>2, <1>4 DEF vars, queueVars
  <1>5. QED
    BY <1>3, <1>4

-----------------------------------------------------------------------------
(* Jobs and handlers are about rows that were written, and not by a demo   *)
(* session; and a handler says "accepted" of mail that was taken.          *)

Told(w) == work[w].step = "settle" /\ work[w].result = "accepted"

Meant(e) == status[e] # "absent" /\ e \notin DemoEmails

Written ==
    /\ \A j \in JobIds : jobs[j].state # "free" => Meant(jobs[j].item)
    /\ \A w \in Handlers : work[w].step # "idle" => Meant(work[w].email)

ToldTrue == \A w \in Handlers : Told(w) => copies[work[w].email] > 0

LEMMA StepMeant ==
  ASSUME TypeOK, [Next]_vars, NEW e \in Emails
  PROVE  /\ Meant(e) => Meant(e)'
         /\ copies[e] > 0 => copies'[e] > 0
  <1>1. RowsOK
    BY TypeParts
  <1>2. CASE \E w \in Handlers : HandlerStep(w)
    BY <1>1, <1>2
    DEF HandlerStep, Read, NoProvider, Deliver, Settle, Repair, SettleAs, Meant, RowsOK
  <1>3. CASE UNCHANGED <<status, copies>>
    BY <1>3 DEF Meant
  <1>4. CASE \E x \in Emails : EmailStep(x)
    BY <1>1, <1>4 DEF EmailStep, EnqueueEmail, WithholdEmail, Retry, Ages,
                      TicketGoes, Meant, RowsOK
  <1>5. CASE PruneDeletes
    BY <1>1, <1>5 DEF PruneDeletes, Meant, RowsOK
  <1>6. QED
    BY <1>2, <1>3, <1>4, <1>5
    DEF Next, QueueStep, Start, StartRepair, ExpireOrphan, ExpireStalled, Crash,
        PruneSelects, SwitchProvider, vars

(* Whatever a job is about it was about before, unless it was just sent;   *)
(* and so is what a handler works on.                                      *)
LEMMA StepPayload ==
  ASSUME TypeOK, Holding, Next
  PROVE  /\ \A j \in JobIds : jobs'[j].state # "free" =>
               \/ jobs[j].state # "free" /\ jobs'[j].item = jobs[j].item
               \/ Adds(jobs'[j].item) /\ jobs'[j].item \in Emails
         /\ \A w \in Handlers : work'[w].step # "idle" =>
               \/ work[w].step # "idle" /\ work'[w].email = work[w].email
               \/ \E j \in JobIds : jobs[j].state # "free" /\ work'[w].email = jobs[j].item
  <1>1. WorkOK /\ QueueOK
    BY TypeParts
  <1>2. ASSUME NEW w \in Handlers, Ends(w)
        PROVE  \A j \in JobIds : jobs'[j].state # "free" =>
                  jobs[j].state # "free" /\ jobs'[j].item = jobs[j].item
    <2>1. CASE held[w] = "none"
      BY <1>1, <1>2, <2>1, ReportEffect, NoneIsNoJob DEF Ends
    <2>2. CASE held[w] # "none"
      <3>1. held[w] \in JobIds /\ jobs[held[w]].state # "free"
        BY <1>1, <2>2 DEF Holding, QueueOK, Queue!QueueTypeOK
      <3>2. /\ jobs[held[w]] \in Queue!Job
            /\ jobs[held[w]].state # "free" => jobs[held[w]].item \in Emails
        BY <1>1, <3>1 DEF QueueOK, Queue!QueueTypeOK
      <3>3. Queue!NoJob.state = "free"
        BY DEF Queue!NoJob
      <3>4. jobs'[held[w]].state # "free" => jobs'[held[w]].item = jobs[held[w]].item
        BY <1>1, <1>2, <2>2, <3>2, <3>3, ReportEffect, FailedJob DEF Ends
      <3>5. QED
        BY <1>1, <1>2, <3>1, <3>4, ReportEffect DEF Ends
    <2>3. QED
      BY <2>1, <2>2
  <1>3. ASSUME NEW j \in JobIds, Expires(j)
        PROVE  \A i \in JobIds : jobs'[i].state # "free" =>
                  jobs[i].state # "free" /\ jobs'[i].item = jobs[i].item
    BY <1>1, <1>3, FailedJob DEF Expires, Queue!Expire, QueueOK, Queue!QueueTypeOK
  <1>4. CASE \E w \in Handlers : Ends(w)
    <2>1. PICK w \in Handlers : Ends(w)
      BY <1>4
    <2>2. \A v \in Handlers : work'[v].step # "idle" => work'[v] = work[v]
      BY <1>1, <2>1 DEF Ends, Idle, WorkOK
    <2>3. QED
      BY <1>2, <2>1, <2>2
  <1>5. CASE \E w \in Handlers : \E x : MovesOn(w, x)
    BY <1>1, <1>5 DEF MovesOn, WorkOK, queueVars
  <1>6. CASE \E w \in Handlers, j \in JobIds : Takes(w, j)
    BY <1>1, <1>6
    DEF Takes, Start, StartRepair, Queue!Fetch, Queue!FetchDead, WorkOK, QueueOK,
        Queue!QueueTypeOK, Queue!Job
  <1>7. CASE \E j \in JobIds : Expires(j)
    BY <1>3, <1>7 DEF Expires
  <1>8. CASE \E e \in Emails : Adds(e)
    BY <1>1, <1>8
    DEF Adds, EnqueueEmail, Retry, Queue!Send, QueueOK, Queue!QueueTypeOK
  <1>9. CASE UNCHANGED <<work, queueVars>>
    BY <1>9 DEF queueVars
  <1>10. QED
    BY <1>4, <1>5, <1>6, <1>7, <1>8, <1>9, StepKind

LEMMA WithheldStays ==
  ASSUME TypeOK, [Next]_vars, NEW e \in DemoEmails,
         status[e] \in {"absent", "withheld", "gone"}
  PROVE  status'[e] \in {"absent", "withheld", "gone"}
  <1>1. RowsOK /\ e \in Emails
    BY TypeParts, OutboxAssumption
  <1>2. CASE \E w \in Handlers : HandlerStep(w)
    BY <1>1, <1>2
    DEF HandlerStep, Read, NoProvider, Deliver, Settle, Repair, SettleAs, RowsOK
  <1>3. CASE UNCHANGED status
    BY <1>3
  <1>4. CASE \E x \in Emails : EmailStep(x)
    BY <1>1, <1>4 DEF EmailStep, EnqueueEmail, WithholdEmail, Retry, Ages,
                      TicketGoes, RowsOK, RETRYABLE_STATUS
  <1>5. CASE PruneDeletes
    BY <1>1, <1>5 DEF PruneDeletes, RowsOK
  <1>6. QED
    BY <1>2, <1>3, <1>4, <1>5
    DEF Next, QueueStep, Start, StartRepair, ExpireOrphan, ExpireStalled, Crash,
        PruneSelects, SwitchProvider, vars

DemoWithheld == \A e \in DemoEmails : status[e] \in {"absent", "withheld", "gone"}

LEMMA AddedIsMeant ==
  ASSUME TypeOK, DemoWithheld, NEW e \in Emails, Adds(e)
  PROVE  Meant(e)'
  BY TypeParts DEF Adds, EnqueueEmail, Retry, RETRYABLE_STATUS, RowsOK, Meant,
                   DemoWithheld

LEMMA StepWritten ==
  ASSUME TypeOK, Holding, Written, DemoWithheld, [Next]_vars
  PROVE  Written'
  <1>1. WorkOK /\ QueueOK
    BY TypeParts
  <1>2. \A e \in Emails : Meant(e) => Meant(e)'
    BY StepMeant
  <1>3. CASE Next
    <2>1. \A j \in JobIds : jobs'[j].state # "free" =>
             status'[jobs'[j].item] # "absent" /\ jobs'[j].item \notin DemoEmails
      <3>1. TAKE j \in JobIds
      <3>2. HAVE jobs'[j].state # "free"
      <3>3. CASE jobs[j].state # "free" /\ jobs'[j].item = jobs[j].item
        BY <1>1, <1>2, <3>3 DEF Written, QueueOK, Meant
      <3>4. CASE Adds(jobs'[j].item) /\ jobs'[j].item \in Emails
        BY <3>4, AddedIsMeant DEF Meant
      <3>5. QED
        BY <1>3, <3>2, <3>3, <3>4, StepPayload
    <2>2. \A w \in Handlers : work'[w].step # "idle" =>
             status'[work'[w].email] # "absent" /\ work'[w].email \notin DemoEmails
      BY <1>1, <1>2, <1>3, StepPayload DEF Written, QueueOK, WorkOK, Meant
    <2>3. QED
      BY <2>1, <2>2 DEF Written, Meant
  <1>4. CASE UNCHANGED vars
    BY <1>4 DEF vars, Written, Meant
  <1>5. QED
    BY <1>3, <1>4

LEMMA StepToldTrue ==
  ASSUME TypeOK, ToldTrue, [Next]_vars
  PROVE  ToldTrue'
  <1>1. WorkOK /\ RowsOK
    BY TypeParts
  <1>2. SUFFICES ASSUME NEW w \in Handlers, Told(w)'
                 PROVE  copies'[work'[w].email] > 0
    BY DEF ToldTrue
  <1>3. CASE Told(w) /\ work'[w] = work[w]
    BY <1>1, <1>3, StepMeant DEF ToldTrue, Told, WorkOK
  <1>4. CASE ~(Told(w) /\ work'[w] = work[w])
    <2>1. Deliver(w) /\ Outcome(w, "accepted")
      <3>1. CASE \E v \in Handlers : HandlerStep(v)
        BY <1>1, <1>2, <1>4, <3>1
        DEF HandlerStep, Read, NoProvider, Deliver, Settle, Repair, Return, Throw,
            Goto, Outcome, Told, Idle, WorkOK, Work
      <3>2. CASE QueueStep \/ \E v \in Handlers : Crash(v)
        BY <1>1, <1>2, <1>4, <3>2
        DEF QueueStep, Start, StartRepair, ExpireOrphan, ExpireStalled, Crash,
            Told, Idle, WorkOK, Work
      <3>3. CASE UNCHANGED work
        BY <1>2, <1>4, <3>3 DEF Told
      <3>4. QED
        BY <3>1, <3>2, <3>3
        DEF Next, EmailStep, EnqueueEmail, WithholdEmail, Retry, Ages, TicketGoes,
            PruneSelects, PruneDeletes, SwitchProvider, vars
    <2>2. work[w].email \in Emails /\ work'[w].email = work[w].email
      BY <1>1, <2>1 DEF Deliver, Outcome, WorkOK, Work
    <2>3. copies' = [copies EXCEPT ![work[w].email] = @ + 1]
      <3>1. \A result : Outcome(w, result) => work'[w].result = result
        BY <1>1 DEF Outcome, WorkOK, Work
      <3>2. Throw(w) => work'[w].result = "none"
        BY <1>1 DEF Throw, WorkOK, Idle
      <3>3. QED
        BY <2>1, <3>1, <3>2 DEF Deliver
    <2>4. QED
      BY <1>1, <2>2, <2>3 DEF RowsOK
  <1>5. QED
    BY <1>3, <1>4

-----------------------------------------------------------------------------
(* A queued row has its job.                                               *)

(* A dead-letter job in repair is in some handler's hands, unless one was  *)
(* killed with it.                                                         *)
RepairsHeld ==
    \A j \in JobIds :
       jobs[j].state = "mending" => spent.repairs > 0 \/ Queue!HasHandler(j)

LEMMA RepairsCounted ==
  ASSUME TypeOK, [Next]_vars, spent.repairs > 0
  PROVE  spent'.repairs > 0
  <1>1. spent \in Budget
    BY TypeParts DEF WorldOK
  <1>2. UNCHANGED spent \/ \E what \in DOMAIN spent : Spend(what)
    BY <1>1
    DEF Budget, Next, vars, HandlerStep, Read, NoProvider, Deliver, Settle, Repair,
        Crash, QueueStep, Start, StartRepair, ExpireOrphan, ExpireStalled,
        EmailStep, EnqueueEmail, WithholdEmail, Retry, Ages, TicketGoes,
        PruneSelects, PruneDeletes, SwitchProvider
  <1>3. QED
    BY <1>1, <1>2 DEF Budget, Spend

LEMMA KilledRepair ==
  ASSUME TypeOK, NEW w \in Handlers, Crash(w), work[w].step = "repair"
  PROVE  spent'.repairs > 0
  BY TypeParts DEF Crash, Spend, Budget, WorldOK

LEMMA HandlerReports ==
  ASSUME NEW w \in Handlers, HandlerStep(w)
  PROVE  Return(w) \/ Throw(w) \/ UNCHANGED queueVars
  BY DEF HandlerStep, Read, NoProvider, Deliver, Settle, Repair

LEMMA StepActor ==
  ASSUME TypeOK, Next
  PROVE  \/ \E w \in Handlers : HandlerStep(w) \/ Crash(w)
         \/ \E w \in Handlers, j \in JobIds : Takes(w, j)
         \/ \E j \in JobIds : ExpireOrphan(j) \/ ExpireStalled(j)
         \/ \E e \in Emails : Adds(e)
         \/ UNCHANGED <<work, copies, spent, queueVars>>
  BY DEF Next, QueueStep, Takes, EmailStep, WithholdEmail, Ages, TicketGoes, Adds,
         PruneSelects, PruneDeletes, SwitchProvider, queueVars

LEMMA StepRepairsHeld ==
  ASSUME TypeOK, Holding, RepairsHeld, [Next]_vars
  PROVE  RepairsHeld'
  <1>1. WorkOK /\ QueueOK
    BY TypeParts
  <1>2. SUFFICES ASSUME NEW j \in JobIds, jobs'[j].state = "mending",
                        ~(spent'.repairs > 0)
                 PROVE  \E w \in Handlers : held'[w] = j
    BY DEF RepairsHeld, Queue!HasHandler
  <1>3. jobs[j].state = "mending" => \E w \in Handlers : held[w] = j
    BY <1>2, RepairsCounted DEF RepairsHeld, Queue!HasHandler
  <1>4. CASE UNCHANGED queueVars
    BY <1>2, <1>3, <1>4 DEF queueVars
  <1>5. CASE \E w \in Handlers : Return(w) \/ Throw(w)
    <2>1. PICK w \in Handlers : Queue!Complete(w) \/ Queue!Fail(w)
      BY <1>5 DEF Return, Throw
    <2>2. j # held[w]
      <3>1. SUFFICES ASSUME j = held[w] PROVE FALSE
        OBVIOUS
      <3>2. jobs[j] \in Queue!Job /\ (jobs[j].state # "free" => jobs[j].item \in Emails)
            /\ held[w] # "none"
        BY <1>1, <3>1, NoneIsNoJob DEF QueueOK, Queue!QueueTypeOK
      <3>3. CASE jobs'[j] = Queue!NoJob
        BY <1>2, <3>3 DEF Queue!NoJob
      <3>4. CASE jobs'[j] = Queue!AfterFailure(jobs[j])
        BY <1>2, <3>2, <3>4, FailedJob
      <3>5. QED
        BY <1>1, <2>1, <3>1, <3>2, <3>3, <3>4, ReportEffect
    <2>3. jobs'[j] = jobs[j] /\ held' = [held EXCEPT ![w] = "none"]
      BY <1>1, <2>1, <2>2, ReportEffect
    <2>4. QED
      BY <1>1, <1>2, <1>3, <2>2, <2>3 DEF QueueOK, Queue!QueueTypeOK
  <1>6. CASE \E w \in Handlers : Crash(w)
    <2>1. PICK w \in Handlers : Crash(w)
      BY <1>6
    <2>2. jobs' = jobs /\ held' = [held EXCEPT ![w] = "none"]
      BY <1>1, <2>1, ReportEffect DEF Crash
    <2>3. held[w] # j
      BY <1>2, <2>1, <2>2, KilledRepair, NoneIsNoJob DEF Holding
    <2>4. QED
      BY <1>1, <1>2, <1>3, <2>2, <2>3 DEF QueueOK, Queue!QueueTypeOK
  <1>7. CASE \E w \in Handlers, i \in JobIds : Takes(w, i)
    BY <1>1, <1>2, <1>3, <1>7, NoneIsNoJob
    DEF Takes, Start, StartRepair, Queue!Fetch, Queue!FetchDead, QueueOK,
        Queue!QueueTypeOK, Queue!Job
  <1>8. CASE \E i \in JobIds : ExpireOrphan(i) \/ ExpireStalled(i)
    <2>1. PICK i \in JobIds : Queue!Expire(i)
      BY <1>8 DEF ExpireOrphan, ExpireStalled
    <2>2. i # j
      BY <1>1, <1>2, <2>1, FailedJob DEF Queue!Expire, QueueOK, Queue!QueueTypeOK
    <2>3. QED
      BY <1>1, <1>2, <1>3, <2>1, <2>2 DEF Queue!Expire, QueueOK, Queue!QueueTypeOK
  <1>9. CASE \E e \in Emails : Adds(e)
    BY <1>1, <1>2, <1>3, <1>9
    DEF Adds, EnqueueEmail, Retry, Queue!Send, QueueOK, Queue!QueueTypeOK
  <1>10. QED
    BY <1>4, <1>5, <1>6, <1>7, <1>8, <1>9, HandlerReports, StepActor
    DEF vars, queueVars

(* The handler of a job that a report takes away has settled its row, and  *)
(* the report of a failure leaves the job waiting.                         *)
LEMMA ReportSettles ==
  ASSUME TypeOK, Holding, NEW w \in Handlers, HandlerStep(w),
         status'[work[w].email] = "queued", held[w] # "none"
  PROVE  /\ jobs'[held[w]].state # "free"
         /\ jobs'[held[w]].item = jobs[held[w]].item
         /\ work[w].step # "repair"
  <1> DEFINE e == work[w].email
  <1>1. WorkOK /\ RowsOK /\ QueueOK
    BY TypeParts
  <1>2. /\ work[w].step # "idle" /\ e \in Emails
        /\ held[w] \in JobIds /\ jobs[held[w]] \in Queue!Job
        /\ jobs[held[w]].state = (IF work[w].step = "repair" THEN "mending" ELSE "active")
        /\ jobs[held[w]].item = e
    BY <1>1 DEF Holding, WorkOK, QueueOK, Queue!QueueTypeOK
  <1>3. \A s \in OUTBOUND_EMAIL_STATUS \ {"queued"} : ~SettleAs(e, s)
    BY <1>1, <1>2 DEF SettleAs, RowsOK
  <1>4. ~NoProvider(w) /\ ~Repair(w)
    BY <1>3 DEF NoProvider, Repair, OUTBOUND_EMAIL_STATUS
  <1>5. CASE UNCHANGED queueVars
    BY <1>2, <1>4, <1>5 DEF queueVars, HandlerStep, Read, Deliver, Settle
  <1>6. CASE Throw(w) /\ work[w].step # "repair"
    <2>1. jobs'[held[w]] = Queue!AfterFailure(jobs[held[w]])
      BY <1>1, <1>6, ReportEffect DEF Throw
    <2>2. QED
      BY <1>2, <1>6, <2>1, FailedJob
  <1>7. QED
    BY <1>3, <1>4, <1>5, <1>6
    DEF HandlerStep, Read, Deliver, Settle, OUTBOUND_EMAIL_STATUS

(* A row becomes queued only together with its job.                        *)
LEMMA NewlyQueued ==
  ASSUME TypeOK, Next, NEW e \in Emails, status'[e] = "queued", status[e] # "queued"
  PROVE  Adds(e)
  <1>1. RowsOK
    BY TypeParts
  <1>2. CASE \E w \in Handlers : HandlerStep(w)
    BY <1>1, <1>2
    DEF HandlerStep, Read, NoProvider, Deliver, Settle, Repair, SettleAs, RowsOK
  <1>3. CASE \E x \in Emails : EmailStep(x)
    BY <1>1, <1>3
    DEF EmailStep, EnqueueEmail, WithholdEmail, Retry, Ages, TicketGoes, Adds, RowsOK
  <1>4. CASE PruneDeletes
    BY <1>1, <1>4 DEF PruneDeletes, RowsOK
  <1>5. QED
    BY <1>2, <1>3, <1>4
    DEF Next, QueueStep, Start, StartRepair, ExpireOrphan, ExpireStalled, Crash,
        PruneSelects, SwitchProvider

LEMMA StepQueuedHasJob ==
  ASSUME TypeOK, Holding, RepairsHeld, QueuedHasJob, [Next]_vars
  PROVE  QueuedHasJob'
  <1>1. WorkOK /\ QueueOK /\ RowsOK
    BY TypeParts
  <1> DEFINE Waits(e) == \E j \in JobIds : jobs[j].item = e /\ jobs[j].state # "free"
             Mends(e) == \E w \in Handlers : work[w].step = "repair" /\ work[w].email = e
  <1>2. SUFFICES ASSUME NEW e \in Emails, status'[e] = "queued", ~(spent'.repairs > 0)
                 PROVE  Waits(e)' \/ Mends(e)'
    BY DEF QueuedHasJob, Queue!Coming
  <1>3. CASE Next /\ status[e] # "queued"
    <2>1. Adds(e)
      BY <1>2, <1>3, NewlyQueued
    <2>2. QED
      BY <1>1, <2>1
      DEF Adds, EnqueueEmail, Retry, Queue!Send, QueueOK, Queue!QueueTypeOK
  <1>4. status[e] = "queued" => Waits(e) \/ Mends(e)
    BY <1>2, RepairsCounted DEF QueuedHasJob, Queue!Coming
  <1>5. CASE UNCHANGED vars
    BY <1>2, <1>4, <1>5 DEF vars
  <1>6. CASE Next /\ status[e] = "queued" /\ Waits(e)
    <2>1. PICK j \in JobIds : jobs[j].item = e /\ jobs[j].state # "free"
      BY <1>6
    <2>2. CASE UNCHANGED jobs
      BY <2>1, <2>2
    <2>3. ASSUME NEW w \in Handlers, HandlerStep(w) PROVE Waits(e)'
      <3>1. CASE j = held[w]
        BY <1>1, <1>2, <2>1, <2>3, <3>1, ReportSettles, NoneIsNoJob DEF Holding
      <3>2. CASE j # held[w]
        <4>1. jobs'[j] = jobs[j]
          BY <1>1, <2>3, <3>2, HandlerReports, ReportEffect
          DEF Return, Throw, queueVars
        <4>2. QED
          BY <2>1, <4>1
      <3>3. QED
        BY <3>1, <3>2
    <2>4. CASE \E w \in Handlers, i \in JobIds : Takes(w, i)
      <3>1. PICK w \in Handlers, i \in JobIds : Takes(w, i)
        BY <2>4
      <3>2. PICK state \in {"active", "mending"} : jobs' = [jobs EXCEPT ![i].state = state]
        BY <3>1 DEF Takes, Start, StartRepair, Queue!Fetch, Queue!FetchDead
      <3>3. jobs \in [JobIds -> Queue!Job]
        BY <1>1 DEF QueueOK, Queue!QueueTypeOK
      <3>4. jobs'[j].item = e /\ jobs'[j].state # "free"
        BY <2>1, <3>2, <3>3 DEF Queue!Job
      <3>5. QED
        BY <3>4
    <2>5. CASE \E i \in JobIds : ExpireOrphan(i) \/ ExpireStalled(i)
      <3>1. PICK i \in JobIds : ExpireOrphan(i) \/ ExpireStalled(i)
        BY <2>5
      <3>2. Queue!Expire(i) /\ UNCHANGED work
        BY <3>1 DEF ExpireOrphan, ExpireStalled
      <3>3. CASE i # j \/ jobs[j].state = "active"
        BY <1>1, <2>1, <3>2, <3>3, FailedJob
        DEF Queue!Expire, QueueOK, Queue!QueueTypeOK
      <3>4. CASE i = j /\ jobs[j].state = "mending"
        <4>1. PICK w \in Handlers : held[w] = j
          BY <1>2, <3>4, RepairsCounted DEF RepairsHeld, Queue!HasHandler
        <4>2. work[w].step = "repair" /\ work[w].email = e
          BY <2>1, <3>4, <4>1, NoneIsNoJob DEF Holding
        <4>3. QED
          BY <3>2, <4>2
      <3>5. QED
        BY <3>2, <3>3, <3>4 DEF Queue!Expire
    <2>6. CASE \E x \in Emails : Adds(x)
      BY <1>1, <2>1, <2>6
      DEF Adds, EnqueueEmail, Retry, Queue!Send, QueueOK, Queue!QueueTypeOK
    <2>7. QED
      BY <1>6, <2>2, <2>3, <2>4, <2>5, <2>6, StepActor
      DEF Crash, Queue!Abandon, queueVars
  <1>7. CASE Next /\ status[e] = "queued" /\ Mends(e)
    <2>1. PICK w \in Handlers : work[w].step = "repair" /\ work[w].email = e
      BY <1>7
    <2>2. ~HandlerStep(w)
      BY <1>1, <1>2, <2>1
      DEF HandlerStep, Read, NoProvider, Deliver, Settle, Repair, SettleAs, RowsOK
    <2>3. ~Crash(w)
      BY <1>2, <2>1, KilledRepair
    <2>4. \A v \in Handlers : v # w /\ HandlerStep(v) => work'[w] = work[w]
      BY <1>1 DEF WorkOK, HandlerStep, Read, NoProvider, Deliver, Settle, Repair,
                  Return, Throw, Goto, Outcome
    <2>5. \A v \in Handlers : v # w /\ Crash(v) => work'[w] = work[w]
      BY <1>1 DEF WorkOK, Crash
    <2>6. \A v \in Handlers, i \in JobIds : Takes(v, i) => work'[w] = work[w]
      BY <1>1, <2>1 DEF WorkOK, Takes, Start, StartRepair
    <2>7. work'[w] = work[w]
      BY <1>7, <2>2, <2>3, <2>4, <2>5, <2>6, StepActor
      DEF ExpireOrphan, ExpireStalled, Adds, EnqueueEmail, Retry
    <2>8. QED
      BY <2>1, <2>7
  <1>8. QED
    BY <1>2, <1>3, <1>4, <1>5, <1>6, <1>7

-----------------------------------------------------------------------------
(* Copies.  Whatever may still hand an email to the provider is a job or a *)
(* handler whose job has expired; a handler that holds its job counts as   *)
(* the job, and not at all once the provider has accepted.                 *)

LooseJobs(e) ==
    {j \in JobIds : /\ jobs[j].state # "free"
                    /\ jobs[j].item = e
                    /\ ~\E w \in Handlers : held[w] = j /\ Told(w)}

Strays(e) ==
    {w \in Handlers : /\ work[w].step # "idle"
                      /\ work[w].email = e
                      /\ held[w] = "none"
                      /\ ~Told(w)}

Load(e) == Cardinality(LooseJobs(e)) + Cardinality(Strays(e))

Trouble == spent.crashes + spent.stalls + spent.timeouts

(* An email that is settled, or not written, has used up nothing of the    *)
(* one copy it is allowed; any other has its chance out or spent.          *)
Allowance(e) == IF status[e] \in {"absent", "failed", "undeliverable"} THEN 0 ELSE 1

CopiesAccounted ==
    \A e \in Emails : copies[e] + Load(e) <= Trouble + Allowance(e)

LEMMA Fewer ==
  ASSUME NEW S, IsFiniteSet(S), NEW T, T \subseteq S
  PROVE  Cardinality(T) \in Nat /\ Cardinality(S) \in Nat
         /\ Cardinality(T) <= Cardinality(S)
  BY FS_Subset, FS_CardinalityType

LEMMA OneFewer ==
  ASSUME NEW S, IsFiniteSet(S), NEW x \in S, NEW T, T \subseteq S \ {x}
  PROVE  Cardinality(T) \in Nat /\ Cardinality(S) \in Nat
         /\ Cardinality(T) + 1 <= Cardinality(S)
  <1>1. IsFiniteSet(S \ {x}) /\ Cardinality(S \ {x}) = Cardinality(S) - 1
    BY FS_RemoveElement
  <1>2. QED
    BY <1>1, Fewer, FS_CardinalityType

LEMMA OneMore ==
  ASSUME NEW S, IsFiniteSet(S), NEW x, NEW T, T \subseteq S \cup {x}
  PROVE  Cardinality(T) \in Nat /\ Cardinality(S) \in Nat
         /\ Cardinality(T) <= Cardinality(S) + 1
  <1>1. CASE x \in S
    BY <1>1, Fewer, FS_CardinalityType
  <1>2. CASE x \notin S
    <2>1. IsFiniteSet(S \cup {x}) /\ Cardinality(S \cup {x}) = Cardinality(S) + 1
      BY <1>2, FS_AddElement
    <2>2. QED
      BY <2>1, Fewer, FS_CardinalityType
  <1>3. QED
    BY <1>1, <1>2

LEMMA LoadFinite ==
  ASSUME NEW e
  PROVE  /\ IsFiniteSet(LooseJobs(e)) /\ IsFiniteSet(Strays(e))
         /\ Load(e) \in Nat
  <1>1. IsFiniteSet(LooseJobs(e)) /\ IsFiniteSet(Strays(e))
    BY OutboxAssumption, FS_Subset DEF LooseJobs, Strays
  <1>2. QED
    BY <1>1, FS_CardinalityType DEF Load

(* A working handler that was not told "accepted" is counted, itself or by *)
(* the job it holds.                                                       *)
LEMMA Counted ==
  ASSUME TypeOK, Holding, NEW w \in Handlers, work[w].step # "idle", ~Told(w)
  PROVE  \/ held[w] # "none" /\ held[w] \in LooseJobs(work[w].email)
         \/ held[w] = "none" /\ w \in Strays(work[w].email)
  BY TypeParts DEF Holding, LooseJobs, Strays, QueueOK, Queue!QueueTypeOK

(* The load of an email when the sets behind it shrink, lose one or gain.  *)
LEMMA LoadFalls ==
  ASSUME NEW e, LooseJobs(e)' \subseteq LooseJobs(e), Strays(e)' \subseteq Strays(e)
  PROVE  Load(e)' \in Nat /\ Load(e) \in Nat /\ Load(e)' <= Load(e)
  BY LoadFinite, Fewer DEF Load

LEMMA LoadLosesOne ==
  ASSUME NEW e, LooseJobs(e)' \subseteq LooseJobs(e), Strays(e)' \subseteq Strays(e),
         \/ \E j \in LooseJobs(e) : j \notin LooseJobs(e)'
         \/ \E w \in Strays(e) : w \notin Strays(e)'
  PROVE  Load(e)' \in Nat /\ Load(e) \in Nat /\ Load(e)' + 1 <= Load(e)
  <1>1. CASE \E j \in LooseJobs(e) : j \notin LooseJobs(e)'
    <2>1. PICK j \in LooseJobs(e) : LooseJobs(e)' \subseteq LooseJobs(e) \ {j}
      BY <1>1
    <2>2. QED
      BY <2>1, LoadFinite, Fewer, OneFewer DEF Load
  <1>2. CASE \E w \in Strays(e) : w \notin Strays(e)'
    <2>1. PICK w \in Strays(e) : Strays(e)' \subseteq Strays(e) \ {w}
      BY <1>2
    <2>2. QED
      BY <2>1, LoadFinite, Fewer, OneFewer DEF Load
  <1>3. QED
    BY <1>1, <1>2

LEMMA LoadGainsOne ==
  ASSUME NEW e, NEW x,
         \/ /\ LooseJobs(e)' \subseteq LooseJobs(e) \cup {x}
            /\ Strays(e)' \subseteq Strays(e)
         \/ /\ LooseJobs(e)' \subseteq LooseJobs(e)
            /\ Strays(e)' \subseteq Strays(e) \cup {x}
  PROVE  Load(e)' \in Nat /\ Load(e) \in Nat /\ Load(e)' <= Load(e) + 1
  <1>1. \A S, T : IsFiniteSet(S) /\ T \subseteq S \cup {x} =>
           Cardinality(T) \in Nat /\ Cardinality(S) \in Nat
           /\ Cardinality(T) <= Cardinality(S) + 1
    BY OneMore
  <1>2. \A S, T : IsFiniteSet(S) /\ T \subseteq S =>
           Cardinality(T) \in Nat /\ Cardinality(S) \in Nat
           /\ Cardinality(T) <= Cardinality(S)
    BY Fewer
  <1>3. IsFiniteSet(LooseJobs(e)) /\ IsFiniteSet(Strays(e))
    BY LoadFinite
  <1>4. CASE /\ LooseJobs(e)' \subseteq LooseJobs(e) \cup {x}
             /\ Strays(e)' \subseteq Strays(e)
    BY <1>1, <1>2, <1>3, <1>4 DEF Load
  <1>5. CASE /\ LooseJobs(e)' \subseteq LooseJobs(e)
             /\ Strays(e)' \subseteq Strays(e) \cup {x}
    BY <1>1, <1>2, <1>3, <1>5 DEF Load
  <1>6. QED
    BY <1>4, <1>5

LEMMA LoadSame ==
  ASSUME UNCHANGED <<work, queueVars>>, NEW e
  PROVE  Load(e)' = Load(e)
  BY DEF Load, LooseJobs, Strays, Told, queueVars

(* A report takes the handler, or its job, off the load.                   *)
LEMMA EndsLoad ==
  ASSUME TypeOK, Holding, NEW w \in Handlers, Ends(w), NEW e \in Emails
  PROVE  /\ Strays(e)' \subseteq Strays(e)
         /\ w \notin Strays(e)'
         /\ \A j \in LooseJobs(e)' : j # held[w] => j \in LooseJobs(e)
  <1>1. WorkOK /\ QueueOK
    BY TypeParts
  <1>2. /\ held' = [held EXCEPT ![w] = "none"]
        /\ \A j \in JobIds : j # held[w] => jobs'[j] = jobs[j]
    BY <1>1, ReportEffect DEF Ends
  <1>3. \A v \in Handlers : v # w => work'[v] = work[v] /\ held'[v] = held[v]
    BY <1>1, <1>2 DEF Ends, WorkOK, QueueOK, Queue!QueueTypeOK
  <1>4. work'[w].step = "idle"
    BY <1>1 DEF Ends, WorkOK, Idle
  <1>5. QED
    BY <1>2, <1>3, <1>4 DEF LooseJobs, Strays, Told

LEMMA ReturnLoad ==
  ASSUME TypeOK, Holding, NEW w \in Handlers, Return(w), NEW e \in Emails
  PROVE  /\ Load(e)' \in Nat /\ Load(e) \in Nat /\ Load(e)' <= Load(e)
         /\ work[w].step # "idle" /\ ~Told(w) /\ e = work[w].email =>
               Load(e)' + 1 <= Load(e)
  <1>1. QueueOK /\ Ends(w)
    BY TypeParts DEF Return, Ends
  <1>2. held[w] # "none" => held[w] \notin LooseJobs(e)'
    BY <1>1, ReportEffect DEF Return, LooseJobs, Queue!NoJob
  <1>3. LooseJobs(e)' \subseteq LooseJobs(e)
    BY <1>1, <1>2, EndsLoad, NoneIsNoJob DEF LooseJobs
  <1>4. Strays(e)' \subseteq Strays(e) /\ w \notin Strays(e)'
    BY <1>1, EndsLoad
  <1>5. QED
    BY <1>2, <1>3, <1>4, Counted, LoadFalls, LoadLosesOne

LEMMA ThrowLoad ==
  ASSUME TypeOK, Holding, NEW w \in Handlers, Throw(w) \/ Crash(w), ~Told(w),
         NEW e \in Emails
  PROVE  Load(e)' \in Nat /\ Load(e) \in Nat /\ Load(e)' <= Load(e)
  <1>1. WorkOK /\ QueueOK /\ Ends(w)
    BY TypeParts DEF Throw, Crash, Ends
  <1>2. ASSUME held[w] # "none", held[w] \in LooseJobs(e)'
        PROVE  held[w] \in LooseJobs(e)
    <2>1. /\ held[w] \in JobIds /\ jobs[held[w]].state # "free"
          /\ jobs[held[w]] \in Queue!Job /\ jobs[held[w]].item \in Emails
      BY <1>1, <1>2 DEF Holding, QueueOK, Queue!QueueTypeOK
    <2>2. jobs'[held[w]].item = jobs[held[w]].item
      <3>1. CASE Throw(w)
        BY <1>1, <1>2, <2>1, <3>1, ReportEffect, FailedJob DEF Throw, LooseJobs
      <3>2. CASE Crash(w)
        BY <3>2 DEF Crash, Queue!Abandon
      <3>3. QED
        BY <3>1, <3>2
    <2>3. \A v \in Handlers : held[v] = held[w] => ~Told(v)
      BY <1>2 DEF Holding
    <2>4. QED
      BY <1>2, <2>1, <2>2, <2>3 DEF LooseJobs
  <1>3. LooseJobs(e)' \subseteq LooseJobs(e)
    BY <1>1, <1>2, EndsLoad, NoneIsNoJob DEF LooseJobs
  <1>4. QED
    BY <1>1, <1>3, EndsLoad, LoadFalls

LEMMA CrashLoad ==
  ASSUME TypeOK, Holding, NEW w \in Handlers, Crash(w), NEW e \in Emails
  PROVE  Load(e)' \in Nat /\ Load(e) \in Nat /\ Load(e)' <= Load(e) + 1
  <1>1. Ends(w)
    BY DEF Crash, Ends
  <1>2. LooseJobs(e)' \subseteq LooseJobs(e) \cup {held[w]}
    BY <1>1, EndsLoad
  <1>3. QED
    BY <1>1, <1>2, EndsLoad, LoadGainsOne

LEMMA TakesLoad ==
  ASSUME TypeOK, Holding, NEW w \in Handlers, NEW j \in JobIds, Takes(w, j),
         NEW e \in Emails
  PROVE  Load(e)' \in Nat /\ Load(e) \in Nat /\ Load(e)' <= Load(e)
  <1>1. WorkOK /\ QueueOK
    BY TypeParts
  <1>2. /\ held[w] = "none" /\ held' = [held EXCEPT ![w] = j]
        /\ jobs[j].state \in {"created", "dead"}
        /\ work[w].step = "idle" /\ work'[w].step # "settle"
    BY <1>1 DEF Takes, Start, StartRepair, Queue!Fetch, Queue!FetchDead, WorkOK
  <1>3. \A i \in JobIds : /\ jobs'[i].item = jobs[i].item
                          /\ jobs'[i].state # "free" => jobs[i].state # "free"
    BY <1>1 DEF Takes, Start, StartRepair, Queue!Fetch, Queue!FetchDead, QueueOK,
                Queue!QueueTypeOK, Queue!Job
  <1>4. \A v \in Handlers : v # w => work'[v] = work[v] /\ held'[v] = held[v]
    BY <1>1, <1>2 DEF Takes, Start, StartRepair, WorkOK, QueueOK, Queue!QueueTypeOK
  <1>5. \A v \in Handlers : held[v] # j
    BY <1>2, NoneIsNoJob DEF Holding
  <1>6. held'[w] = j
    BY <1>1, <1>2 DEF QueueOK, Queue!QueueTypeOK
  <1>7. LooseJobs(e)' \subseteq LooseJobs(e)
    BY <1>2, <1>3, <1>4, <1>5 DEF LooseJobs, Told
  <1>8. Strays(e)' \subseteq Strays(e)
    BY <1>2, <1>4, <1>6, NoneIsNoJob DEF Strays, Told
  <1>9. QED
    BY <1>7, <1>8, LoadFalls

(* Going on keeps the load, and being told "accepted" takes the handler    *)
(* off it: the copy is counted instead.                                    *)
LEMMA MovesLoad ==
  ASSUME TypeOK, Holding, NEW w \in Handlers, NEW x, MovesOn(w, x), ~Told(w),
         NEW e \in Emails
  PROVE  /\ Load(e)' \in Nat /\ Load(e) \in Nat /\ Load(e)' <= Load(e)
         /\ x.step = "settle" /\ x.result = "accepted" /\ e = work[w].email =>
               Load(e)' + 1 <= Load(e)
  <1>1. WorkOK /\ QueueOK
    BY TypeParts
  <1>2. /\ work'[w] = x /\ UNCHANGED <<jobs, held>>
        /\ \A v \in Handlers : v # w => work'[v] = work[v]
    BY <1>1 DEF MovesOn, WorkOK, queueVars
  <1>3. LooseJobs(e)' \subseteq LooseJobs(e)
    BY <1>2 DEF LooseJobs, Told
  <1>4. Strays(e)' \subseteq Strays(e)
    BY <1>2 DEF Strays, Told, MovesOn
  <1>5. ASSUME x.step = "settle", x.result = "accepted", e = work[w].email
        PROVE  Load(e)' + 1 <= Load(e)
    <2>1. Told(w)'
      BY <1>2, <1>5 DEF Told
    <2>2. w \notin Strays(e)' /\ held[w] \notin LooseJobs(e)'
      BY <1>2, <2>1 DEF Strays, LooseJobs
    <2>3. QED
      BY <1>3, <1>4, <1>5, <2>2, Counted, LoadLosesOne DEF MovesOn
  <1>6. QED
    BY <1>3, <1>4, <1>5, LoadFalls

LEMMA ExpiresLoad ==
  ASSUME TypeOK, Holding, NEW j \in JobIds, Expires(j), NEW e \in Emails
  PROVE  /\ Load(e)' \in Nat /\ Load(e) \in Nat /\ Load(e)' <= Load(e) + 1
         /\ ~Queue!HasHandler(j) => Load(e)' <= Load(e)
  <1>1. WorkOK /\ QueueOK
    BY TypeParts
  <1>2. /\ work' = work
        /\ \A v \in Handlers : held'[v] = (IF held[v] = j THEN "none" ELSE held[v])
        /\ \A i \in JobIds : i # j => jobs'[i] = jobs[i]
    BY <1>1 DEF Expires, Queue!Expire, QueueOK, Queue!QueueTypeOK
  <1>3. jobs'[j].state # "free" => jobs[j].state # "free" /\ jobs'[j].item = jobs[j].item
    BY <1>1, FailedJob DEF Expires, Queue!Expire, QueueOK, Queue!QueueTypeOK
  <1>4. CASE ~Queue!HasHandler(j)
    <2>1. LooseJobs(e)' \subseteq LooseJobs(e) /\ Strays(e)' \subseteq Strays(e)
      BY <1>2, <1>3, <1>4 DEF Queue!HasHandler, LooseJobs, Strays, Told
    <2>2. QED
      BY <2>1, LoadFalls
  <1>5. CASE Queue!HasHandler(j)
    <2>1. PICK w \in Handlers : held[w] = j
      BY <1>5 DEF Queue!HasHandler
    <2>2. \A v \in Handlers : held[v] = j => v = w
      BY <2>1, NoneIsNoJob DEF Holding
    <2>3. \A i \in LooseJobs(e)' : i # j => i \in LooseJobs(e)
      BY <1>2, NoneIsNoJob DEF LooseJobs, Told
    <2>4. \A v \in Strays(e)' : v # w => v \in Strays(e)
      BY <1>2, <2>2 DEF Strays, Told
    <2>5. CASE Told(w)
      <3>1. Strays(e)' \subseteq Strays(e)
        BY <1>2, <2>4, <2>5 DEF Strays, Told
      <3>2. LooseJobs(e)' \subseteq LooseJobs(e) \cup {j}
        BY <2>3
      <3>3. QED
        BY <1>5, <3>1, <3>2, LoadGainsOne
    <2>6. CASE ~Told(w)
      <3>1. j \in LooseJobs(e)' => j \in LooseJobs(e)
        BY <1>3, <2>2, <2>6 DEF LooseJobs
      <3>2. LooseJobs(e)' \subseteq LooseJobs(e) /\ Strays(e)' \subseteq Strays(e) \cup {w}
        BY <2>3, <2>4, <3>1
      <3>3. QED
        BY <1>5, <3>2, LoadGainsOne
    <2>7. QED
      BY <2>5, <2>6
  <1>6. QED
    BY <1>4, <1>5

LEMMA AddsLoad ==
  ASSUME TypeOK, Holding, NEW x \in Emails, Adds(x), NEW e \in Emails
  PROVE  /\ Load(e)' \in Nat /\ Load(e) \in Nat /\ Load(e)' <= Load(e) + 1
         /\ e # x => Load(e)' <= Load(e)
  <1>1. WorkOK /\ QueueOK
    BY TypeParts
  <1>2. Queue!Send(x) /\ UNCHANGED <<work, held>>
    BY DEF Adds, EnqueueEmail, Retry
  <1>3. PICK j \in JobIds :
           jobs' = [jobs EXCEPT ![j] = [state |-> "created", item |-> x, tries |-> 0]]
    BY <1>2 DEF Queue!Send
  <1>4. Strays(e)' \subseteq Strays(e)
    BY <1>2 DEF Strays, Told
  <1>5. LooseJobs(e)' \subseteq LooseJobs(e) \cup {j}
    BY <1>1, <1>2, <1>3 DEF LooseJobs, Told, QueueOK, Queue!QueueTypeOK
  <1>6. e # x => LooseJobs(e)' \subseteq LooseJobs(e)
    BY <1>1, <1>2, <1>3 DEF LooseJobs, Told, QueueOK, Queue!QueueTypeOK
  <1>7. QED
    BY <1>4, <1>5, <1>6, LoadFalls, LoadGainsOne

-----------------------------------------------------------------------------
(* How the allowance moves with the row.                                   *)

LEMMA SettleAllowance ==
  ASSUME RowsOK, NEW x \in Emails, NEW s \in OUTBOUND_EMAIL_STATUS, SettleAs(x, s),
         NEW e \in Emails
  PROVE  /\ Allowance(e)' \in 0..1 /\ Allowance(e) \in 0..1
         /\ e # x => Allowance(e)' = Allowance(e)
         /\ s \in {"sent", "queued"} => Allowance(e)' = Allowance(e)
         /\ Allowance(e)' >= Allowance(e) - 1
         /\ status[e] # "queued" => Allowance(e)' = Allowance(e)
  BY DEF SettleAs, Allowance, RowsOK, OUTBOUND_EMAIL_STATUS

LEMMA SpendTrouble ==
  ASSUME spent \in Budget, NEW what, Spend(what)
  PROVE  /\ Trouble \in Nat
         /\ what \in {"crashes", "stalls", "timeouts"} => Trouble' = Trouble + 1
         /\ what \in {"retries", "repairs"} => Trouble' = Trouble
  BY DEF Budget, Spend, Trouble

LEMMA HandlerCopies ==
  ASSUME TypeOK, Holding, CopiesAccounted, NEW w \in Handlers, HandlerStep(w)
  PROVE  CopiesAccounted'
  <1> DEFINE x == work[w].email
  <1>1. WorkOK /\ RowsOK /\ QueueOK /\ spent \in Budget
    BY TypeParts DEF WorldOK
  <1>2. SUFFICES ASSUME NEW e \in Emails
                 PROVE  copies'[e] + Load(e)' <= Trouble' + Allowance(e)'
    BY DEF CopiesAccounted
  <1>3. /\ copies[e] + Load(e) <= Trouble + Allowance(e)
        /\ copies[e] \in Nat /\ Load(e) \in Nat /\ Trouble \in Nat
        /\ Allowance(e) \in 0..1
    BY <1>1, LoadFinite DEF CopiesAccounted, RowsOK, Budget, Trouble, Allowance
  <1>4. work[w].step # "idle" /\ x \in Emails
    BY <1>1 DEF WorkOK, HandlerStep, Read, NoProvider, Deliver, Settle, Repair
  <1>5. CASE Read(w)
    <2>1. copies' = copies /\ Trouble' = Trouble /\ Allowance(e)' = Allowance(e)
      BY <1>5 DEF Read, Trouble, Allowance
    <2>2. Load(e)' \in Nat /\ Load(e)' <= Load(e)
      <3>1. CASE Return(w)
        BY <3>1, ReturnLoad
      <3>2. CASE UNCHANGED queueVars
        BY <1>1, <1>5, <3>2, GotoMoves, MovesLoad, ReturnLoad DEF Read, Told
      <3>3. QED
        BY <1>5, <3>1, <3>2 DEF Read
    <2>3. QED
      BY <1>3, <2>1, <2>2
  <1>6. CASE NoProvider(w) \/ Repair(w)
    <2>1. copies' = copies /\ Trouble' = Trouble /\ Return(w) /\ ~Told(w)
      BY <1>6 DEF NoProvider, Repair, Trouble, Told
    <2>2. /\ Load(e)' \in Nat /\ Load(e)' <= Load(e)
          /\ e = x => Load(e)' + 1 <= Load(e)
      BY <1>4, <2>1, ReturnLoad
    <2>3. /\ Allowance(e)' \in 0..1 /\ Allowance(e)' >= Allowance(e) - 1
          /\ e # x => Allowance(e)' = Allowance(e)
      BY <1>1, <1>4, <1>6, SettleAllowance DEF NoProvider, Repair, OUTBOUND_EMAIL_STATUS
    <2>4. QED
      BY <1>3, <2>1, <2>2, <2>3
  <1>7. CASE Deliver(w)
    <2>1. Allowance(e)' = Allowance(e) /\ ~Told(w)
      BY <1>7 DEF Deliver, Allowance, Told
    <2>2. ASSUME Outcome(w, "accepted"), UNCHANGED <<spent, queueVars>>,
                 copies' = [copies EXCEPT ![x] = @ + 1]
          PROVE  copies'[e] + Load(e)' <= Trouble' + Allowance(e)'
      <3>1. MovesOn(w, [work[w] EXCEPT !.step = "settle", !.result = "accepted"])
        BY <1>1, <1>7, <2>2, OutcomeMoves DEF Deliver, MAIL_OUTCOME
      <3>2. /\ Load(e)' \in Nat /\ Load(e)' <= Load(e)
            /\ e = x => Load(e)' + 1 <= Load(e)
        <4> DEFINE told == [work[w] EXCEPT !.step = "settle", !.result = "accepted"]
        <4>1. told.step = "settle" /\ told.result = "accepted"
          BY <1>1 DEF WorkOK, Work
        <4>2. MovesOn(w, told)
          BY <3>1
        <4> HIDE DEF told
        <4>3. QED
          BY <2>1, <4>1, <4>2, MovesLoad
      <3>3. copies'[e] = (IF e = x THEN copies[e] + 1 ELSE copies[e])
        BY <1>1, <2>2 DEF RowsOK
      <3>4. Trouble' = Trouble
        BY <2>2 DEF Trouble
      <3>5. QED
        BY <1>3, <2>1, <3>2, <3>3, <3>4
    <2>3. ASSUME NEW result \in {"rejected", "deferred"}, Outcome(w, result),
                 UNCHANGED queueVars
          PROVE  Load(e)' \in Nat /\ Load(e)' <= Load(e)
      <3>1. MovesOn(w, [work[w] EXCEPT !.step = "settle", !.result = result])
        BY <1>1, <1>7, <2>3, OutcomeMoves DEF Deliver, MAIL_OUTCOME
      <3>2. QED
        BY <2>1, <3>1, MovesLoad
    <2>4. CASE Throw(w) /\ UNCHANGED <<copies, spent>>
      <3>1. Load(e)' \in Nat /\ Load(e)' <= Load(e)
        BY <2>1, <2>4, ThrowLoad
      <3>2. QED
        BY <1>3, <2>1, <2>4, <3>1 DEF Trouble
    <2>5. CASE /\ \E result \in {"rejected", "deferred"} : Outcome(w, result)
               /\ UNCHANGED <<copies, spent, queueVars>>
      <3>1. Trouble' = Trouble /\ copies' = copies
        BY <2>5 DEF Trouble
      <3>2. QED
        BY <1>3, <2>1, <2>3, <2>5, <3>1
    <2>6. CASE /\ Spend("timeouts") /\ Outcome(w, "deferred")
               /\ copies' = [copies EXCEPT ![x] = @ + 1] /\ UNCHANGED queueVars
      <3>1. Trouble' = Trouble + 1
        BY <1>1, <2>6, SpendTrouble
      <3>2. copies'[e] = (IF e = x THEN copies[e] + 1 ELSE copies[e])
        BY <1>1, <2>6 DEF RowsOK
      <3>3. QED
        BY <1>3, <2>1, <2>3, <2>6, <3>1, <3>2
    <2>7. QED
      BY <1>7, <2>2, <2>4, <2>5, <2>6 DEF Deliver
  <1>8. CASE Settle(w)
    <2>1. copies' = copies /\ Trouble' = Trouble
      BY <1>8 DEF Settle, Trouble
    <2>2. CASE work[w].result = "accepted" /\ SettleAs(x, "sent") /\ Return(w)
      BY <1>1, <1>3, <1>4, <2>1, <2>2, ReturnLoad, SettleAllowance
      DEF OUTBOUND_EMAIL_STATUS
    <2>3. CASE work[w].result = "rejected" /\ SettleAs(x, "failed") /\ Return(w)
      <3>1. /\ Load(e)' \in Nat /\ Load(e)' <= Load(e)
            /\ e = x => Load(e)' + 1 <= Load(e)
        BY <1>4, <2>3, ReturnLoad DEF Told
      <3>2. /\ Allowance(e)' \in 0..1 /\ Allowance(e)' >= Allowance(e) - 1
            /\ e # x => Allowance(e)' = Allowance(e)
        BY <1>1, <1>4, <2>3, SettleAllowance DEF OUTBOUND_EMAIL_STATUS
      <3>3. QED
        BY <1>3, <2>1, <3>1, <3>2
    <2>4. CASE work[w].result = "deferred" /\ UNCHANGED status /\ Throw(w)
      BY <1>3, <2>1, <2>4, ThrowLoad DEF Told, Allowance
    <2>5. QED
      BY <1>8, <2>2, <2>3, <2>4 DEF Settle
  <1>9. QED
    BY <1>5, <1>6, <1>7, <1>8 DEF HandlerStep

(* Any other step: a death or an expiry costs no more than it adds to the  *)
(* trouble, a new job uses the allowance of a row that had none, and what  *)
(* happens to rows without a job being added only loosens.                 *)
LEMMA CrashCopies ==
  ASSUME TypeOK, Holding, CopiesAccounted, NEW w \in Handlers, Crash(w)
  PROVE  CopiesAccounted'
  <1>1. WorkOK /\ RowsOK /\ spent \in Budget
    BY TypeParts DEF WorldOK
  <1>2. SUFFICES ASSUME NEW e \in Emails
                 PROVE  copies'[e] + Load(e)' <= Trouble' + Allowance(e)'
    BY DEF CopiesAccounted
  <1>3. /\ copies[e] + Load(e) <= Trouble + Allowance(e)
        /\ copies[e] \in Nat /\ Trouble \in Nat /\ Allowance(e) \in 0..1
        /\ copies' = copies /\ Allowance(e)' = Allowance(e)
    BY <1>1 DEF CopiesAccounted, RowsOK, Budget, Trouble, Allowance, Crash
  <1>4. CASE work[w].step # "repair"
    <2>1. Trouble' = Trouble + 1
      BY <1>1, <1>4, SpendTrouble DEF Crash
    <2>2. QED
      BY <1>3, <2>1, CrashLoad
  <1>5. CASE work[w].step = "repair"
    <2>1. Trouble' = Trouble
      BY <1>1, <1>5, SpendTrouble DEF Crash
    <2>2. ~Told(w)
      BY <1>5 DEF Told
    <2>3. QED
      BY <1>3, <2>1, <2>2, ThrowLoad
  <1>6. QED
    BY <1>4, <1>5

LEMMA QueueCopies ==
  ASSUME TypeOK, Holding, CopiesAccounted, QueueStep
  PROVE  CopiesAccounted'
  <1>1. RowsOK /\ spent \in Budget
    BY TypeParts DEF WorldOK
  <1>2. SUFFICES ASSUME NEW e \in Emails
                 PROVE  copies'[e] + Load(e)' <= Trouble' + Allowance(e)'
    BY DEF CopiesAccounted
  <1>3. /\ copies[e] + Load(e) <= Trouble + Allowance(e)
        /\ copies[e] \in Nat /\ Trouble \in Nat /\ Allowance(e) \in 0..1
    BY <1>1 DEF CopiesAccounted, RowsOK, Budget, Trouble, Allowance
  <1>4. ASSUME NEW w \in Handlers, NEW j \in JobIds, Takes(w, j)
        PROVE  copies'[e] + Load(e)' <= Trouble' + Allowance(e)'
    <2>1. copies' = copies /\ Trouble' = Trouble /\ Allowance(e)' = Allowance(e)
      BY <1>4 DEF Takes, Start, StartRepair, Trouble, Allowance
    <2>2. QED
      BY <1>3, <1>4, <2>1, TakesLoad
  <1>5. ASSUME NEW j \in JobIds, ExpireOrphan(j)
        PROVE  copies'[e] + Load(e)' <= Trouble' + Allowance(e)'
    <2>1. copies' = copies /\ Trouble' = Trouble /\ Allowance(e)' = Allowance(e)
      BY <1>5 DEF ExpireOrphan, Trouble, Allowance
    <2>2. Expires(j) /\ ~Queue!HasHandler(j)
      BY <1>5 DEF ExpireOrphan, Expires
    <2>3. QED
      BY <1>3, <2>1, <2>2, ExpiresLoad
  <1>6. ASSUME NEW j \in JobIds, ExpireStalled(j)
        PROVE  copies'[e] + Load(e)' <= Trouble' + Allowance(e)'
    <2>1. copies' = copies /\ Allowance(e)' = Allowance(e) /\ Expires(j)
      BY <1>6 DEF ExpireStalled, Allowance, Expires
    <2>2. Trouble' = Trouble + 1
      BY <1>1, <1>6, SpendTrouble DEF ExpireStalled
    <2>3. QED
      BY <1>3, <2>1, <2>2, ExpiresLoad
  <1>7. QED
    BY <1>4, <1>5, <1>6 DEF QueueStep, Takes

LEMMA EmailCopies ==
  ASSUME TypeOK, Holding, CopiesAccounted, NEW x \in Emails, EmailStep(x)
  PROVE  CopiesAccounted'
  <1>1. RowsOK /\ spent \in Budget
    BY TypeParts DEF WorldOK
  <1>2. SUFFICES ASSUME NEW e \in Emails
                 PROVE  copies'[e] + Load(e)' <= Trouble' + Allowance(e)'
    BY DEF CopiesAccounted
  <1>3. /\ copies[e] + Load(e) <= Trouble + Allowance(e)
        /\ copies[e] \in Nat /\ Load(e) \in Nat
        /\ Trouble \in Nat /\ Allowance(e) \in 0..1
    BY <1>1, LoadFinite DEF CopiesAccounted, RowsOK, Budget, Trouble, Allowance
  <1>4. CASE Adds(x)
    <2>1. copies' = copies /\ Trouble' = Trouble
      BY <1>1, <1>4, SpendTrouble DEF Adds, EnqueueEmail, Retry, Trouble
    <2>2. /\ e = x => Allowance(e)' = Allowance(e) + 1
          /\ e # x => Allowance(e)' = Allowance(e)
      BY <1>1, <1>4 DEF Adds, EnqueueEmail, Retry, Allowance, RowsOK,
                        RETRYABLE_STATUS
    <2>3. QED
      BY <1>3, <1>4, <2>1, <2>2, AddsLoad
  <1>5. CASE WithholdEmail(x) \/ Ages(x) \/ TicketGoes(x)
    <2>1. copies' = copies /\ Trouble' = Trouble /\ Load(e)' = Load(e)
      BY <1>5, LoadSame DEF WithholdEmail, Ages, TicketGoes, Trouble, queueVars
    <2>2. Allowance(e)' \in 0..1 /\ Allowance(e)' >= Allowance(e)
      BY <1>1, <1>5 DEF WithholdEmail, Ages, TicketGoes, Allowance, RowsOK
    <2>3. QED
      BY <1>3, <2>1, <2>2
  <1>6. QED
    BY <1>4, <1>5 DEF EmailStep, Adds

LEMMA SweepCopies ==
  ASSUME TypeOK, CopiesAccounted,
         PruneSelects \/ PruneDeletes \/ SwitchProvider \/ UNCHANGED vars
  PROVE  CopiesAccounted'
  <1>1. RowsOK /\ spent \in Budget
    BY TypeParts DEF WorldOK
  <1>2. SUFFICES ASSUME NEW e \in Emails
                 PROVE  copies'[e] + Load(e)' <= Trouble' + Allowance(e)'
    BY DEF CopiesAccounted
  <1>3. /\ copies[e] + Load(e) <= Trouble + Allowance(e)
        /\ copies[e] \in Nat /\ Load(e) \in Nat
        /\ Trouble \in Nat /\ Allowance(e) \in 0..1
    BY <1>1, LoadFinite DEF CopiesAccounted, RowsOK, Budget, Trouble, Allowance
  <1>4. copies' = copies /\ Trouble' = Trouble /\ Load(e)' = Load(e)
    BY LoadSame DEF PruneSelects, PruneDeletes, SwitchProvider, vars, Trouble,
                    queueVars
  <1>5. Allowance(e)' \in 0..1 /\ Allowance(e)' >= Allowance(e)
    BY <1>1 DEF PruneSelects, PruneDeletes, SwitchProvider, vars, Allowance, RowsOK
  <1>6. QED
    BY <1>3, <1>4, <1>5

LEMMA StepCopiesAccounted ==
  ASSUME TypeOK, Holding, CopiesAccounted, [Next]_vars
  PROVE  CopiesAccounted'
  BY HandlerCopies, CrashCopies, QueueCopies, EmailCopies, SweepCopies DEF Next

-----------------------------------------------------------------------------
(* The invariant.                                                          *)

OutboxInductive ==
    /\ TypeOK /\ Holding /\ RepairsHeld
    /\ DemoWithheld /\ Written /\ ToldTrue
    /\ QueuedHasJob /\ CopiesAccounted

LEMMA InitInductive == Init => OutboxInductive
  <1> SUFFICES ASSUME Init PROVE OutboxInductive
    OBVIOUS
  <1>1. TypeOK
    BY InitType
  <1>2. /\ \A w \in Handlers : held[w] = "none" /\ work[w].step = "idle"
        /\ \A j \in JobIds : jobs[j].state = "free"
        /\ \A e \in Emails : status[e] = "absent" /\ copies[e] = 0
    BY DEF Init, Queue!QueueInit, Queue!NoJob, Idle
  <1>3. Holding /\ RepairsHeld /\ Written /\ ToldTrue /\ QueuedHasJob
    BY <1>2 DEF Holding, RepairsHeld, Written, ToldTrue, Told, QueuedHasJob
  <1>4. DemoWithheld
    BY <1>2, OutboxAssumption DEF DemoWithheld
  <1>5. ASSUME NEW e \in Emails
        PROVE  copies[e] + Load(e) <= Trouble + Allowance(e)
    <2>1. LooseJobs(e) = {} /\ Strays(e) = {}
      BY <1>2 DEF LooseJobs, Strays
    <2>2. Load(e) = 0
      BY <2>1, FS_EmptySet DEF Load
    <2>3. copies[e] = 0 /\ Allowance(e) = 0 /\ Trouble = 0
      BY <1>2, <1>5 DEF Allowance, Trouble, Init
    <2>4. QED
      BY <2>2, <2>3
  <1>6. QED
    BY <1>1, <1>3, <1>4, <1>5 DEF OutboxInductive, CopiesAccounted

LEMMA StepInductive == OutboxInductive /\ [Next]_vars => OutboxInductive'
  <1> SUFFICES ASSUME OutboxInductive, [Next]_vars PROVE OutboxInductive'
    OBVIOUS
  <1>1. /\ TypeOK /\ Holding /\ RepairsHeld /\ DemoWithheld /\ Written
        /\ ToldTrue /\ QueuedHasJob /\ CopiesAccounted
    BY DEF OutboxInductive
  <1>2. TypeOK' /\ Holding' /\ RepairsHeld'
    BY <1>1, StepType, StepHolding, StepRepairsHeld
  <1>3. DemoWithheld'
    BY <1>1, WithheldStays DEF DemoWithheld
  <1>4. Written' /\ ToldTrue' /\ QueuedHasJob' /\ CopiesAccounted'
    BY <1>1, StepWritten, StepToldTrue, StepQueuedHasJob, StepCopiesAccounted
  <1>5. QED
    BY <1>2, <1>3, <1>4 DEF OutboxInductive

(* Nothing else in OutboxInductive bounds the copies.                      *)
LEMMA AccountedCopies == TypeOK /\ CopiesAccounted => DuplicatesNeedTrouble
  <1> SUFFICES ASSUME TypeOK, CopiesAccounted, NEW e \in Emails
               PROVE  copies[e] <= 1 + spent.crashes + spent.stalls + spent.timeouts
    BY DEF DuplicatesNeedTrouble
  <1>1. RowsOK /\ spent \in Budget
    BY TypeParts DEF WorldOK
  <1>2. copies[e] + Load(e) <= Trouble + Allowance(e)
    BY DEF CopiesAccounted
  <1>3. copies[e] \in Nat /\ Load(e) \in Nat /\ Allowance(e) \in 0..1
    BY <1>1, LoadFinite DEF RowsOK, Allowance
  <1>4. QED
    BY <1>1, <1>2, <1>3 DEF Trouble, Budget

LEMMA OutboxHolds == Spec => []OutboxInductive
  BY InitInductive, StepInductive, PTL DEF Spec

(* In every state of every run a queued row has its job, whatever crashes, *)
(* expires or is retried, and a customer's second copy has a death, a      *)
(* stall or a lost answer to show for it.                                  *)
THEOREM OutboxIsSound == Spec => []OutboxInvariant
  <1>1. OutboxInductive => OutboxInvariant
    BY AccountedCopies DEF OutboxInductive, OutboxInvariant
  <1>2. QED
    BY <1>1, OutboxHolds, PTL

-----------------------------------------------------------------------------
(* The promise.  Each step moves at most one email's standing, or hands    *)
(* one over, or is the sweep's.                                            *)

LEMMA MoveOne ==
  ASSUME NEW x \in Emails, NEW from, NEW to,
         Standing(x) \in from, Standing(x)' = to,
         \A e \in Emails : e # x => Standing(e)' = Standing(e),
         copies' = copies
  PROVE  Promised!Move(x, from, to)
  BY DEF Promised!Move

LEMMA RowMoves ==
  ASSUME RowsOK, NEW x \in Emails, NEW s, status' = [status EXCEPT ![x] = s]
  PROVE  /\ status'[x] = s
         /\ \A e \in Emails : e # x => Standing(e)' = Standing(e)
  BY DEF RowsOK, Standing

LEMMA PromiseStutters ==
  ASSUME UNCHANGED <<status, copies>>
  PROVE  [Promised!Next]_(Promised!absVars)
  BY DEF Promised!absVars, Standing

(* The worker's verdicts on the row of the email it works on.              *)
LEMMA SettlePromise ==
  ASSUME RowsOK, NEW x \in Emails, NEW s \in {"sent", "failed", "undeliverable"},
         SettleAs(x, s), copies' = copies, s = "sent" => copies[x] > 0
  PROVE  [Promised!Next]_(Promised!absVars)
  <1>1. CASE status[x] # "queued"
    BY <1>1, PromiseStutters DEF SettleAs
  <1>2. CASE status[x] = "queued"
    <2>1. /\ status'[x] = s /\ Standing(x) \in {"promised"}
          /\ \A e \in Emails : e # x => Standing(e)' = Standing(e)
      BY <1>2, RowMoves DEF SettleAs, Standing
    <2>2. Standing(x)' = (IF s = "sent" THEN "kept" ELSE "givenUp")
      BY <2>1 DEF Standing
    <2>3. CASE s = "sent"
      <3>1. Promised!Keep(x)
        BY <2>1, <2>2, <2>3, MoveOne DEF Promised!Keep
      <3>2. QED
        BY <3>1 DEF Promised!Next
    <2>4. CASE s # "sent"
      <3>1. Promised!GiveUp(x)
        BY <2>1, <2>2, <2>4, MoveOne DEF Promised!GiveUp
      <3>2. QED
        BY <3>1 DEF Promised!Next
    <2>5. QED
      BY <2>3, <2>4
  <1>3. QED
    BY <1>1, <1>2

LEMMA DeliverPromise ==
  ASSUME RowsOK, WorkOK, Written, NEW w \in Handlers, Deliver(w)
  PROVE  [Promised!Next]_(Promised!absVars)
  <1>0. PICK x \in Emails : x = work[w].email
    BY DEF WorkOK, Deliver
  <1>1. Meant(x) /\ status' = status
    BY <1>0 DEF Written, Deliver
  <1>2. CASE copies' = copies
    BY <1>1, <1>2, PromiseStutters
  <1>3. CASE copies' = [copies EXCEPT ![x] = @ + 1]
    <2>1. \A e \in Emails : copies'[e] = (IF e = x THEN copies[e] + 1 ELSE copies[e])
      BY <1>1, <1>3 DEF RowsOK
    <2>2. {e \in Emails : copies'[e] > 0} = {e \in Emails : copies[e] > 0} \cup {x}
      BY <1>1, <2>1 DEF RowsOK
    <2>3. Standing(x) # "unwritten" /\ \A e \in Emails : Standing(e)' = Standing(e)
      BY <1>1 DEF Standing, Meant
    <2>4. Promised!HandOver(x)
      <3>1. [e \in Emails |-> Standing(e)]' = [e \in Emails |-> Standing(e)]
        BY <2>3
      <3>2. [e \in Emails |-> Standing(e)][x] # "unwritten"
        BY <1>1, <2>3
      <3>3. QED
        BY <1>1, <2>2, <3>1, <3>2 DEF Promised!HandOver, Meant
    <2>5. QED
      BY <2>4 DEF Promised!Next
  <1>4. QED
    BY <1>0, <1>2, <1>3 DEF Deliver

LEMMA HandlerPromise ==
  ASSUME RowsOK, WorkOK, Written, ToldTrue, NEW w \in Handlers, HandlerStep(w)
  PROVE  [Promised!Next]_(Promised!absVars)
  <1>1. work[w].step # "idle" /\ work[w].email \in Emails
    BY DEF WorkOK, HandlerStep, Read, NoProvider, Deliver, Settle, Repair
  <1>2. CASE Read(w)
    BY <1>2, PromiseStutters DEF Read
  <1>3. CASE NoProvider(w) \/ Repair(w)
    BY <1>1, <1>3, SettlePromise DEF NoProvider, Repair
  <1>4. CASE Deliver(w)
    BY <1>4, DeliverPromise
  <1>5. CASE Settle(w)
    <2>1. CASE work[w].result = "accepted"
      BY <1>1, <1>5, <2>1, SettlePromise DEF Settle, ToldTrue, Told
    <2>2. CASE work[w].result = "rejected"
      BY <1>1, <1>5, <2>2, SettlePromise DEF Settle
    <2>3. CASE work[w].result = "deferred"
      BY <1>5, <2>3, PromiseStutters DEF Settle
    <2>4. QED
      BY <1>5, <2>1, <2>2, <2>3 DEF Settle
  <1>6. QED
    BY <1>2, <1>3, <1>4, <1>5 DEF HandlerStep

LEMMA EmailPromise ==
  ASSUME RowsOK, NEW x \in Emails, EmailStep(x)
  PROVE  [Promised!Next]_(Promised!absVars)
  <1>1. CASE EnqueueEmail(x)
    <2>1. Promised!Promise(x)
      <3>1. /\ Standing(x) \in {"unwritten"} /\ Standing(x)' = "promised"
            /\ \A e \in Emails : e # x => Standing(e)' = Standing(e)
        BY <1>1, RowMoves DEF EnqueueEmail, Standing
      <3>2. Promised!Move(x, {"unwritten"}, "promised")
        BY <1>1, <3>1, MoveOne DEF EnqueueEmail
      <3>3. QED
        BY <1>1, <3>2 DEF EnqueueEmail, Promised!Promise
    <2>2. QED
      BY <2>1 DEF Promised!Next
  <1>2. CASE WithholdEmail(x)
    <2>1. Promised!Withhold(x)
      <3>1. /\ Standing(x) \in {"unwritten"} /\ Standing(x)' = "withheld"
            /\ \A e \in Emails : e # x => Standing(e)' = Standing(e)
        BY <1>2, RowMoves DEF WithholdEmail, Standing
      <3>2. Promised!Move(x, {"unwritten"}, "withheld")
        BY <1>2, <3>1, MoveOne DEF WithholdEmail
      <3>3. QED
        BY <1>2, <3>2 DEF WithholdEmail, Promised!Withhold
    <2>2. QED
      BY <2>1 DEF Promised!Next
  <1>3. CASE Retry(x)
    <2>1. Promised!Revive(x)
      <3>1. /\ Standing(x) \in {"givenUp"} /\ Standing(x)' = "promised"
            /\ \A e \in Emails : e # x => Standing(e)' = Standing(e)
        <4>1. status[x] \in {"failed", "undeliverable"}
          BY <1>3 DEF Retry, RETRYABLE_STATUS
        <4>2. status'[x] = "queued" /\ \A e \in Emails : e # x => Standing(e)' = Standing(e)
          BY <1>3, RowMoves DEF Retry
        <4>3. QED
          BY <4>1, <4>2 DEF Standing
      <3>2. Promised!Move(x, {"givenUp"}, "promised")
        BY <1>3, <3>1, MoveOne DEF Retry
      <3>3. QED
        BY <1>3, <3>2 DEF Retry, Promised!Revive
    <2>2. QED
      BY <2>1 DEF Promised!Next
  <1>4. CASE Ages(x)
    BY <1>4, PromiseStutters DEF Ages
  <1>5. CASE TicketGoes(x)
    <2>1. /\ status'[x] = "gone" /\ copies' = copies /\ x \in TicketEmails
          /\ \A e \in Emails : e # x => Standing(e)' = Standing(e)
      BY <1>5, RowMoves DEF TicketGoes
    <2>2. /\ Standing(x) \in {"promised", "kept", "givenUp", "withheld"}
          /\ Standing(x)' = "gone"
      BY <1>5, <2>1 DEF TicketGoes, Standing, RowsOK, OUTBOUND_EMAIL_STATUS
    <2>3. Promised!Drop(x)
      BY <2>1, <2>2, MoveOne DEF Promised!Drop
    <2>4. QED
      BY <2>3 DEF Promised!Next
  <1>6. QED
    BY <1>1, <1>2, <1>3, <1>4, <1>5 DEF EmailStep

LEMMA SweepPromise ==
  ASSUME RowsOK, PruneDeletes
  PROVE  [Promised!Next]_(Promised!absVars)
  <1> DEFINE S == {e \in Emails : e \in doomed /\ status[e] \in PRUNABLE_STATUS}
  <1>1. \A e \in Emails : Standing(e)' = (IF e \in S THEN "gone" ELSE Standing(e))
    BY DEF PruneDeletes, Standing
  <1>2. \A e \in S : Standing(e) \in {"kept", "givenUp", "withheld"}
    BY DEF Standing, PRUNABLE_STATUS
  <1>3. S \in SUBSET {e \in Emails :
                       [x \in Emails |-> Standing(x)][e] \in {"kept", "givenUp", "withheld"}}
    BY <1>2
  <1>4. [e \in Emails |-> Standing(e)]'
           = [e \in Emails |-> IF e \in S THEN "gone"
                               ELSE [x \in Emails |-> Standing(x)][e]]
    BY <1>1
  <1>5. UNCHANGED {e \in Emails : copies[e] > 0}
    BY DEF PruneDeletes
  <1>6. Promised!Discard
    BY <1>3, <1>4, <1>5, Zenon DEF Promised!Discard
  <1>7. QED
    BY <1>6 DEF Promised!Next

LEMMA StepPromise ==
  ASSUME OutboxInductive, [Next]_vars
  PROVE  [Promised!Next]_(Promised!absVars)
  <1>1. RowsOK /\ WorkOK /\ Written /\ ToldTrue
    BY TypeParts DEF OutboxInductive
  <1>2. CASE UNCHANGED <<status, copies>>
    BY <1>2, PromiseStutters
  <1>3. QED
    BY <1>1, <1>2, HandlerPromise, EmailPromise, SweepPromise
    DEF Next, QueueStep, Start, StartRepair, ExpireOrphan, ExpireStalled, Crash,
        PruneSelects, SwitchProvider, vars

(* The worker, the retries and the sweep together keep the promise: mail   *)
(* called sent was taken, a settled row comes back only through an admin,  *)
(* nothing still owed is thrown away, and demo mail reaches no provider.   *)
THEOREM MailPromiseKept == Spec => KeepsMailPromise
  <1>1. Init => Promised!Init
    BY DEF Init, Promised!Init, Standing
  <1>2. OutboxInductive /\ [Next]_vars => [Promised!Next]_(Promised!absVars)
    BY StepPromise
  <1>3. QED
    BY <1>1, <1>2, OutboxHolds, PTL DEF Spec, KeepsMailPromise, Promised!Spec
=============================================================================
