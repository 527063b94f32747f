-------------------------- MODULE AutoReplyProofs --------------------------
(***************************************************************************)
(* Proofs about AutoReply, for any number of tickets, handlers, jobs and   *)
(* agents and whatever the bounds.                                         *)
(***************************************************************************)
EXTENDS Pipeline, FiniteSetTheorems, TLAPS

-----------------------------------------------------------------------------
(* The gates: what letting a ticket through says about it.                 *)

LEMMA GateReason ==
  ASSUME NEW category, NEW hasOutbound \in BOOLEAN, NEW inboundCount \in Nat
  PROVE  GateDecline(category, hasOutbound, inboundCount)
            \in GateReasons \cup {"none"}
  BY DEF GateDecline, GateReasons

(* `gateDecline` lets only an opening through, in an answerable category.  *)
LEMMA GatePassesOpenings ==
  ASSUME NEW category, NEW hasOutbound \in BOOLEAN, NEW inboundCount \in Nat,
         GateDecline(category, hasOutbound, inboundCount) = "none"
  PROVE  category \in ANSWERABLE_CATEGORIES /\ ~hasOutbound /\ inboundCount = 1
  BY DEF GateDecline

-----------------------------------------------------------------------------
(* Types.  The queue's operations keep its own type.                       *)

LEMMA NextAttemptType ==
  ASSUME NEW job \in Queue!Job, job.item \in Tickets
  PROVE  /\ Queue!AfterFailure(job) \in Queue!Job
         /\ Queue!AfterFailure(job).state # "free" =>
               Queue!AfterFailure(job).item \in Tickets
  <1>1. CASE job.state = "active" /\ job.tries < RetryLimit
    BY <1>1, ConstantsAssumption
    DEF Queue!AfterFailure, Queue!NextAttempt, Queue!Job, Queue!JobStates
  <1>2. CASE job.state = "active" /\ ~(job.tries < RetryLimit)
    BY <1>2, ConstantsAssumption
    DEF Queue!AfterFailure, Queue!NextAttempt, Queue!Job, Queue!JobStates
  <1>3. CASE job.state # "active"
    BY <1>3, ConstantsAssumption
    DEF Queue!AfterFailure, Queue!NoJob, Queue!Job, Queue!JobStates
  <1>4. QED
    BY <1>1, <1>2, <1>3

LEMMA FreeStaysFree ==
  ASSUME NEW job \in Queue!Job, job.state = "free"
  PROVE  Queue!AfterFailure(job) = Queue!NoJob /\ Queue!NoJob \in Queue!Job
         /\ Queue!NoJob.state = "free"
  BY ConstantsAssumption
  DEF Queue!AfterFailure, Queue!NoJob, Queue!Job, Queue!JobStates

(* The rows of the queue, typed.                                           *)
QueueOK ==
    /\ Queue!QueueTypeOK
    /\ \A j \in JobIds : jobs[j].state # "free" => jobs[j].item \in Tickets

LEMMA SendType ==
  ASSUME QueueOK, NEW x \in Tickets, Queue!Send(x), UNCHANGED held
  PROVE  QueueOK'
  BY ConstantsAssumption
  DEF QueueOK, Queue!QueueTypeOK, Queue!Send, Queue!Job, Queue!JobStates

LEMMA FetchType ==
  ASSUME QueueOK, NEW w \in Handlers, NEW j \in JobIds,
         Queue!Fetch(w, j) \/ Queue!FetchDead(w, j)
  PROVE  QueueOK' /\ jobs[j].item \in Tickets
  BY DEF QueueOK, Queue!QueueTypeOK, Queue!Fetch, Queue!FetchDead, Queue!Job,
         Queue!JobStates

LEMMA ReportType ==
  ASSUME QueueOK, NEW w \in Handlers,
         Queue!Complete(w) \/ Queue!Fail(w) \/ Queue!Abandon(w)
  PROVE  QueueOK'
  <1>1. held' \in [Handlers -> JobIds \cup {"none"}]
    BY DEF QueueOK, Queue!QueueTypeOK, Queue!Complete, Queue!Fail,
           Queue!Abandon
  <1>2. CASE held[w] = "none" \/ Queue!Abandon(w)
    BY <1>1, <1>2 DEF QueueOK, Queue!QueueTypeOK, Queue!Complete, Queue!Fail,
                      Queue!Abandon
  <1>3. CASE held[w] # "none" /\ Queue!Complete(w)
    BY <1>1, <1>3, ConstantsAssumption
    DEF QueueOK, Queue!QueueTypeOK, Queue!Complete, Queue!NoJob, Queue!Job,
        Queue!JobStates
  <1>4. CASE held[w] # "none" /\ Queue!Fail(w)
    <2>1. held[w] \in JobIds /\ jobs[held[w]] \in Queue!Job
      BY <1>4 DEF QueueOK, Queue!QueueTypeOK
    <2>2. /\ Queue!AfterFailure(jobs[held[w]]) \in Queue!Job
          /\ Queue!AfterFailure(jobs[held[w]]).state # "free" =>
                Queue!AfterFailure(jobs[held[w]]).item \in Tickets
      BY <2>1, NextAttemptType, FreeStaysFree DEF QueueOK
    <2>3. QED
      BY <1>1, <1>4, <2>1, <2>2 DEF QueueOK, Queue!QueueTypeOK, Queue!Fail
  <1>5. QED
    BY <1>2, <1>3, <1>4

LEMMA ExpireType ==
  ASSUME QueueOK, NEW j \in JobIds, Queue!Expire(j)
  PROVE  QueueOK'
  <1>1. jobs[j] \in Queue!Job /\ jobs[j].item \in Tickets
    BY DEF QueueOK, Queue!QueueTypeOK, Queue!Expire
  <1>2. /\ Queue!AfterFailure(jobs[j]) \in Queue!Job
        /\ Queue!AfterFailure(jobs[j]).state # "free" =>
              Queue!AfterFailure(jobs[j]).item \in Tickets
    BY <1>1, NextAttemptType
  <1>3. QED
    BY <1>2 DEF QueueOK, Queue!QueueTypeOK, Queue!Expire

-----------------------------------------------------------------------------
(* The other variables, typed.                                             *)
WorkOK ==
    /\ work \in [Handlers -> Work]
    /\ \A w \in Handlers : work[w].step # "idle" => work[w].ticket \in Tickets

WorldOK ==
    /\ trail \in [Tickets -> Seq(Entry)]
    /\ filing \in [Tickets -> {"unread", "filed", "done"}]
    /\ reopening \in [Tickets -> {"no", "log", "reroute", "tell"}]
    /\ stuck \in SUBSET Tickets
    /\ requeue \in Tickets \cup {"none"}
    /\ enabled \in BOOLEAN
    /\ old \in SUBSET Tickets

RowsOK == rows \in [Tickets -> Row] /\ thread \in [Tickets -> Thread]

LEMMA TypeParts ==
  TypeOK <=> RowsOK /\ WorldOK /\ WorkOK /\ QueueOK /\ spent \in Budget
  BY DEF TypeOK, RowsOK, WorldOK, WorkOK, QueueOK

LEMMA IdleType ==
  ASSUME WorkOK, NEW w \in Handlers, work' = [work EXCEPT ![w] = Idle]
  PROVE  WorkOK'
  <1>1. Idle \in Work /\ Idle.step = "idle"
    BY DEF Work, Idle, Step
  <1>2. work' \in [Handlers -> Work]
    BY <1>1 DEF WorkOK
  <1>3. \A v \in Handlers : v # w => work'[v] = work[v]
    BY DEF WorkOK
  <1>4. work'[w].step = "idle"
    BY <1>1 DEF WorkOK
  <1>5. ASSUME NEW v \in Handlers, work'[v].step # "idle"
        PROVE  work'[v].ticket \in Tickets
    BY <1>3, <1>4, <1>5 DEF WorkOK
  <1>6. QED
    BY <1>2, <1>5 DEF WorkOK

LEMMA GotoType ==
  ASSUME WorkOK, NEW w \in Handlers, work[w].step # "idle",
         NEW step \in Step, Goto(w, step)
  PROVE  WorkOK'
  BY DEF WorkOK, Work, Goto

LEMMA GiveBackType ==
  ASSUME WorkOK, NEW w \in Handlers, work[w].step # "idle",
         NEW reason \in AUTO_REPLY_DECLINE \cup {"none"}, GiveBack(w, reason)
  PROVE  WorkOK'
  <1> DEFINE handed == [work[w] EXCEPT !.step = "release", !.reason = reason]
  <1>1. work' = [work EXCEPT ![w] = handed]
    BY DEF WorkOK, Work, GiveBack
  <1>2. handed \in Work /\ handed.ticket = work[w].ticket
    BY DEF WorkOK, Work, Step
  <1>3. work' \in [Handlers -> Work]
    BY <1>1, <1>2 DEF WorkOK
  <1>4. ASSUME NEW v \in Handlers, work'[v].step # "idle"
        PROVE  work'[v].ticket \in Tickets
    <2>1. CASE v = w
      BY <1>1, <1>2, <2>1 DEF WorkOK
    <2>2. CASE v # w
      BY <1>1, <1>4, <2>2 DEF WorkOK
    <2>3. QED
      BY <2>1, <2>2
  <1>5. QED
    BY <1>3, <1>4 DEF WorkOK

LEMMA DeclineForType ==
  ASSUME RowsOK, NEW t \in Tickets
  PROVE  /\ DeclineFor(t) \in AUTO_REPLY_DECLINE \cup {"none"}
         /\ DeclineFor(t) = "none" =>
               /\ rows[t].category \in ANSWERABLE_CATEGORIES
               /\ ~HasOutbound(t)
               /\ thread[t].inbound = 1
  <1>1. thread[t].inbound \in Nat
    BY DEF RowsOK, Thread
  <1>2. HasOutbound(t) \in BOOLEAN
    BY DEF HasOutbound
  <1>3. QED
    BY <1>1, <1>2, GateReason, GatePassesOpenings
    DEF DeclineFor, AUTO_REPLY_DECLINE

LEMMA SpendType ==
  ASSUME spent \in Budget,
         NEW what \in {"edits", "failures", "crashes", "sweeps", "stalls"},
         Spend(what)
  PROVE  spent' \in Budget
  BY DEF Budget, Spend

LEMMA RecordType ==
  ASSUME trail \in [Tickets -> Seq(Entry)], NEW t \in Tickets,
         NEW entry \in Entry, Record(t, entry)
  PROVE  trail' \in [Tickets -> Seq(Entry)]
  BY DEF Record

-----------------------------------------------------------------------------
(* Type correctness: what each group of actions does to the variables it   *)
(* writes.                                                                 *)

LEMMA HandlerStepType ==
  ASSUME TypeOK, NEW w \in Handlers, HandlerStep(w)
  PROVE  TypeOK'
  <1> DEFINE t == work[w].ticket
  <1>1. RowsOK /\ WorldOK /\ WorkOK /\ QueueOK /\ spent \in Budget
    BY TypeParts
  <1>2. SUFFICES RowsOK' /\ WorldOK' /\ WorkOK' /\ QueueOK' /\ spent' \in Budget
    BY DEF TypeOK, RowsOK, WorldOK, WorkOK, QueueOK
  <1>3. work[w].step # "idle" => t \in Tickets
    BY <1>1 DEF WorkOK
  <1>4. CASE Claim(w)
    <2>1. t \in Tickets
      BY <1>3, <1>4 DEF Claim
    <2>2. RowsOK'
      BY <1>1, <1>4, <2>1 DEF RowsOK, Claim, Row, TICKET_STATUS
    <2>3. WorldOK' /\ spent' \in Budget
      BY <1>1, <1>4 DEF WorldOK, Claim, worldVars, sweepVars
    <2>4. WorkOK'
      BY <1>1, <1>4, IdleType, GotoType DEF Claim, Return, Step
    <2>5. QueueOK'
      BY <1>1, <1>4, ReportType
      DEF Claim, Return, queueVars, QueueOK, Queue!QueueTypeOK
    <2>6. QED
      BY <2>2, <2>3, <2>4, <2>5
  <1>5. CASE Read(w)
    <2>1. t \in Tickets
      BY <1>3, <1>5 DEF Read
    <2>2. RowsOK' /\ WorldOK' /\ spent' \in Budget /\ QueueOK'
      BY <1>1, <1>5
      DEF Read, RowsOK, WorldOK, QueueOK, Queue!QueueTypeOK, ticketVars,
          worldVars, sweepVars, queueVars
    <2>3. CASE DeclineFor(t) # "none"
      BY <1>1, <1>5, <2>1, <2>2, <2>3, GiveBackType, DeclineForType DEF Read
    <2>4. CASE DeclineFor(t) = "none"
      <3>1. rows[t].lastMessageAt \in Nat /\ rows[t].category \in Categories \cup {"none"}
        BY <1>1, <2>1 DEF RowsOK, Row
      <3>2. WorkOK'
        BY <1>1, <1>5, <2>1, <2>4, <3>1 DEF Read, WorkOK, Work, Step
      <3>3. QED
        BY <2>2, <3>2
    <2>5. QED
      BY <2>3, <2>4
  <1>6. CASE Ask(w)
    <2>1. RowsOK' /\ WorldOK' /\ QueueOK'
      BY <1>1, <1>6
      DEF Ask, RowsOK, WorldOK, QueueOK, Queue!QueueTypeOK, ticketVars,
          worldVars, sweepVars, queueVars
    <2>2. spent' \in Budget
      BY <1>1, <1>6, SpendType DEF Ask
    <2>3. WorkOK'
      <3>1. \A reason \in Verdicts : reason \in AUTO_REPLY_DECLINE \cup {"none"}
        BY ConstantsAssumption DEF AUTO_REPLY_DECLINE
      <3>2. QED
        BY <1>1, <1>6, <3>1, GotoType, GiveBackType DEF Ask, Step
    <2>4. QED
      BY <2>1, <2>2, <2>3
  <1>7. CASE Recheck(w)
    <2>1. t \in Tickets
      BY <1>3, <1>7 DEF Recheck
    <2>2. RowsOK' /\ WorldOK' /\ spent' \in Budget /\ QueueOK'
      BY <1>1, <1>7
      DEF Recheck, RowsOK, WorldOK, QueueOK, Queue!QueueTypeOK, ticketVars,
          worldVars, sweepVars, queueVars
    <2>3. WorkOK'
      BY <1>1, <1>7, <2>1, GotoType, GiveBackType, DeclineForType
      DEF Recheck, Step
    <2>4. QED
      BY <2>2, <2>3
  <1>8. CASE Resolve(w)
    <2>1. t \in Tickets
      BY <1>3, <1>8 DEF Resolve
    <2>2. RowsOK'
      <3>1. CASE StillOurs(w)
        <4>1. thread' \in [Tickets -> Thread]
          BY <1>1, <1>8, <2>1, <3>1 DEF Resolve, RowsOK, Thread
        <4>2. rows' \in [Tickets -> Row]
          BY <1>1, <1>8, <2>1, <3>1 DEF Resolve, RowsOK, Row, TICKET_STATUS
        <4>3. QED
          BY <4>1, <4>2 DEF RowsOK
      <3>2. CASE ~StillOurs(w)
        BY <1>1, <1>8, <3>2 DEF Resolve, RowsOK
      <3>3. QED
        BY <3>1, <3>2
    <2>3. WorldOK' /\ spent' \in Budget /\ QueueOK'
      BY <1>1, <1>8
      DEF Resolve, WorldOK, QueueOK, Queue!QueueTypeOK, worldVars, sweepVars,
          queueVars
    <2>4. WorkOK'
      BY <1>1, <1>8, GotoType DEF Resolve, Step
    <2>5. QED
      BY <2>2, <2>3, <2>4
  <1>9. CASE Reread(w)
    <2>1. t \in Tickets
      BY <1>3, <1>9 DEF Reread
    <2>2. RowsOK' /\ WorldOK' /\ spent' \in Budget
      BY <1>1, <1>9
      DEF Reread, RowsOK, WorldOK, ticketVars, worldVars, sweepVars
    <2>3. QueueOK'
      BY <1>1, <1>9, ReportType
      DEF Reread, Return, queueVars, QueueOK, Queue!QueueTypeOK
    <2>4. WorkOK'
      <3>1. (IF DeclineFor(t) = "none" THEN "followUp" ELSE DeclineFor(t))
               \in AUTO_REPLY_DECLINE \cup {"none"}
        BY <1>1, <2>1, DeclineForType DEF AUTO_REPLY_DECLINE, GateReasons
      <3>2. QED
        BY <1>1, <1>9, <3>1, IdleType, GiveBackType DEF Reread, Return
    <2>5. QED
      BY <2>2, <2>3, <2>4
  <1>10. CASE File(w) \/ Handoff(w)
    <2>1. t \in Tickets
      BY <1>3, <1>10 DEF File, Handoff
    <2>2. RowsOK'
      BY <1>1, <1>10, <2>1, ConstantsAssumption
      DEF File, Handoff, AssignIfUnowned, RowsOK, Row
    <2>3. WorldOK' /\ spent' \in Budget /\ QueueOK'
      BY <1>1, <1>10
      DEF File, Handoff, WorldOK, QueueOK, Queue!QueueTypeOK, worldVars,
          sweepVars, queueVars
    <2>4. WorkOK'
      BY <1>1, <1>10, GotoType DEF File, Handoff, Step
    <2>5. QED
      BY <2>2, <2>3, <2>4
  <1>11. CASE LogResolved(w) \/ LogDeclined(w)
    <2>1. t \in Tickets
      BY <1>3, <1>11 DEF LogResolved, LogDeclined
    <2>2. RowsOK' /\ spent' \in Budget
      BY <1>1, <1>11 DEF LogResolved, LogDeclined, RowsOK
    <2>3. WorldOK'
      BY <1>1, <1>11, <2>1, RecordType
      DEF LogResolved, LogDeclined, WorldOK, worldVars, sweepVars, Entry
    <2>4. QueueOK' /\ WorkOK'
      BY <1>1, <1>11, ReportType, IdleType DEF LogResolved, LogDeclined, Return
    <2>5. QED
      BY <2>2, <2>3, <2>4
  <1>12. CASE Release(w)
    <2>1. t \in Tickets
      BY <1>3, <1>12 DEF Release
    <2>2. work[w].reason \in AUTO_REPLY_DECLINE \cup {"none"}
      BY <1>1 DEF WorkOK, Work
    <2>3. RowsOK'
      BY <1>1, <1>12, <2>1, <2>2 DEF Release, RowsOK, Row, TICKET_STATUS
    <2>4. WorldOK' /\ spent' \in Budget
      BY <1>1, <1>12 DEF Release, WorldOK, worldVars, sweepVars
    <2>5. QueueOK'
      BY <1>1, <1>12, ReportType
      DEF Release, Return, Throw, queueVars, QueueOK, Queue!QueueTypeOK
    <2>6. WorkOK'
      BY <1>1, <1>12, IdleType, GotoType DEF Release, Return, Throw, Step
    <2>7. QED
      BY <2>3, <2>4, <2>5, <2>6
  <1>13. QED
    BY <1>4, <1>5, <1>6, <1>7, <1>8, <1>9, <1>10, <1>11, <1>12 DEF HandlerStep

LEMMA QueueStepType ==
  ASSUME TypeOK, QueueStep
  PROVE  TypeOK'
  <1>1. RowsOK /\ WorldOK /\ WorkOK /\ QueueOK /\ spent \in Budget
    BY TypeParts
  <1>2. SUFFICES RowsOK' /\ WorldOK' /\ WorkOK' /\ QueueOK' /\ spent' \in Budget
    BY DEF TypeOK, RowsOK, WorldOK, WorkOK, QueueOK
  <1>3. ASSUME NEW w \in Handlers, NEW j \in JobIds,
               Start(w, j) \/ StartRepair(w, j)
        PROVE  RowsOK' /\ WorldOK' /\ WorkOK' /\ QueueOK' /\ spent' \in Budget
    <2>1. RowsOK' /\ WorldOK' /\ spent' \in Budget
      BY <1>1, <1>3
      DEF Start, StartRepair, RowsOK, WorldOK, ticketVars, worldVars, sweepVars
    <2>2. QueueOK' /\ jobs[j].item \in Tickets
      BY <1>1, <1>3, FetchType DEF Start, StartRepair
    <2>3. WorkOK'
      <3>1. CASE Start(w, j)
        BY <1>1, <2>2, <3>1 DEF Start, WorkOK, Work, Idle, Step
      <3>2. CASE StartRepair(w, j)
        BY <1>1, <2>2, <3>2
        DEF StartRepair, WorkOK, Work, Idle, Step, AUTO_REPLY_DECLINE,
            ModelReasons
      <3>3. QED
        BY <1>3, <3>1, <3>2
    <2>4. QED
      BY <2>1, <2>2, <2>3
  <1>4. ASSUME NEW j \in JobIds, ExpireOrphan(j) \/ ExpireStalled(j)
        PROVE  RowsOK' /\ WorldOK' /\ WorkOK' /\ QueueOK' /\ spent' \in Budget
    <2>1. RowsOK' /\ WorldOK' /\ WorkOK'
      BY <1>1, <1>4
      DEF ExpireOrphan, ExpireStalled, RowsOK, WorldOK, WorkOK, ticketVars,
          worldVars, sweepVars
    <2>2. QueueOK'
      BY <1>1, <1>4, ExpireType DEF ExpireOrphan, ExpireStalled
    <2>3. spent' \in Budget
      BY <1>1, <1>4, SpendType DEF ExpireOrphan, ExpireStalled
    <2>4. QED
      BY <2>1, <2>2, <2>3
  <1>5. QED
    BY <1>3, <1>4 DEF QueueStep

LEMMA CrashType ==
  ASSUME TypeOK, NEW w \in Handlers, Crash(w)
  PROVE  TypeOK'
  <1>1. RowsOK /\ WorldOK /\ WorkOK /\ QueueOK /\ spent \in Budget
    BY TypeParts
  <1>2. RowsOK' /\ WorldOK'
    BY <1>1 DEF Crash, RowsOK, WorldOK, ticketVars, worldVars, sweepVars
  <1>3. WorkOK' /\ QueueOK'
    BY <1>1, IdleType, ReportType DEF Crash
  <1>4. spent' \in Budget
    BY <1>1, SpendType DEF Crash
  <1>5. QED
    BY <1>2, <1>3, <1>4 DEF TypeOK, RowsOK, WorldOK, WorkOK, QueueOK

LEMMA EnqueueType ==
  ASSUME RowsOK, QueueOK, NEW t \in Tickets, EnqueueAutoReply(t),
         UNCHANGED <<thread, held>>
  PROVE  RowsOK' /\ QueueOK'
  <1>1. RowsOK'
    <2>1. CASE enabled
      <3>1. rows' = [rows EXCEPT ![t].offered = TRUE] /\ thread' = thread
        BY <2>1, Zenon DEF EnqueueAutoReply
      <3>2. QED
        BY <3>1 DEF RowsOK, Row
    <2>2. CASE ~enabled
      BY <2>2 DEF EnqueueAutoReply, RowsOK
    <2>3. QED
      BY <2>1, <2>2
  <1>2. QueueOK'
    BY SendType DEF EnqueueAutoReply, QueueOK, Queue!QueueTypeOK
  <1>3. QED
    BY <1>1, <1>2

LEMMA SweepStepType ==
  ASSUME TypeOK, SweepStep
  PROVE  TypeOK'
  <1>1. RowsOK /\ WorldOK /\ WorkOK /\ QueueOK /\ spent \in Budget
    BY TypeParts
  <1>2. SUFFICES RowsOK' /\ WorldOK' /\ WorkOK' /\ QueueOK' /\ spent' \in Budget
    BY DEF TypeOK, RowsOK, WorldOK, WorkOK, QueueOK
  <1>3. WorkOK'
    BY <1>1 DEF SweepStep, SweepReads, SweepReleases, SweepEnqueues, SweepDies,
                WorkOK
  <1>4. spent' \in Budget
    BY <1>1, SpendType
    DEF SweepStep, SweepReads, SweepReleases, SweepEnqueues, SweepDies
  <1>5. CASE SweepReads
    BY <1>1, <1>3, <1>4, <1>5
    DEF SweepReads, Abandoned, Stallable, RowsOK, WorldOK, QueueOK,
        Queue!QueueTypeOK, ticketVars, worldVars, queueVars
  <1>6. CASE SweepReleases
    <2>1. PICK t \in stuck :
             rows' = IF rows[t].status = "Processing"
                     THEN [rows EXCEPT ![t].status = "New"] ELSE rows
      BY <1>6 DEF SweepReleases
    <2>2. t \in Tickets /\ thread' = thread
      BY <1>1, <1>6 DEF SweepReleases, WorldOK
    <2>3. RowsOK'
      BY <1>1, <2>1, <2>2 DEF RowsOK, Row, TICKET_STATUS
    <2>4. WorldOK' /\ QueueOK'
      BY <1>1, <1>6
      DEF SweepReleases, WorldOK, QueueOK, Queue!QueueTypeOK, worldVars,
          queueVars
    <2>5. QED
      BY <1>3, <1>4, <2>3, <2>4
  <1>7. CASE SweepEnqueues
    <2>1. requeue \in Tickets
      BY <1>1, <1>7 DEF SweepEnqueues, WorldOK
    <2>2. RowsOK' /\ QueueOK'
      BY <1>1, <1>7, <2>1, EnqueueType DEF SweepEnqueues
    <2>3. WorldOK'
      BY <1>1, <1>7 DEF SweepEnqueues, WorldOK, worldVars
    <2>4. QED
      BY <1>3, <1>4, <2>2, <2>3
  <1>8. CASE SweepDies
    BY <1>1, <1>3, <1>4, <1>8
    DEF SweepDies, RowsOK, WorldOK, QueueOK, Queue!QueueTypeOK, ticketVars,
        worldVars, queueVars
  <1>9. QED
    BY <1>5, <1>6, <1>7, <1>8 DEF SweepStep

LEMMA TicketStepType ==
  ASSUME TypeOK, NEW t \in Tickets, TicketStep(t)
  PROVE  TypeOK'
  <1>1. RowsOK /\ WorldOK /\ WorkOK /\ QueueOK /\ spent \in Budget
    BY TypeParts
  <1>2. SUFFICES RowsOK' /\ WorldOK' /\ WorkOK' /\ QueueOK' /\ spent' \in Budget
    BY DEF TypeOK, RowsOK, WorldOK, WorkOK, QueueOK
  <1>3. WorkOK'
    BY <1>1
    DEF TicketStep, ClassifierFiles, ClassifierOffers, CustomerReplies,
        ReopenLogs, ReopenTells, ReopenReroutes, ReopenDies, AgentAssigns,
        AgentMoves,
        AgentFiles, AgentReplies, Edit, Ages, WorkOK
  <1>4. spent' \in Budget
    BY <1>1, SpendType
    DEF TicketStep, ClassifierFiles, ClassifierOffers, CustomerReplies,
        ReopenLogs, ReopenTells, ReopenReroutes, ReopenDies, AgentAssigns,
        AgentMoves,
        AgentFiles, AgentReplies, Edit, Ages
  <1>5. CASE ClassifierOffers(t)
    <2>1. RowsOK' /\ QueueOK'
      BY <1>1, <1>5, EnqueueType DEF ClassifierOffers
    <2>2. WorldOK'
      BY <1>1, <1>5 DEF ClassifierOffers, WorldOK, sweepVars
    <2>3. QED
      BY <1>3, <1>4, <2>1, <2>2
  <1>6. CASE ClassifierFiles(t) \/ CustomerReplies(t)
    <2>1. RowsOK'
      <3>1. CASE ClassifierFiles(t)
        BY <1>1, <3>1 DEF ClassifierFiles, RowsOK, Row
      <3>2. CASE CustomerReplies(t)
        <4>1. thread' \in [Tickets -> Thread]
          BY <1>1, <3>2 DEF CustomerReplies, RowsOK, Thread
        <4>2. CASE rows[t].autoResolved
          BY <1>1, <3>2, <4>1, <4>2
          DEF CustomerReplies, RowsOK, Row, TICKET_STATUS
        <4>3. CASE ~rows[t].autoResolved
          BY <1>1, <3>2, <4>1, <4>3 DEF CustomerReplies, RowsOK, Row
        <4>4. QED
          BY <4>2, <4>3
      <3>3. QED
        BY <1>6, <3>1, <3>2
    <2>2. WorldOK' /\ QueueOK'
      BY <1>1, <1>6
      DEF ClassifierFiles, CustomerReplies, WorldOK, QueueOK,
          Queue!QueueTypeOK, sweepVars, queueVars
    <2>3. QED
      BY <1>3, <1>4, <2>1, <2>2
  <1>7. CASE ReopenLogs(t) \/ ReopenTells(t) \/ ReopenReroutes(t) \/ ReopenDies(t)
    <2>1. RowsOK'
      BY <1>1, <1>7, ConstantsAssumption
      DEF ReopenLogs, ReopenTells, ReopenReroutes, ReopenDies, RowsOK, Row,
          ticketVars
    <2>2. trail' \in [Tickets -> Seq(Entry)]
      BY <1>1, <1>7, RecordType
      DEF ReopenLogs, ReopenTells, ReopenReroutes, ReopenDies, WorldOK,
          ticketVars, Entry
    <2>3. WorldOK' /\ QueueOK'
      BY <1>1, <1>7, <2>2
      DEF ReopenLogs, ReopenTells, ReopenReroutes, ReopenDies, WorldOK, QueueOK,
          Queue!QueueTypeOK, sweepVars, queueVars
    <2>4. QED
      BY <1>3, <1>4, <2>1, <2>3
  <1>8. CASE AgentAssigns(t) \/ AgentMoves(t) \/ AgentFiles(t) \/ AgentReplies(t)
    <2>1. RowsOK'
      <3>1. CASE AgentAssigns(t)
        BY <1>1, <3>1 DEF AgentAssigns, RowsOK, Row
      <3>2. CASE AgentMoves(t)
        BY <1>1, <3>2
        DEF AgentMoves, RowsOK, Row, TICKET_STATUS, AGENT_SETTABLE_STATUS
      <3>3. CASE AgentFiles(t)
        BY <1>1, <3>3 DEF AgentFiles, RowsOK, Row
      <3>4. CASE AgentReplies(t)
        <4>1. thread' \in [Tickets -> Thread]
          BY <1>1, <3>4 DEF AgentReplies, RowsOK, Thread
        <4>2. rows' \in [Tickets -> Row]
          BY <1>1, <3>4 DEF AgentReplies, RowsOK, Row
        <4>3. QED
          BY <4>1, <4>2 DEF RowsOK
      <3>5. QED
        BY <1>8, <3>1, <3>2, <3>3, <3>4
    <2>2. WorldOK' /\ QueueOK'
      BY <1>1, <1>8
      DEF AgentAssigns, AgentMoves, AgentFiles, AgentReplies, Edit, WorldOK,
          QueueOK, Queue!QueueTypeOK, worldVars, sweepVars, queueVars
    <2>3. QED
      BY <1>3, <1>4, <2>1, <2>2
  <1>9. CASE Ages(t)
    BY <1>1, <1>3, <1>4, <1>9
    DEF Ages, RowsOK, WorldOK, QueueOK, Queue!QueueTypeOK, ticketVars,
        sweepVars, queueVars
  <1>10. QED
    BY <1>5, <1>6, <1>7, <1>8, <1>9 DEF TicketStep

LEMMA StepType ==
  ASSUME TypeOK, [Next]_vars
  PROVE  TypeOK'
  <1>1. CASE SwitchAutoReply
    BY <1>1
    DEF SwitchAutoReply, TypeOK, Queue!QueueTypeOK, ticketVars, sweepVars,
        queueVars
  <1>2. CASE UNCHANGED vars
    BY <1>2 DEF vars, TypeOK, Queue!QueueTypeOK
  <1>3. QED
    BY <1>1, <1>2, HandlerStepType, CrashType, QueueStepType, SweepStepType,
       TicketStepType
    DEF Next

LEMMA InitType == Init => TypeOK
  BY ConstantsAssumption
  DEF Init, TypeOK, Row, Thread, TICKET_STATUS, Work, Idle, Step, Budget,
      Queue!QueueInit, Queue!QueueTypeOK, Queue!NoJob, Queue!Job,
      Queue!JobStates

(* Every reachable state is well typed: in particular no handler beyond    *)
(* its first step is without a ticket, and no job is about nothing.        *)
THEOREM TypeCorrect == Spec => []TypeOK
  <1>1. Init => TypeOK
    BY InitType
  <1>2. TypeOK /\ [Next]_vars => TypeOK'
    BY StepType
  <1>3. QED
    BY <1>1, <1>2, PTL DEF Spec

-----------------------------------------------------------------------------
(* Safety.  The inductive invariant: ClaimInvariant ties the version the   *)
(* resolve compares to the messages of the thread, what a handler past its *)
(* gates remembers to an opening, and a verdict to a status no claim takes.*)

TicketInv(t) ==
    /\ rows[t].lastMessageAt = Messages(t)
    /\ thread[t].inbound >= 1
    /\ rows[t].decline # "none" \/ thread[t].byAssistant > 0 =>
          rows[t].status \notin {"New", "Processing"}
    /\ thread[t].byAssistant <= 1
    /\ rows[t].autoResolved => thread[t].byAssistant = 1
    /\ thread[t].byAssistant > 0 => rows[t].decline = "none"

IInv == TypeOK /\ (\A t \in Tickets : TicketInv(t)) /\ SnapshotIsOpening

LEMMA InvParts ==
  IInv <=> TypeOK /\ ClaimInvariant /\ OneAutomatedReply /\ OneVerdict
  BY DEF IInv, TicketInv, ClaimInvariant, VersionCountsMessages,
         VerdictEndsClaims, OneAutomatedReply, OneVerdict

(* The heart of it: whoever holds the resolve, what it matches is an       *)
(* opening in an answerable category, without a verdict.                   *)
LEMMA ResolveMatchesOpening ==
  ASSUME IInv, NEW w \in Handlers, work[w].step = "resolve", StillOurs(w)
  PROVE  LET t == work[w].ticket IN
         /\ t \in Tickets
         /\ thread[t] = [inbound |-> 1, byAgent |-> 0, byAssistant |-> 0]
         /\ ~HasOutbound(t)
         /\ rows[t].category \in ANSWERABLE_CATEGORIES
         /\ rows[t].decline = "none"
  <1> DEFINE t == work[w].ticket
  <1>1. t \in Tickets /\ thread[t] \in Thread
    BY DEF IInv, TypeOK
  <1>2. Messages(t) = 1 /\ rows[t].category \in ANSWERABLE_CATEGORIES
    BY <1>1 DEF IInv, TicketInv, SnapshotIsOpening, StillOurs
  <1>3. thread[t].inbound = 1 /\ thread[t].byAgent = 0 /\ thread[t].byAssistant = 0
    BY <1>1, <1>2 DEF IInv, TicketInv, Messages, Thread
  <1>4. thread[t] = [inbound |-> 1, byAgent |-> 0, byAssistant |-> 0]
    BY <1>1, <1>3 DEF Thread
  <1>5. rows[t].decline = "none"
    BY <1>1 DEF IInv, TicketInv, StillOurs
  <1>6. QED
    BY <1>1, <1>2, <1>3, <1>4, <1>5 DEF HasOutbound

(* A row and a thread that change without breaking what TicketInv says.    *)
LEMMA SameTicket ==
  ASSUME NEW t \in Tickets, TicketInv(t),
         rows'[t] = rows[t], thread'[t] = thread[t]
  PROVE  TicketInv(t)'
  BY DEF TicketInv, Messages

(* The status moves; the verdict, the messages and the version stay.       *)
LEMMA OtherStatus ==
  ASSUME NEW t \in Tickets, TicketInv(t), TypeOK,
         NEW s \in TICKET_STATUS,
         \/ rows[t].status \in {"New", "Processing"}
         \/ s \notin {"New", "Processing"},
         rows' = [rows EXCEPT ![t].status = s], thread' = thread
  PROVE  \A u \in Tickets : TicketInv(u) => TicketInv(u)'
  <1>1. rows \in [Tickets -> Row]
    BY DEF TypeOK
  <1>2. ASSUME NEW u \in Tickets, u # t, TicketInv(u) PROVE TicketInv(u)'
    BY <1>1, <1>2, SameTicket
  <1>3. /\ rows'[t].status = s /\ rows'[t].decline = rows[t].decline
        /\ rows'[t].autoResolved = rows[t].autoResolved
        /\ rows'[t].lastMessageAt = rows[t].lastMessageAt
    BY <1>1 DEF Row
  <1>4. TicketInv(t)'
    BY <1>3 DEF TicketInv, Messages
  <1>5. QED
    BY <1>2, <1>4

LEMMA OfferedTicket ==
  ASSUME IInv, NEW t \in Tickets, EnqueueAutoReply(t), thread' = thread
  PROVE  \A u \in Tickets : TicketInv(u)'
  <1>1. rows \in [Tickets -> Row]
    BY DEF IInv, TypeOK
  <1>2. rows' = [rows EXCEPT ![t].offered = TRUE] \/ rows' = rows
    BY Zenon DEF EnqueueAutoReply
  <1>3. ASSUME NEW u \in Tickets
        PROVE  /\ rows'[u].status = rows[u].status
               /\ rows'[u].decline = rows[u].decline
               /\ rows'[u].autoResolved = rows[u].autoResolved
               /\ rows'[u].lastMessageAt = rows[u].lastMessageAt
    BY <1>1, <1>2 DEF Row
  <1>4. QED
    BY <1>3 DEF IInv, TicketInv, Messages

LEMMA HandlerStepTickets ==
  ASSUME IInv, NEW w \in Handlers, NEW t \in Tickets, t = work[w].ticket,
         HandlerStep(w)
  PROVE  \A u \in Tickets : TicketInv(u)'
  <1>1. TypeOK /\ rows \in [Tickets -> Row] /\ thread \in [Tickets -> Thread]
    BY DEF IInv, TypeOK
  <1>2. \A u \in Tickets : TicketInv(u)
    BY DEF IInv
  <1>3. CASE Claim(w)
    <2>1. CASE rows' = rows
      BY <1>2, <1>3, <2>1, SameTicket DEF Claim
    <2>2. CASE rows' # rows
      <3>1. /\ rows[t].status = "New" /\ thread' = thread
            /\ rows' = [rows EXCEPT ![t].status = "Processing"]
        BY <1>3, <2>2 DEF Claim
      <3>2. QED
        BY <1>1, <1>2, <3>1, OtherStatus DEF TICKET_STATUS
    <2>3. QED
      BY <2>1, <2>2
  <1>4. CASE Read(w) \/ Ask(w) \/ Recheck(w) \/ Reread(w) \/ LogResolved(w) \/ LogDeclined(w)
    <2>1. rows' = rows /\ thread' = thread
      BY <1>4 DEF Read, Ask, Recheck, Reread, LogResolved, LogDeclined, ticketVars
    <2>2. QED
      BY <1>2, <2>1, SameTicket
  <1>5. CASE Resolve(w)
    <2>1. CASE ~StillOurs(w)
      BY <1>2, <1>5, <2>1, SameTicket DEF Resolve
    <2>2. CASE StillOurs(w)
      <3>1. /\ rows[t].decline = "none"
            /\ thread[t] = [inbound |-> 1, byAgent |-> 0, byAssistant |-> 0]
        BY <1>5, <2>2, ResolveMatchesOpening DEF Resolve
      <3>2. ASSUME NEW u \in Tickets, u # t PROVE TicketInv(u)'
        BY <1>1, <1>2, <1>5, <2>2, <3>1, <3>2, SameTicket DEF Resolve
      <3>3. thread'[t] = [inbound |-> 1, byAgent |-> 0, byAssistant |-> 1]
        BY <1>1, <1>5, <2>2, <3>1 DEF Resolve, Thread
      <3>4. /\ rows'[t].status = "Resolved" /\ rows'[t].decline = "none"
            /\ rows'[t].lastMessageAt = rows[t].lastMessageAt + 1
        BY <1>1, <1>5, <2>2, <3>1 DEF Resolve, Row
      <3>5. rows[t].lastMessageAt = 1
        BY <1>2, <3>1 DEF TicketInv, Messages
      <3>6. TicketInv(t)'
        BY <3>3, <3>4, <3>5 DEF TicketInv, Messages
      <3>7. QED
        BY <3>2, <3>6
    <2>3. QED
      BY <2>1, <2>2
  <1>6. CASE File(w) \/ Handoff(w)
    <2>1. ASSUME NEW u \in Tickets PROVE TicketInv(u)'
      <3>1. /\ rows'[u].status = rows[u].status
            /\ rows'[u].decline = rows[u].decline
            /\ rows'[u].autoResolved = rows[u].autoResolved
            /\ rows'[u].lastMessageAt = rows[u].lastMessageAt
            /\ thread' = thread
        BY <1>1, <1>6 DEF File, Handoff, AssignIfUnowned, Row
      <3>2. QED
        BY <1>2, <3>1 DEF TicketInv, Messages
    <2>2. QED
      BY <2>1
  <1>7. CASE Release(w)
    <2>1. thread' = thread
      BY <1>7 DEF Release
    <2>2. CASE rows' = rows
      BY <1>2, <2>1, <2>2, SameTicket
    <2>3. CASE rows' # rows /\ work[w].reason = "none"
      <3>1. /\ rows[t].status = "Processing"
            /\ rows' = [rows EXCEPT ![t].status = "New"]
        BY <1>7, <2>3 DEF Release, Claimed
      <3>2. QED
        BY <1>1, <1>2, <2>1, <3>1, OtherStatus DEF TICKET_STATUS
    <2>4. CASE rows' # rows /\ work[w].reason # "none"
      <3>1. /\ rows[t].status = "Processing"
            /\ rows' = [rows EXCEPT ![t].status = "Open",
                                    ![t].decline = work[w].reason]
        BY <1>7, <2>4 DEF Release, Claimed
      <3>2. /\ rows'[t].status = "Open"
            /\ rows'[t].autoResolved = rows[t].autoResolved
            /\ rows'[t].lastMessageAt = rows[t].lastMessageAt
            /\ \A u \in Tickets : u # t => rows'[u] = rows[u]
        BY <1>1, <2>1, <3>1 DEF Row
      <3>3. thread[t].byAssistant = 0
        BY <1>1, <1>2, <2>1, <3>1 DEF TicketInv, Thread
      <3>4. TicketInv(t)'
        BY <1>2, <2>1, <3>2, <3>3 DEF TicketInv, Messages
      <3>5. QED
        BY <1>2, <2>1, <3>2, <3>4, SameTicket
    <2>5. QED
      BY <2>2, <2>3, <2>4
  <1>8. QED
    BY <1>3, <1>4, <1>5, <1>6, <1>7 DEF HandlerStep

LEMMA SweepStepTickets ==
  ASSUME IInv, SweepStep
  PROVE  \A u \in Tickets : TicketInv(u)'
  <1>1. TypeOK /\ (\A u \in Tickets : TicketInv(u))
    BY DEF IInv
  <1>2. thread' = thread
    BY DEF SweepStep, SweepReads, SweepReleases, SweepEnqueues, SweepDies,
           ticketVars
  <1>3. CASE SweepReads \/ SweepDies
    BY <1>1, <1>3, SameTicket DEF SweepReads, SweepDies, ticketVars
  <1>4. CASE SweepReleases
    <2>1. PICK t \in stuck :
             rows' = IF rows[t].status = "Processing"
                     THEN [rows EXCEPT ![t].status = "New"] ELSE rows
      BY <1>4 DEF SweepReleases
    <2>2. t \in Tickets
      BY <1>1 DEF TypeOK
    <2>3. CASE rows[t].status = "Processing"
      BY <1>1, <1>2, <2>1, <2>2, <2>3, OtherStatus DEF TICKET_STATUS
    <2>4. CASE rows[t].status # "Processing"
      BY <1>1, <1>2, <2>1, <2>4, SameTicket
    <2>5. QED
      BY <2>3, <2>4
  <1>5. CASE SweepEnqueues
    <2>1. requeue \in Tickets
      BY <1>1, <1>5 DEF SweepEnqueues, TypeOK
    <2>2. QED
      BY <1>1, <1>2, <1>5, <2>1, OfferedTicket DEF SweepEnqueues
  <1>6. QED
    BY <1>3, <1>4, <1>5 DEF SweepStep

LEMMA TicketStepTickets ==
  ASSUME IInv, NEW t \in Tickets, TicketStep(t)
  PROVE  \A u \in Tickets : TicketInv(u)'
  <1>1. /\ TypeOK /\ (\A u \in Tickets : TicketInv(u))
        /\ rows \in [Tickets -> Row] /\ thread \in [Tickets -> Thread]
    BY DEF IInv, TypeOK
  <1>2. CASE ClassifierOffers(t)
    BY <1>1, <1>2, OfferedTicket DEF ClassifierOffers
  <1>3. CASE ReopenLogs(t) \/ ReopenTells(t) \/ ReopenDies(t) \/ Ages(t)
    BY <1>1, <1>3, SameTicket DEF ReopenLogs, ReopenTells, ReopenDies, Ages,
                                  ticketVars
  <1>4. CASE AgentMoves(t)
    <2>1. PICK s \in AGENT_SETTABLE_STATUS :
             rows' = [rows EXCEPT ![t].status = s] /\ thread' = thread
      BY <1>4 DEF AgentMoves
    <2>2. QED
      BY <1>1, <2>1, OtherStatus DEF AGENT_SETTABLE_STATUS, TICKET_STATUS
  <1>5. CASE ClassifierFiles(t) \/ ReopenReroutes(t) \/ AgentAssigns(t) \/ AgentFiles(t)
    <2>1. thread' = thread
      BY <1>5 DEF ClassifierFiles, ReopenReroutes, AgentAssigns, AgentFiles
    <2>2. ASSUME NEW u \in Tickets
          PROVE  /\ rows'[u].status = rows[u].status
                 /\ rows'[u].decline = rows[u].decline
                 /\ rows'[u].autoResolved = rows[u].autoResolved
                 /\ rows'[u].lastMessageAt = rows[u].lastMessageAt
      <3>1. CASE ClassifierFiles(t) \/ AgentFiles(t)
        BY <1>1, <3>1 DEF ClassifierFiles, AgentFiles, Row
      <3>2. CASE ReopenReroutes(t) \/ AgentAssigns(t)
        BY <1>1, <3>2 DEF ReopenReroutes, AgentAssigns, Row
      <3>3. QED
        BY <1>5, <3>1, <3>2
    <2>3. QED
      BY <1>1, <2>1, <2>2 DEF TicketInv, Messages
  <1>6. CASE AgentReplies(t)
    <2>1. ASSUME NEW u \in Tickets, u # t PROVE TicketInv(u)'
      BY <1>1, <1>6, <2>1, SameTicket DEF AgentReplies
    <2>2. /\ rows'[t].status = rows[t].status
          /\ rows'[t].decline = rows[t].decline
          /\ rows'[t].autoResolved = rows[t].autoResolved
          /\ rows'[t].lastMessageAt = rows[t].lastMessageAt + 1
      BY <1>1, <1>6 DEF AgentReplies, Row
    <2>3. /\ thread'[t].inbound = thread[t].inbound
          /\ thread'[t].byAgent = thread[t].byAgent + 1
          /\ thread'[t].byAssistant = thread[t].byAssistant
      BY <1>1, <1>6 DEF AgentReplies, Thread
    <2>4. Messages(t)' = Messages(t) + 1
      BY <1>1, <2>3 DEF Messages, Thread
    <2>5. TicketInv(t)'
      BY <1>1, <2>2, <2>3, <2>4 DEF TicketInv
    <2>6. QED
      BY <2>1, <2>5
  <1>7. CASE CustomerReplies(t)
    <2>1. ASSUME NEW u \in Tickets, u # t PROVE TicketInv(u)'
      BY <1>1, <1>7, <2>1, SameTicket DEF CustomerReplies
    <2>2. /\ rows'[t].decline = rows[t].decline
          /\ rows'[t].lastMessageAt = rows[t].lastMessageAt + 1
          /\ rows'[t].status \in {rows[t].status, "Open"}
          /\ rows'[t].autoResolved => rows[t].autoResolved
      <3>1. CASE rows[t].autoResolved
        BY <1>1, <1>7, <3>1 DEF CustomerReplies, Row
      <3>2. CASE ~rows[t].autoResolved
        BY <1>1, <1>7, <3>2 DEF CustomerReplies, Row
      <3>3. QED
        BY <3>1, <3>2
    <2>3. /\ thread'[t].inbound = thread[t].inbound + 1
          /\ thread'[t].byAgent = thread[t].byAgent
          /\ thread'[t].byAssistant = thread[t].byAssistant
      BY <1>1, <1>7 DEF CustomerReplies, Thread
    <2>4. Messages(t)' = Messages(t) + 1 /\ thread'[t].inbound >= 1
      BY <1>1, <2>3 DEF Messages, Thread
    <2>5. TicketInv(t)'
      BY <1>1, <2>2, <2>3, <2>4 DEF TicketInv
    <2>6. QED
      BY <2>1, <2>5
  <1>8. QED
    BY <1>2, <1>3, <1>4, <1>5, <1>6, <1>7 DEF TicketStep

(* What a handler remembers is written once, at its read, under the gates. *)
LEMMA SnapshotStep ==
  ASSUME IInv, [Next]_vars
  PROVE  SnapshotIsOpening'
  <1> DEFINE Past == {"ask", "recheck", "resolve", "reread"}
  <1>1. /\ TypeOK /\ work \in [Handlers -> Work]
        /\ rows \in [Tickets -> Row] /\ thread \in [Tickets -> Thread]
    BY DEF IInv, TypeOK
  <1>2. ASSUME work' = work PROVE SnapshotIsOpening'
    BY <1>2 DEF IInv, SnapshotIsOpening
  <1>3. ASSUME NEW w \in Handlers, NEW item,
               /\ work' = [work EXCEPT ![w] = item]
               /\ item.step \in Past =>
                     /\ item.seenAt = 1
                     /\ item.seenCategory \in ANSWERABLE_CATEGORIES
        PROVE  SnapshotIsOpening'
    BY <1>1, <1>3 DEF IInv, SnapshotIsOpening
  <1>4. ASSUME NEW w \in Handlers, NEW step,
               /\ Goto(w, step)
               /\ step \in Past => work[w].step \in Past
        PROVE  SnapshotIsOpening'
    <2>1. /\ [work[w] EXCEPT !.step = step].step = step
          /\ [work[w] EXCEPT !.step = step].seenAt = work[w].seenAt
          /\ [work[w] EXCEPT !.step = step].seenCategory = work[w].seenCategory
      BY <1>1 DEF Work
    <2>2. step \in Past => /\ work[w].seenAt = 1
                           /\ work[w].seenCategory \in ANSWERABLE_CATEGORIES
      BY <1>4 DEF IInv, SnapshotIsOpening
    <2>3. QED
      BY <1>3, <1>4, <2>1, <2>2 DEF Goto
  <1>5. ASSUME NEW w \in Handlers, NEW reason, GiveBack(w, reason)
        PROVE  SnapshotIsOpening'
    <2> DEFINE handed == [work[w] EXCEPT !.step = "release", !.reason = reason]
    <2>1. work' = [work EXCEPT ![w] = handed]
      BY <1>1, <1>5 DEF GiveBack, Work
    <2>2. handed.step = "release"
      BY <1>1 DEF Work
    <2>3. QED
      BY <1>3, <2>1, <2>2
  <1>6. ASSUME NEW w \in Handlers, work' = [work EXCEPT ![w] = Idle]
        PROVE  SnapshotIsOpening'
    BY <1>3, <1>6 DEF Idle
  <1>7. ASSUME NEW w \in Handlers, HandlerStep(w)
        PROVE  SnapshotIsOpening'
    <2>1. CASE Claim(w)
      BY <1>4, <1>6, <2>1 DEF Claim, Return
    <2>2. CASE Read(w)
      <3> DEFINE t == work[w].ticket
      <3>1. t \in Tickets /\ RowsOK
        BY <1>1, <2>2 DEF Read, TypeOK, RowsOK
      <3>2. CASE DeclineFor(t) # "none"
        BY <1>5, <2>2, <3>2 DEF Read
      <3>3. CASE DeclineFor(t) = "none"
        <4> DEFINE read == [work[w] EXCEPT !.step = "ask",
                                           !.seenAt = rows[t].lastMessageAt,
                                           !.seenCategory = rows[t].category]
        <4>1. work' = [work EXCEPT ![w] = read]
          BY <1>1, <2>2, <3>3 DEF Read, Work
        <4>2. /\ read.seenAt = rows[t].lastMessageAt
              /\ read.seenCategory = rows[t].category
          BY <1>1 DEF Work
        <4>3. rows[t].category \in ANSWERABLE_CATEGORIES /\ Messages(t) = 1
          <5>1. /\ rows[t].category \in ANSWERABLE_CATEGORIES
                /\ ~HasOutbound(t) /\ thread[t].inbound = 1
            BY <3>1, <3>3, DeclineForType
          <5>2. thread[t].byAgent \in Nat /\ thread[t].byAssistant \in Nat
            BY <1>1, <3>1 DEF Thread
          <5>3. QED
            BY <5>1, <5>2 DEF HasOutbound, Messages
        <4>4. rows[t].lastMessageAt = 1
          BY <3>1, <4>3 DEF IInv, TicketInv
        <4>5. QED
          BY <1>3, <4>1, <4>2, <4>3, <4>4
      <3>4. QED
        BY <3>2, <3>3
    <2>3. CASE Ask(w)
      BY <1>4, <1>5, <2>3 DEF Ask
    <2>4. CASE Recheck(w)
      BY <1>4, <1>5, <2>4 DEF Recheck
    <2>5. CASE Resolve(w)
      BY <1>4, <2>5 DEF Resolve
    <2>6. CASE Reread(w)
      BY <1>5, <1>6, <2>6 DEF Reread, Return
    <2>7. CASE File(w) \/ Handoff(w)
      BY <1>4, <2>7 DEF File, Handoff
    <2>8. CASE LogResolved(w) \/ LogDeclined(w)
      BY <1>6, <2>8 DEF LogResolved, LogDeclined, Return
    <2>9. CASE Release(w)
      BY <1>4, <1>6, <2>9 DEF Release, Return, Throw
    <2>10. QED
      BY <1>7, <2>1, <2>2, <2>3, <2>4, <2>5, <2>6, <2>7, <2>8, <2>9
      DEF HandlerStep
  <1>8. ASSUME NEW w \in Handlers, Crash(w) PROVE SnapshotIsOpening'
    BY <1>6, <1>8 DEF Crash
  <1>9. ASSUME NEW w \in Handlers, NEW j \in JobIds,
               Start(w, j) \/ StartRepair(w, j)
        PROVE  SnapshotIsOpening'
    BY <1>3, <1>9 DEF Start, StartRepair, Idle
  <1>10. ASSUME NEW j \in JobIds, ExpireOrphan(j) \/ ExpireStalled(j)
         PROVE  SnapshotIsOpening'
    BY <1>2, <1>10 DEF ExpireOrphan, ExpireStalled
  <1>11. CASE SweepStep
    BY <1>2, <1>11
    DEF SweepStep, SweepReads, SweepReleases, SweepEnqueues, SweepDies
  <1>12. ASSUME NEW t \in Tickets, TicketStep(t) PROVE SnapshotIsOpening'
    BY <1>2, <1>12
    DEF TicketStep, ClassifierFiles, ClassifierOffers, CustomerReplies,
        ReopenLogs, ReopenTells, ReopenReroutes, ReopenDies, AgentAssigns,
        AgentMoves,
        AgentFiles, AgentReplies, Edit, Ages
  <1>13. CASE SwitchAutoReply \/ UNCHANGED vars
    BY <1>2, <1>13 DEF SwitchAutoReply, vars
  <1>14. QED
    BY <1>7, <1>8, <1>9, <1>10, <1>11, <1>12, <1>13 DEF Next, QueueStep

LEMMA TicketsStep ==
  ASSUME IInv, [Next]_vars
  PROVE  \A u \in Tickets : TicketInv(u)'
  <1>1. ASSUME rows' = rows, thread' = thread
        PROVE  \A u \in Tickets : TicketInv(u)'
    BY <1>1, SameTicket DEF IInv
  <1>2. ASSUME NEW w \in Handlers, HandlerStep(w)
        PROVE  \A u \in Tickets : TicketInv(u)'
    <2>1. work[w].step # "idle"
      BY <1>2
      DEF HandlerStep, Claim, Read, Ask, Recheck, Resolve, Reread, File,
          LogResolved, Release, Handoff, LogDeclined
    <2>2. work[w].ticket \in Tickets
      BY <2>1 DEF IInv, TypeOK
    <2>3. QED
      BY <1>2, <2>2, HandlerStepTickets
  <1>3. ASSUME NEW w \in Handlers, Crash(w)
        PROVE  \A u \in Tickets : TicketInv(u)'
    BY <1>1, <1>3 DEF Crash, ticketVars
  <1>4. CASE QueueStep
    BY <1>1, <1>4
    DEF QueueStep, Start, StartRepair, ExpireOrphan, ExpireStalled, ticketVars
  <1>5. CASE SwitchAutoReply \/ UNCHANGED vars
    BY <1>1, <1>5 DEF SwitchAutoReply, ticketVars, vars
  <1>6. QED
    BY <1>2, <1>3, <1>4, <1>5, SweepStepTickets, TicketStepTickets DEF Next

LEMMA InitIInv == Init => IInv
  <1> SUFFICES ASSUME Init PROVE IInv
    OBVIOUS
  <1>1. TypeOK
    BY InitType
  <1>2. \A t \in Tickets : TicketInv(t)
    BY DEF Init, TicketInv, Messages
  <1>3. SnapshotIsOpening
    BY DEF Init, SnapshotIsOpening, Idle
  <1>4. QED
    BY <1>1, <1>2, <1>3 DEF IInv

LEMMA StepIInv == IInv /\ [Next]_vars => IInv'
  <1> SUFFICES ASSUME IInv, [Next]_vars PROVE IInv'
    OBVIOUS
  <1>1. TypeOK'
    BY StepType DEF IInv
  <1>2. (\A t \in Tickets : TicketInv(t)')
    BY TicketsStep
  <1>3. QED
    BY <1>1, <1>2, SnapshotStep DEF IInv

THEOREM InvariantHolds == Spec => []IInv
  BY InitIInv, StepIInv, PTL DEF Spec

(* The version column counts messages, handlers past their gates saw an    *)
(* opening, and a verdict ends every claim: in any instance.               *)
THEOREM ClaimsAreSound == Spec => []ClaimInvariant
  <1>1. IInv => ClaimInvariant
    BY InvParts
  <1>2. QED
    BY <1>1, InvariantHolds, PTL

(* At most one automated reply on a ticket, for any number of deliveries,  *)
(* handlers, sweeps, crashes and stalls.                                   *)
THEOREM AnsweredOnce == Spec => []OneAutomatedReply
  <1>1. IInv => OneAutomatedReply
    BY InvParts
  <1>2. QED
    BY <1>1, InvariantHolds, PTL

(* No ticket shows both verdicts, and a resolve stamp comes with a reply.  *)
THEOREM OneVerdictEver == Spec => []OneVerdict
  <1>1. IInv => OneVerdict
    BY InvParts
  <1>2. QED
    BY <1>1, InvariantHolds, PTL

(* All of it together, as the run AutoReplyRaces checks it: its type, one  *)
(* reply, one verdict, and the facts about claims that carry them.         *)
THEOREM AutoReplyIsSound == Spec => []AutoReplyInvariant
  BY TypeCorrect, ClaimsAreSound, AnsweredOnce, OneVerdictEver, PTL
     DEF AutoReplyInvariant

-----------------------------------------------------------------------------
(* The job implements its promise: every step of AutoReply is a step of    *)
(* OpeningAnswer or leaves its three variables alone.                      *)

LEMMA PromiseStutters ==
  ASSUME thread' = thread,
         \A u \in Tickets : /\ rows'[u].category = rows[u].category
                             /\ rows'[u].decline = rows[u].decline
  PROVE  UNCHANGED Promise!absVars
  BY DEF Promise!absVars, VerdictOf

(* One field of one row changes, and it is not one the promise sees.       *)
LEMMA OtherField ==
  ASSUME rows \in [Tickets -> Row], NEW t, thread' = thread, NEW x,
         \/ rows' = rows
         \/ rows' = [rows EXCEPT ![t].status = x]
         \/ rows' = [rows EXCEPT ![t].assignee = x]
         \/ rows' = [rows EXCEPT ![t].offered = x]
  PROVE  UNCHANGED Promise!absVars
  <1>1. ASSUME NEW u \in Tickets
        PROVE  /\ rows'[u].category = rows[u].category
               /\ rows'[u].decline = rows[u].decline
    BY <1>1 DEF Row
  <1>2. QED
    BY <1>1, PromiseStutters

LEMMA ResolveAnswers ==
  ASSUME IInv, NEW w \in Handlers, NEW t \in Tickets, t = work[w].ticket,
         Resolve(w), StillOurs(w)
  PROVE  Promise!Answer(t)
  <1>1. rows \in [Tickets -> Row] /\ thread \in [Tickets -> Thread]
    BY DEF IInv, TypeOK
  <1>2. /\ thread[t] = [inbound |-> 1, byAgent |-> 0, byAssistant |-> 0]
        /\ rows[t].category \in ANSWERABLE_CATEGORIES
        /\ rows[t].decline = "none"
    BY ResolveMatchesOpening DEF Resolve
  <1>3. thread' = [thread EXCEPT ![t].byAssistant = 1]
    BY <1>1, <1>2 DEF Resolve
  <1>4. \A u \in Tickets : rows'[u].category = rows[u].category
    BY <1>1 DEF Resolve, Row
  <1>5. \A u \in Tickets : u # t => VerdictOf(u)' = VerdictOf(u)
    BY <1>1 DEF Resolve, VerdictOf
  <1>6. VerdictOf(t) = "none" /\ VerdictOf(t)' = "answered"
    BY <1>1, <1>2, <1>3 DEF VerdictOf, Thread
  <1>7. [u \in Tickets |-> VerdictOf(u)]'
           = [[u \in Tickets |-> VerdictOf(u)] EXCEPT ![t] = "answered"]
    BY <1>5, <1>6
  <1>8. /\ [u \in Tickets |-> VerdictOf(u)][t] = "none"
        /\ [u \in Tickets |-> rows[u].category][t] \in ANSWERABLE_CATEGORIES
    BY <1>2, <1>6
  <1>9. Promise!IsOpening(t)
    BY <1>2 DEF Promise!IsOpening
  <1>10. [u \in Tickets |-> rows[u].category]'
            = [u \in Tickets |-> rows[u].category]
    BY <1>4
  <1>11. QED
    BY <1>3, <1>7, <1>8, <1>9, <1>10
    DEF Promise!Answer, Promise!ANSWERABLE_CATEGORIES, ANSWERABLE_CATEGORIES

LEMMA ReleaseDeclines ==
  ASSUME IInv, NEW w \in Handlers, NEW t \in Tickets, t = work[w].ticket,
         Release(w), work[w].reason # "none", Claimed(t)
  PROVE  Promise!Decline(t)
  <1>1. rows \in [Tickets -> Row] /\ thread \in [Tickets -> Thread]
    BY DEF IInv, TypeOK
  <1>2. /\ rows' = [rows EXCEPT ![t].status = "Open",
                                ![t].decline = work[w].reason]
        /\ thread' = thread
    BY DEF Release
  <1>3. rows[t].decline = "none" /\ thread[t].byAssistant = 0
    BY <1>1 DEF IInv, TicketInv, Claimed, Thread
  <1>4. \A u \in Tickets : rows'[u].category = rows[u].category
    BY <1>1, <1>2 DEF Row
  <1>5. \A u \in Tickets : u # t => VerdictOf(u)' = VerdictOf(u)
    BY <1>1, <1>2 DEF VerdictOf
  <1>6. VerdictOf(t) = "none" /\ VerdictOf(t)' = "declined"
    BY <1>1, <1>2, <1>3 DEF VerdictOf, Row
  <1>7. [u \in Tickets |-> VerdictOf(u)]'
           = [[u \in Tickets |-> VerdictOf(u)] EXCEPT ![t] = "declined"]
    BY <1>5, <1>6
  <1>8. QED
    BY <1>2, <1>4, <1>6, <1>7, ZenonT(60) DEF Promise!Decline

LEMMA HandlerPromise ==
  ASSUME IInv, NEW w \in Handlers, NEW t \in Tickets, t = work[w].ticket,
         HandlerStep(w)
  PROVE  [Promise!Next]_(Promise!absVars)
  <1>1. rows \in [Tickets -> Row]
    BY DEF IInv, TypeOK
  <1>2. CASE Claim(w)
    <2>1. thread' = thread
          /\ (rows' = rows \/ rows' = [rows EXCEPT ![t].status = "Processing"])
      BY <1>2 DEF Claim
    <2>2. QED
      BY <1>1, <2>1, OtherField
  <1>3. CASE Read(w) \/ Ask(w) \/ Recheck(w) \/ Reread(w) \/ LogResolved(w) \/ LogDeclined(w)
    <2>1. rows' = rows /\ thread' = thread
      BY <1>3 DEF Read, Ask, Recheck, Reread, LogResolved, LogDeclined, ticketVars
    <2>2. QED
      BY <2>1, PromiseStutters
  <1>4. CASE Resolve(w)
    <2>1. CASE StillOurs(w)
      BY <1>4, <2>1, ResolveAnswers DEF Promise!Next
    <2>2. CASE ~StillOurs(w)
      BY <1>4, <2>2, PromiseStutters DEF Resolve
    <2>3. QED
      BY <2>1, <2>2
  <1>5. CASE File(w) \/ Handoff(w)
    <2>1. /\ thread' = thread
          /\ \/ rows' = rows
             \/ rows' = [rows EXCEPT ![t].assignee = "assistant"]
             \/ rows' = [rows EXCEPT ![t].assignee = HandoffTarget]
      BY <1>5 DEF File, Handoff, AssignIfUnowned
    <2>2. QED
      BY <1>1, <2>1, OtherField
  <1>6. CASE Release(w)
    <2>1. CASE work[w].reason # "none" /\ Claimed(t)
      BY <1>6, <2>1, ReleaseDeclines DEF Promise!Next
    <2>2. CASE work[w].reason = "none" \/ ~Claimed(t)
      <3>1. thread' = thread
            /\ (rows' = rows \/ rows' = [rows EXCEPT ![t].status = "New"])
        BY <1>6, <2>2 DEF Release
      <3>2. QED
        BY <1>1, <3>1, OtherField
    <2>3. QED
      BY <2>1, <2>2
  <1>7. QED
    BY <1>2, <1>3, <1>4, <1>5, <1>6 DEF HandlerStep

LEMMA SweepPromise ==
  ASSUME IInv, SweepStep
  PROVE  UNCHANGED Promise!absVars
  <1>1. rows \in [Tickets -> Row]
    BY DEF IInv, TypeOK
  <1>2. thread' = thread
    BY DEF SweepStep, SweepReads, SweepReleases, SweepEnqueues, SweepDies,
           ticketVars
  <1>3. CASE SweepReads \/ SweepDies
    BY <1>2, <1>3, PromiseStutters DEF SweepReads, SweepDies, ticketVars
  <1>4. CASE SweepReleases
    <2>1. PICK t \in stuck :
             rows' = rows \/ rows' = [rows EXCEPT ![t].status = "New"]
      BY <1>4 DEF SweepReleases
    <2>2. QED
      BY <1>1, <1>2, <2>1, OtherField
  <1>5. CASE SweepEnqueues
    <2>1. rows' = rows \/ rows' = [rows EXCEPT ![requeue].offered = TRUE]
      BY <1>5, Zenon DEF SweepEnqueues, EnqueueAutoReply
    <2>2. QED
      BY <1>1, <1>2, <2>1, OtherField
  <1>6. QED
    BY <1>3, <1>4, <1>5 DEF SweepStep

LEMMA TicketPromise ==
  ASSUME IInv, NEW t \in Tickets, TicketStep(t)
  PROVE  [Promise!Next]_(Promise!absVars)
  <1>1. rows \in [Tickets -> Row] /\ thread \in [Tickets -> Thread]
    BY DEF IInv, TypeOK
  <1>2. CASE ClassifierOffers(t)
    <2>1. thread' = thread
          /\ (rows' = rows \/ rows' = [rows EXCEPT ![t].offered = TRUE])
      BY <1>2, Zenon DEF ClassifierOffers, EnqueueAutoReply
    <2>2. QED
      BY <1>1, <2>1, OtherField
  <1>3. CASE ReopenLogs(t) \/ ReopenTells(t) \/ ReopenDies(t) \/ Ages(t)
    BY <1>3, PromiseStutters DEF ReopenLogs, ReopenTells, ReopenDies, Ages,
                                 ticketVars
  <1>4. CASE AgentMoves(t)
    BY <1>1, <1>4, OtherField DEF AgentMoves
  <1>5. CASE ReopenReroutes(t) \/ AgentAssigns(t)
    BY <1>1, <1>5, OtherField DEF ReopenReroutes, AgentAssigns
  <1>6. CASE ClassifierFiles(t) \/ AgentFiles(t)
    <2>1. PICK c \in Categories \cup {"none"} :
             rows' = [rows EXCEPT ![t].category = c]
      BY <1>6 DEF ClassifierFiles, AgentFiles
    <2>2. thread' = thread
      BY <1>6 DEF ClassifierFiles, AgentFiles
    <2>3. \A u \in Tickets : rows'[u].decline = rows[u].decline
      BY <1>1, <2>1 DEF Row
    <2>4. [u \in Tickets |-> rows[u].category]'
             = [[u \in Tickets |-> rows[u].category] EXCEPT ![t] = c]
      BY <1>1, <2>1 DEF Row
    <2>5. [u \in Tickets |-> VerdictOf(u)]' = [u \in Tickets |-> VerdictOf(u)]
      BY <2>2, <2>3 DEF VerdictOf
    <2>6. Promise!Refile(t, c)
      BY <2>2, <2>4, <2>5 DEF Promise!Refile
    <2>7. QED
      BY <2>6 DEF Promise!Next
  <1>7. CASE AgentReplies(t) \/ CustomerReplies(t)
    <2>1. \A u \in Tickets : /\ rows'[u].category = rows[u].category
                              /\ rows'[u].decline = rows[u].decline
      <3>1. CASE AgentReplies(t)
        BY <1>1, <3>1 DEF AgentReplies, Row
      <3>2. CASE CustomerReplies(t) /\ rows[t].autoResolved
        BY <1>1, <3>2 DEF CustomerReplies, Row
      <3>3. CASE CustomerReplies(t) /\ ~rows[t].autoResolved
        BY <1>1, <3>3 DEF CustomerReplies, Row
      <3>4. QED
        BY <1>7, <3>1, <3>2, <3>3
    <2>2. \A u \in Tickets : thread'[u].byAssistant = thread[u].byAssistant
      BY <1>1, <1>7 DEF AgentReplies, CustomerReplies, Thread
    <2>3. /\ [u \in Tickets |-> VerdictOf(u)]' = [u \in Tickets |-> VerdictOf(u)]
          /\ [u \in Tickets |-> rows[u].category]'
                = [u \in Tickets |-> rows[u].category]
      BY <2>1, <2>2 DEF VerdictOf
    <2>4. Promise!AgentAnswers(t) \/ Promise!CustomerWrites(t)
      BY <1>7, <2>3
      DEF AgentReplies, CustomerReplies, Promise!AgentAnswers,
          Promise!CustomerWrites
    <2>5. QED
      BY <2>4 DEF Promise!Next
  <1>8. QED
    BY <1>2, <1>3, <1>4, <1>5, <1>6, <1>7 DEF TicketStep

LEMMA StepPromise ==
  ASSUME IInv, [Next]_vars
  PROVE  [Promise!Next]_(Promise!absVars)
  <1>1. ASSUME NEW w \in Handlers, HandlerStep(w)
        PROVE  [Promise!Next]_(Promise!absVars)
    <2>1. work[w].step # "idle"
      BY <1>1
      DEF HandlerStep, Claim, Read, Ask, Recheck, Resolve, Reread, File,
          LogResolved, Release, Handoff, LogDeclined
    <2>2. work[w].ticket \in Tickets
      BY <2>1 DEF IInv, TypeOK
    <2>3. QED
      BY <1>1, <2>2, HandlerPromise
  <1>2. ASSUME rows' = rows, thread' = thread
        PROVE  [Promise!Next]_(Promise!absVars)
    BY <1>2, PromiseStutters
  <1>3. ASSUME NEW w \in Handlers, Crash(w)
        PROVE  [Promise!Next]_(Promise!absVars)
    BY <1>2, <1>3 DEF Crash, ticketVars
  <1>4. CASE QueueStep \/ SwitchAutoReply \/ UNCHANGED vars
    BY <1>2, <1>4
    DEF QueueStep, Start, StartRepair, ExpireOrphan, ExpireStalled,
        SwitchAutoReply, ticketVars, vars
  <1>5. CASE SweepStep
    BY <1>5, SweepPromise
  <1>6. QED
    BY <1>1, <1>3, <1>4, <1>5, TicketPromise DEF Next

(* The auto-reply keeps its promise: one verdict per ticket, never taken   *)
(* back, and an answer only to an opening a machine may answer.            *)
THEOREM PromiseKept == Spec => KeepsPromise
  <1>1. Init => Promise!Init
    BY DEF Init, Promise!Init, VerdictOf
  <1>2. IInv /\ [Next]_vars => [Promise!Next]_(Promise!absVars)
    BY StepPromise
  <1>3. QED
    BY <1>1, <1>2, InvariantHolds, PTL DEF Spec, KeepsPromise, Promise!Spec

(* The same as a property of single steps: the thread an automated reply   *)
(* lands on.                                                               *)
THEOREM OnlyOpeningsAnswered == Spec => AnswersOpenings
  <1> DEFINE Opens ==
        \A t \in Tickets :
           thread'[t].byAssistant # thread[t].byAssistant =>
              /\ thread[t].inbound = 1
              /\ ~HasOutbound(t)
              /\ rows[t].category \in ANSWERABLE_CATEGORIES
  <1>1. ASSUME IInv, [Promise!Next]_(Promise!absVars) PROVE Opens
    <2>1. thread \in [Tickets -> Thread]
      BY <1>1 DEF IInv, TypeOK
    <2>2. CASE UNCHANGED Promise!absVars
      BY <2>2 DEF Promise!absVars
    <2>3. ASSUME NEW t \in Tickets, Promise!Answer(t) PROVE Opens
      <3>1. Promise!IsOpening(t)
        BY <2>3 DEF Promise!Answer
      <3>2. [u \in Tickets |-> rows[u].category][t] \in ANSWERABLE_CATEGORIES
        BY <2>3
        DEF Promise!Answer, Promise!ANSWERABLE_CATEGORIES, ANSWERABLE_CATEGORIES
      <3>3. rows[t].category \in ANSWERABLE_CATEGORIES
        BY <3>2
      <3>4. thread' = [thread EXCEPT ![t].byAssistant = 1]
        BY <2>3 DEF Promise!Answer
      <3>5. \A u \in Tickets : u # t => thread'[u] = thread[u]
        BY <2>1, <3>4
      <3>6. thread[t].inbound = 1 /\ ~HasOutbound(t)
        BY <3>1 DEF Promise!IsOpening, HasOutbound
      <3>7. QED
        BY <3>3, <3>5, <3>6
    <2>4. ASSUME NEW t \in Tickets,
                 \/ Promise!CustomerWrites(t) \/ Promise!AgentAnswers(t)
                 \/ Promise!Decline(t)
                 \/ \E c \in Categories \cup {"none"} : Promise!Refile(t, c)
          PROVE  Opens
      <3>1. \/ thread' = thread
            \/ thread' = [thread EXCEPT ![t].inbound = @ + 1]
            \/ thread' = [thread EXCEPT ![t].byAgent = @ + 1]
        BY <2>4
        DEF Promise!CustomerWrites, Promise!AgentAnswers, Promise!Decline,
            Promise!Refile
      <3>2. \A u \in Tickets : thread'[u].byAssistant = thread[u].byAssistant
        BY <2>1, <3>1 DEF Thread
      <3>3. QED
        BY <3>2
    <2>5. QED
      BY <1>1, <2>2, <2>3, <2>4 DEF Promise!Next
  <1>2. IInv /\ [Next]_vars => [Opens]_vars
    BY <1>1, StepPromise
  <1>3. QED
    BY <1>2, InvariantHolds, PTL DEF Spec, AnswersOpenings
-----------------------------------------------------------------------------
(* The history.  A handler that reached a verdict owes it an entry, which  *)
(* it writes some calls later; ToldBy says who owes what, and that nobody  *)
(* owes what is told already.                                              *)

Resolving == {"file", "logResolved"}
Declining == {"handoff", "logDeclined"}

Owes(w, t, steps) == work[w].ticket = t /\ work[w].step \in steps

ToldBy(t) ==
    /\ \A v, w \in Handlers :
          Owes(v, t, Resolving \cup Declining) /\ Owes(w, t, Resolving \cup Declining)
             => v = w
    /\ \A w \in Handlers :
          /\ Owes(w, t, Resolving) => thread[t].byAssistant = 1
          /\ Owes(w, t, Declining) => rows[t].decline # "none"
          /\ Owes(w, t, Resolving \cup Declining) => VerdictEntries(t) = {}
    /\ \A i \in VerdictEntries(t) :
          /\ \A j \in VerdictEntries(t) : i = j
          /\ trail[t][i] = "auto_resolved" => thread[t].byAssistant = 1
          /\ trail[t][i] = "auto_declined" => rows[t].decline # "none"

Told == \A t \in Tickets : ToldBy(t)

(* A step that neither reaches a verdict nor tells one.                    *)
SameVerdicts ==
    \A t \in Tickets : /\ thread'[t].byAssistant = thread[t].byAssistant
                       /\ rows'[t].decline = rows[t].decline

SameEntries ==
    \A t \in Tickets : /\ VerdictEntries(t)' = VerdictEntries(t)
                       /\ \A i \in VerdictEntries(t) : trail'[t][i] = trail[t][i]

NobodyNewOwes ==
    \A w \in Handlers, t \in Tickets :
       /\ Owes(w, t, Resolving)' => Owes(w, t, Resolving)
       /\ Owes(w, t, Declining)' => Owes(w, t, Declining)

LEMMA ToldKept ==
  ASSUME Told, SameVerdicts, SameEntries, NobodyNewOwes
  PROVE  Told'
  <1>1. SUFFICES ASSUME NEW t \in Tickets PROVE ToldBy(t)'
    BY DEF Told
  <1>2. /\ ToldBy(t)
        /\ thread'[t].byAssistant = thread[t].byAssistant
        /\ rows'[t].decline = rows[t].decline
        /\ VerdictEntries(t)' = VerdictEntries(t)
        /\ \A i \in VerdictEntries(t) : trail'[t][i] = trail[t][i]
    BY DEF Told, SameVerdicts, SameEntries
  <1>3. \A w \in Handlers :
           Owes(w, t, Resolving \cup Declining)' => Owes(w, t, Resolving \cup Declining)
    BY DEF NobodyNewOwes, Owes
  <1>4. QED
    BY <1>2, <1>3 DEF ToldBy, NobodyNewOwes

(* Before there is a verdict, nothing is told and nobody owes.             *)
LEMMA NothingToldYet ==
  ASSUME NEW t \in Tickets, ToldBy(t), rows[t].decline = "none",
         thread[t].byAssistant # 1
  PROVE  /\ VerdictEntries(t) = {}
         /\ \A w \in Handlers : ~Owes(w, t, Resolving \cup Declining)
  BY DEF ToldBy, Owes, VerdictEntries

(* The entries after one more.                                             *)
LEMMA Recorded ==
  ASSUME TypeOK, NEW t \in Tickets, NEW entry \in Entry, Record(t, entry)
  PROVE  /\ \A u \in Tickets : u # t => trail'[u] = trail[u]
         /\ \A i \in DOMAIN trail[t] : trail'[t][i] = trail[t][i]
         /\ trail'[t][Len(trail[t]) + 1] = entry
         /\ Len(trail[t]) + 1 \notin DOMAIN trail[t]
         /\ DOMAIN trail'[t] = DOMAIN trail[t] \cup {Len(trail[t]) + 1}
  <1>1. trail[t] \in Seq(Entry) /\ trail \in [Tickets -> Seq(Entry)]
    BY DEF TypeOK
  <1>2. trail'[t] = Append(trail[t], entry)
    BY <1>1 DEF Record
  <1>3. QED
    BY <1>1, <1>2 DEF Record

LEMMA OtherEntry ==
  ASSUME TypeOK, NEW t \in Tickets, NEW entry \in {"reopened", "assignee_changed"},
         Record(t, entry)
  PROVE  SameEntries
  <1>1. entry \in Entry
    BY DEF Entry
  <1>2. SUFFICES ASSUME NEW u \in Tickets
                 PROVE  /\ VerdictEntries(u)' = VerdictEntries(u)
                        /\ \A i \in VerdictEntries(u) : trail'[u][i] = trail[u][i]
    BY DEF SameEntries
  <1>3. CASE u = t
    BY <1>1, <1>3, Recorded DEF VerdictEntries
  <1>4. CASE u # t
    BY <1>1, <1>4, Recorded DEF VerdictEntries
  <1>5. QED
    BY <1>3, <1>4

(* What the helpers that move a handler on do to what is owed.             *)
LEMMA OwesMoves ==
  ASSUME work \in [Handlers -> Work], NEW w \in Handlers,
         \/ \E step \in Step :
              /\ Goto(w, step)
              /\ step \in Resolving => work[w].step \in Resolving
              /\ step \in Declining => work[w].step \in Declining
         \/ \E reason \in AUTO_REPLY_DECLINE \cup {"none"} : GiveBack(w, reason)
         \/ \E item : /\ work' = [work EXCEPT ![w] = item]
                      /\ item.step \notin Resolving \cup Declining
  PROVE  NobodyNewOwes
  <1>1. \A v \in Handlers : v # w => work'[v] = work[v]
    BY DEF Goto, GiveBack
  <1>2. \/ /\ work'[w].ticket = work[w].ticket
           /\ work'[w].step \in Resolving => work[w].step \in Resolving
           /\ work'[w].step \in Declining => work[w].step \in Declining
        \/ work'[w].step \notin Resolving \cup Declining
    <2>1. ASSUME NEW step \in Step,
                 /\ Goto(w, step)
                 /\ step \in Resolving => work[w].step \in Resolving
                 /\ step \in Declining => work[w].step \in Declining
          PROVE  /\ work'[w].ticket = work[w].ticket
                 /\ work'[w].step \in Resolving => work[w].step \in Resolving
                 /\ work'[w].step \in Declining => work[w].step \in Declining
      BY <2>1 DEF Goto, Work
    <2>2. ASSUME NEW reason, GiveBack(w, reason)
          PROVE  work'[w].step \notin Resolving \cup Declining
      BY <2>2 DEF GiveBack, Work, Resolving, Declining
    <2>3. ASSUME NEW item, work' = [work EXCEPT ![w] = item],
                 item.step \notin Resolving \cup Declining
          PROVE  work'[w].step \notin Resolving \cup Declining
      BY <2>3
    <2>4. QED
      BY <2>1, <2>2, <2>3
  <1>3. QED
    BY <1>1, <1>2 DEF NobodyNewOwes, Owes

LEMMA IdleOwesNothing ==
  ASSUME work \in [Handlers -> Work], NEW w \in Handlers,
         work' = [work EXCEPT ![w] = Idle]
  PROVE  NobodyNewOwes
  <1>1. Idle.step \notin Resolving \cup Declining
    BY DEF Idle, Resolving, Declining
  <1>2. QED
    BY <1>1, OwesMoves

(* The two steps that reach a verdict ...                                  *)
LEMMA VerdictReached ==
  ASSUME IInv, Told, NEW w \in Handlers, NEW t \in Tickets, t = work[w].ticket,
         rows[t].decline = "none", thread[t].byAssistant # 1,
         trail' = trail,
         \A u \in Tickets : u # t => /\ thread'[u].byAssistant = thread[u].byAssistant
                                     /\ rows'[u].decline = rows[u].decline,
         \/ Goto(w, "file") /\ thread'[t].byAssistant = 1
         \/ Goto(w, "handoff") /\ rows'[t].decline # "none"
  PROVE  Told'
  <1>1. work \in [Handlers -> Work]
    BY DEF IInv, TypeOK
  <1>2. /\ VerdictEntries(t) = {}
        /\ \A v \in Handlers : ~Owes(v, t, Resolving \cup Declining)
    BY NothingToldYet DEF Told
  <1>3. /\ \A v \in Handlers : v # w => work'[v] = work[v]
        /\ work'[w].ticket = t
        /\ \/ work'[w].step = "file" /\ thread'[t].byAssistant = 1
           \/ work'[w].step = "handoff" /\ rows'[t].decline # "none"
    BY <1>1 DEF Goto, Work
  <1>4. ToldBy(t)'
    BY <1>2, <1>3 DEF ToldBy, Owes, VerdictEntries, Resolving, Declining
  <1>5. ASSUME NEW u \in Tickets, u # t
        PROVE  ToldBy(u)'
    <2>1. ToldBy(u)
      BY DEF Told
    <2>2. \A v \in Handlers : work'[v] = work[v] \/ work'[v].ticket # u
      BY <1>3, <1>5
    <2>3. QED
      BY <1>5, <2>1, <2>2 DEF ToldBy, Owes, VerdictEntries
  <1>6. QED
    BY <1>4, <1>5 DEF Told

(* ... and the two that tell it.                                           *)
LEMMA VerdictTold ==
  ASSUME IInv, Told, NEW w \in Handlers, LogResolved(w) \/ LogDeclined(w)
  PROVE  Told'
  <1>1. PICK t : t = work[w].ticket
    OBVIOUS
  <1>2. PICK entry : entry = IF work[w].step = "logResolved" THEN "auto_resolved"
                             ELSE "auto_declined"
    OBVIOUS
  <1>3. /\ TypeOK /\ t \in Tickets /\ entry \in Entry
        /\ work \in [Handlers -> Work]
    BY <1>1, <1>2 DEF IInv, TypeOK, LogResolved, LogDeclined, Entry
  <1>4. /\ Record(t, entry) /\ rows' = rows /\ thread' = thread
        /\ work' = [work EXCEPT ![w] = Idle]
    BY <1>1, <1>2 DEF LogResolved, LogDeclined, Return
  <1>5. /\ \A v \in Handlers : v # w => work'[v] = work[v]
        /\ work'[w].step = "idle"
    BY <1>3, <1>4 DEF Idle
  <1>6. Owes(w, t, Resolving \cup Declining) /\ VerdictEntries(t) = {}
        /\ (entry = "auto_resolved" => thread[t].byAssistant = 1)
        /\ (entry = "auto_declined" => rows[t].decline # "none")
    BY <1>1, <1>2, <1>3
    DEF Told, ToldBy, Owes, LogResolved, LogDeclined, Resolving, Declining
  <1>7. \A v \in Handlers : ~Owes(v, t, Resolving \cup Declining)'
    <2>1. \A v \in Handlers : Owes(v, t, Resolving \cup Declining) => v = w
      BY <1>3, <1>6 DEF Told, ToldBy
    <2>2. QED
      BY <1>5, <2>1 DEF Owes, Resolving, Declining
  <1>8. VerdictEntries(t)' = {Len(trail[t]) + 1}
        /\ trail'[t][Len(trail[t]) + 1] = entry
    BY <1>2, <1>3, <1>4, <1>6, Recorded DEF VerdictEntries
  <1>9. ToldBy(t)'
    BY <1>2, <1>4, <1>6, <1>7, <1>8 DEF ToldBy, Owes
  <1>10. ASSUME NEW u \in Tickets, u # t
         PROVE  ToldBy(u)'
    <2>1. ToldBy(u) /\ trail'[u] = trail[u]
      BY <1>3, <1>4, <1>10, Recorded DEF Told
    <2>2. \A v \in Handlers : work'[v] = work[v] \/ work'[v].step = "idle"
      BY <1>5
    <2>3. QED
      BY <1>4, <2>1, <2>2 DEF ToldBy, Owes, VerdictEntries, Resolving, Declining
  <1>11. QED
    BY <1>9, <1>10 DEF Told

LEMMA HandlerTold ==
  ASSUME IInv, Told, NEW w \in Handlers, NEW t \in Tickets, t = work[w].ticket,
         HandlerStep(w)
  PROVE  Told'
  <1>1. /\ TypeOK /\ work \in [Handlers -> Work]
        /\ rows \in [Tickets -> Row] /\ thread \in [Tickets -> Thread]
        /\ TicketInv(t)
    BY DEF IInv, TypeOK
  <1>2. CASE LogResolved(w) \/ LogDeclined(w)
    BY <1>2, VerdictTold
  <1>3. CASE Resolve(w) /\ StillOurs(w)
    <2>1. rows[t].decline = "none" /\ thread[t].byAssistant = 0
      BY <1>3, ResolveMatchesOpening DEF Resolve
    <2>2. /\ thread'[t].byAssistant = 1 /\ Goto(w, "file") /\ trail' = trail
          /\ \A u \in Tickets : u # t => rows'[u] = rows[u] /\ thread'[u] = thread[u]
      BY <1>1, <1>3, <2>1 DEF Resolve, Thread
    <2>3. QED
      BY <2>1, <2>2, VerdictReached
  <1>4. CASE Release(w) /\ work[w].reason # "none" /\ Claimed(t)
    <2>1. rows[t].decline = "none" /\ thread[t].byAssistant # 1
      BY <1>1, <1>4 DEF TicketInv, Claimed
    <2>2. /\ rows' = [rows EXCEPT ![t].status = "Open", ![t].decline = work[w].reason]
          /\ Goto(w, "handoff") /\ trail' = trail /\ thread' = thread
      BY <1>4 DEF Release
    <2>3. /\ rows'[t].decline # "none"
          /\ \A u \in Tickets : u # t => rows'[u] = rows[u]
      BY <1>1, <1>4, <2>2 DEF Row
    <2>4. QED
      BY <2>1, <2>2, <2>3, VerdictReached
  <1>5. CASE /\ \/ Claim(w) \/ Read(w) \/ Ask(w) \/ Recheck(w) \/ Reread(w)
                \/ File(w) \/ Handoff(w) \/ Resolve(w) \/ Release(w)
             /\ Resolve(w) => ~StillOurs(w)
             /\ Release(w) => ~(work[w].reason # "none" /\ Claimed(t))
    <2>1. SameVerdicts
      <3>1. CASE Read(w) \/ Ask(w) \/ Recheck(w) \/ Reread(w) \/ Resolve(w)
        BY <1>5, <3>1
        DEF SameVerdicts, Read, Ask, Recheck, Reread, Resolve, ticketVars
      <3>2. CASE Claim(w) \/ Release(w)
        BY <1>1, <1>5, <3>2 DEF SameVerdicts, Claim, Release, Row
      <3>3. CASE File(w) \/ Handoff(w)
        BY <1>1, <3>3 DEF SameVerdicts, File, Handoff, AssignIfUnowned, Row
      <3>4. QED
        BY <1>5, <3>1, <3>2, <3>3
    <2>2. trail' = trail
      BY <1>5
      DEF Claim, Read, Ask, Recheck, Reread, File, Handoff, Resolve, Release, ticketVars
    <2>3. SameEntries
      BY <2>2 DEF SameEntries, VerdictEntries
    <2>4. NobodyNewOwes
      <3>1. CASE Claim(w) \/ Reread(w) \/ Release(w)
        <4>1. CASE work' = [work EXCEPT ![w] = Idle]
          BY <1>1, <4>1, IdleOwesNothing
        <4>2. CASE Goto(w, "read")
          BY <1>1, <4>2, OwesMoves DEF Step, Resolving, Declining
        <4>3. CASE \E reason \in AUTO_REPLY_DECLINE \cup {"none"} : GiveBack(w, reason)
          BY <1>1, <4>3, OwesMoves
        <4>4. (IF DeclineFor(t) = "none" THEN "followUp" ELSE DeclineFor(t))
                 \in AUTO_REPLY_DECLINE \cup {"none"}
          BY <1>1, DeclineForType DEF AUTO_REPLY_DECLINE, GateReasons, RowsOK
        <4>5. CASE Claim(w)
          BY <4>1, <4>2, <4>5 DEF Claim, Return
        <4>6. CASE Reread(w)
          BY <4>1, <4>3, <4>4, <4>6 DEF Reread, Return
        <4>7. CASE Release(w)
          BY <1>5, <4>1, <4>7 DEF Release, Return, Throw, Claimed
        <4>8. QED
          BY <3>1, <4>5, <4>6, <4>7
      <3>2. CASE Read(w)
        <4>1. CASE DeclineFor(t) # "none"
          <5>1. DeclineFor(t) \in AUTO_REPLY_DECLINE \cup {"none"}
            BY <1>1, DeclineForType DEF RowsOK
          <5>2. QED
            BY <1>1, <3>2, <4>1, <5>1, OwesMoves DEF Read
        <4>2. CASE DeclineFor(t) = "none"
          <5>1. PICK item : item = [work[w] EXCEPT !.step = "ask",
                                      !.seenAt = rows[t].lastMessageAt,
                                      !.seenCategory = rows[t].category]
            OBVIOUS
          <5>2. work' = [work EXCEPT ![w].step = "ask",
                                     ![w].seenAt = rows[t].lastMessageAt,
                                     ![w].seenCategory = rows[t].category]
            BY <3>2, <4>2 DEF Read
          <5>3. work' = [work EXCEPT ![w] = item]
            BY <1>1, <5>1, <5>2 DEF Work
          <5>4. item.step = "ask"
            BY <1>1, <5>1 DEF Work
          <5>5. QED
            BY <1>1, <5>3, <5>4, OwesMoves DEF Resolving, Declining
        <4>3. QED
          BY <4>1, <4>2
      <3>3. CASE Ask(w) \/ Recheck(w)
        <4>1. \A reason \in Verdicts \cup {DeclineFor(t), "none"} :
                 reason \in AUTO_REPLY_DECLINE \cup {"none"}
          BY <1>1, DeclineForType, ConstantsAssumption DEF RowsOK, AUTO_REPLY_DECLINE
        <4>2. \/ \E reason \in AUTO_REPLY_DECLINE \cup {"none"} : GiveBack(w, reason)
              \/ Goto(w, "recheck") \/ Goto(w, "resolve")
          BY <3>3, <4>1 DEF Ask, Recheck
        <4>3. QED
          BY <1>1, <4>2, OwesMoves DEF Step, Resolving, Declining
      <3>4. CASE File(w) \/ Handoff(w) \/ Resolve(w)
        <4>1. \/ work[w].step \in Resolving /\ Goto(w, "logResolved")
              \/ work[w].step \in Declining /\ Goto(w, "logDeclined")
              \/ Goto(w, "reread")
          BY <1>5, <3>4
          DEF File, Handoff, Resolve, Resolving, Declining
        <4>2. QED
          BY <1>1, <4>1, OwesMoves DEF Step, Resolving, Declining
      <3>5. QED
        BY <1>5, <3>1, <3>2, <3>3, <3>4
    <2>5. QED
      BY <2>1, <2>3, <2>4, ToldKept
  <1>6. QED
    BY <1>2, <1>3, <1>4, <1>5 DEF HandlerStep

LEMMA EnqueueSameVerdicts ==
  ASSUME TypeOK, NEW t \in Tickets, EnqueueAutoReply(t), thread' = thread
  PROVE  SameVerdicts
  <1>1. rows \in [Tickets -> Row]
    BY DEF TypeOK
  <1>2. rows' = [rows EXCEPT ![t].offered = TRUE] \/ rows' = rows
    BY Zenon DEF EnqueueAutoReply
  <1>3. QED
    BY <1>1, <1>2 DEF SameVerdicts, Row

LEMMA TicketTold ==
  ASSUME IInv, Told, NEW t \in Tickets, TicketStep(t)
  PROVE  Told'
  <1>1. /\ TypeOK /\ rows \in [Tickets -> Row] /\ thread \in [Tickets -> Thread]
    BY DEF IInv, TypeOK
  <1>2. work' = work
    BY DEF TicketStep, ClassifierFiles, ClassifierOffers, CustomerReplies,
           ReopenLogs, ReopenTells, ReopenReroutes, ReopenDies, AgentAssigns,
           AgentMoves,
           AgentFiles, AgentReplies, Edit, Ages
  <1>3. NobodyNewOwes
    BY <1>2 DEF NobodyNewOwes, Owes
  <1>4. SameEntries
    <2>1. CASE ReopenLogs(t) \/ ReopenTells(t) \/ ReopenReroutes(t)
      <3>1. CASE trail' = trail
        BY <3>1 DEF SameEntries, VerdictEntries
      <3>2. CASE trail' # trail
        BY <1>1, <2>1, <3>2, OtherEntry DEF ReopenLogs, ReopenTells,
                                            ReopenReroutes
      <3>3. QED
        BY <3>1, <3>2
    <2>2. CASE ~(ReopenLogs(t) \/ ReopenTells(t) \/ ReopenReroutes(t))
      <3>1. trail' = trail
        BY <2>2
        DEF TicketStep, ClassifierFiles, ClassifierOffers, CustomerReplies,
            ReopenDies, AgentAssigns, AgentMoves, AgentFiles, AgentReplies, Edit,
            Ages, ticketVars
      <3>2. QED
        BY <3>1 DEF SameEntries, VerdictEntries
    <2>3. QED
      BY <2>1, <2>2
  <1>5. SameVerdicts
    <2>1. CASE ClassifierOffers(t)
      BY <1>1, <2>1, EnqueueSameVerdicts DEF ClassifierOffers
    <2>2. CASE ClassifierFiles(t) \/ AgentFiles(t) \/ AgentMoves(t)
      BY <1>1, <2>2 DEF SameVerdicts, ClassifierFiles, AgentFiles, AgentMoves, Row
    <2>3. CASE AgentAssigns(t) \/ ReopenReroutes(t)
      BY <1>1, <2>3 DEF SameVerdicts, AgentAssigns, ReopenReroutes, Row
    <2>4. CASE ReopenLogs(t) \/ ReopenTells(t) \/ ReopenDies(t) \/ Ages(t)
      BY <2>4 DEF SameVerdicts, ReopenLogs, ReopenTells, ReopenDies, Ages,
                  ticketVars
    <2>5. CASE AgentReplies(t)
      BY <1>1, <2>5 DEF SameVerdicts, AgentReplies, Row, Thread
    <2>6. CASE CustomerReplies(t)
      <3>1. \A u \in Tickets : thread'[u].byAssistant = thread[u].byAssistant
        BY <1>1, <2>6 DEF CustomerReplies, Thread
      <3>2. CASE rows[t].autoResolved
        BY <1>1, <2>6, <3>1, <3>2 DEF SameVerdicts, CustomerReplies, Row
      <3>3. CASE ~rows[t].autoResolved
        BY <1>1, <2>6, <3>1, <3>3 DEF SameVerdicts, CustomerReplies, Row
      <3>4. QED
        BY <3>2, <3>3
    <2>7. QED
      BY <2>1, <2>2, <2>3, <2>4, <2>5, <2>6 DEF TicketStep
  <1>6. QED
    BY <1>3, <1>4, <1>5, ToldKept

LEMMA StepTold ==
  ASSUME IInv, Told, [Next]_vars
  PROVE  Told'
  <1>1. /\ TypeOK /\ work \in [Handlers -> Work] /\ rows \in [Tickets -> Row]
    BY DEF IInv, TypeOK
  <1>2. ASSUME trail' = trail, SameVerdicts, NobodyNewOwes
        PROVE  Told'
    BY <1>2, ToldKept DEF SameEntries, VerdictEntries
  <1>3. ASSUME NEW w \in Handlers, HandlerStep(w)
        PROVE  Told'
    <2>1. work[w].step # "idle"
      BY <1>3
      DEF HandlerStep, Claim, Read, Ask, Recheck, Resolve, Reread, File,
          LogResolved, Release, Handoff, LogDeclined
    <2>2. work[w].ticket \in Tickets
      BY <2>1 DEF IInv, TypeOK
    <2>3. QED
      BY <1>3, <2>2, HandlerTold
  <1>4. ASSUME NEW w \in Handlers, Crash(w)
        PROVE  Told'
    BY <1>1, <1>2, <1>4, IdleOwesNothing DEF Crash, ticketVars, SameVerdicts
  <1>5. CASE QueueStep
    <2>1. rows' = rows /\ thread' = thread /\ trail' = trail
      BY <1>5 DEF QueueStep, Start, StartRepair, ExpireOrphan, ExpireStalled, ticketVars
    <2>2. NobodyNewOwes
      <3>1. ASSUME NEW w \in Handlers, NEW j \in JobIds, Start(w, j) \/ StartRepair(w, j)
            PROVE  NobodyNewOwes
        <4>1. PICK item : /\ work' = [work EXCEPT ![w] = item]
                          /\ item.step \in {"claim", "release"}
          <5>1. CASE Start(w, j)
            <6>1. PICK item : item = [Idle EXCEPT !.step = "claim", !.ticket = jobs[j].item]
              OBVIOUS
            <6>2. item.step = "claim"
              BY <6>1 DEF Idle
            <6>3. QED
              BY <5>1, <6>1, <6>2 DEF Start
          <5>2. CASE StartRepair(w, j)
            <6>1. PICK item : item = [Idle EXCEPT !.step = "release",
                                                  !.ticket = jobs[j].item,
                                                  !.reason = "unavailable"]
              OBVIOUS
            <6>2. item.step = "release"
              BY <6>1 DEF Idle
            <6>3. QED
              BY <5>2, <6>1, <6>2 DEF StartRepair
          <5>3. QED
            BY <3>1, <5>1, <5>2
        <4>2. QED
          BY <1>1, <4>1, OwesMoves DEF Resolving, Declining
      <3>2. ASSUME NEW j \in JobIds, ExpireOrphan(j) \/ ExpireStalled(j)
            PROVE  NobodyNewOwes
        BY <3>2 DEF ExpireOrphan, ExpireStalled, NobodyNewOwes, Owes
      <3>3. QED
        BY <1>5, <3>1, <3>2 DEF QueueStep
    <2>3. QED
      BY <1>2, <2>1, <2>2 DEF SameVerdicts
  <1>6. CASE SweepStep
    <2>1. thread' = thread /\ trail' = trail /\ work' = work
      BY <1>6 DEF SweepStep, SweepReads, SweepReleases, SweepEnqueues, SweepDies, ticketVars
    <2>2. SameVerdicts
      <3>1. CASE SweepEnqueues
        BY <1>1, <2>1, <3>1, EnqueueSameVerdicts DEF SweepEnqueues, TypeOK
      <3>2. CASE SweepReleases
        BY <1>1, <2>1, <3>2 DEF SweepReleases, SameVerdicts, Row
      <3>3. CASE SweepReads \/ SweepDies
        BY <3>3 DEF SweepReads, SweepDies, SameVerdicts, ticketVars
      <3>4. QED
        BY <1>6, <3>1, <3>2, <3>3 DEF SweepStep
    <2>3. QED
      BY <1>2, <2>1, <2>2 DEF NobodyNewOwes, Owes
  <1>7. CASE SwitchAutoReply \/ UNCHANGED vars
    BY <1>2, <1>7 DEF SwitchAutoReply, vars, ticketVars, SameVerdicts, NobodyNewOwes, Owes
  <1>8. QED
    BY <1>3, <1>4, <1>5, <1>6, <1>7, TicketTold DEF Next

LEMMA InitTold == Init => Told
  BY DEF Init, Told, ToldBy, Owes, VerdictEntries, Idle, Resolving, Declining

(* However often a job is delivered, repaired or killed, the activity      *)
(* trail tells one verdict of the machine's, and the one it reached: the   *)
(* entries of `resolveWithReply` and `release`, written calls later.       *)
THEOREM HistoryIsTold == Spec => []HistoryTellsOneVerdict
  <1>1. Init => Told
    BY InitTold
  <1>2. IInv /\ Told /\ [Next]_vars => Told'
    BY StepTold
  <1>3. IInv /\ Told => HistoryTellsOneVerdict
    <2>1. SUFFICES ASSUME IInv, Told, NEW t \in Tickets, NEW i \in VerdictEntries(t)
                   PROVE  /\ \A j \in VerdictEntries(t) : i = j
                          /\ trail[t][i] = "auto_resolved" <=> thread[t].byAssistant = 1
      BY DEF HistoryTellsOneVerdict
    <2>2. ToldBy(t) /\ TicketInv(t)
      BY <2>1 DEF Told, IInv
    <2>3. trail[t][i] \in {"auto_resolved", "auto_declined"}
      BY <2>1 DEF VerdictEntries
    <2>4. QED
      BY <2>1, <2>2, <2>3 DEF ToldBy, TicketInv
  <1>4. QED
    BY <1>1, <1>2, <1>3, InvariantHolds, PTL DEF Spec
-----------------------------------------------------------------------------
(* Owners.  A declined ticket without one is on its way to one, or has had *)
(* an agent's hand or a crash in between.                                  *)

Excused == spent.crashes > 0 \/ spent.edits > 0

OwnedBy(t) ==
    rows[t].decline # "none" /\ rows[t].assignee = "nobody" =>
       \E w \in Handlers : Owes(w, t, {"handoff"})

Owned == HandoffTarget # "nobody" => Excused \/ \A t \in Tickets : OwnedBy(t)

LEMMA ExcusedForGood ==
  ASSUME spent \in Budget,
         \/ spent' = spent
         \/ \E what \in {"edits", "failures", "crashes", "sweeps", "stalls"} : Spend(what)
  PROVE  /\ Excused => Excused'
         /\ Spend("crashes") \/ Spend("edits") => Excused'
  BY DEF Budget, Spend, Excused

(* Only a step that declines a ticket or takes its owner could leave it    *)
(* without one, or one that ends a hand-off.                               *)
OwnersKept(t) ==
    /\ rows'[t].decline # "none" => rows[t].decline # "none"
    /\ rows'[t].assignee = "nobody" => rows[t].assignee = "nobody"

LEMMA OwnedKept ==
  ASSUME NEW t \in Tickets, OwnedBy(t), OwnersKept(t),
         \A w \in Handlers : Owes(w, t, {"handoff"}) => Owes(w, t, {"handoff"})'
  PROVE  OwnedBy(t)'
  BY DEF OwnedBy, OwnersKept

(* A handler that was not handing over leaves the hand-offs as they are.   *)
LEMMA OtherHandoffs ==
  ASSUME NEW w \in Handlers, NEW t, ~Owes(w, t, {"handoff"}),
         \A v \in Handlers : v # w => work'[v] = work[v]
  PROVE  \A v \in Handlers : Owes(v, t, {"handoff"}) => Owes(v, t, {"handoff"})'
  BY DEF Owes

LEMMA OnlyItsOwn ==
  ASSUME TypeOK, NEW w \in Handlers, HandlerStep(w) \/ Crash(w)
  PROVE  \A v \in Handlers : v # w => work'[v] = work[v]
  BY DEF HandlerStep, Crash, Claim, Read, Ask, Recheck, Resolve, Reread, File,
         LogResolved, Release, Handoff, LogDeclined, Goto, GiveBack, Return, Throw,
         TypeOK

LEMMA HandlerOwned ==
  ASSUME TypeOK, NEW w \in Handlers, HandlerStep(w), HandoffTarget # "nobody",
         \A t \in Tickets : OwnedBy(t)
  PROVE  \A t \in Tickets : OwnedBy(t)'
  <1>1. PICK t : t = work[w].ticket
    OBVIOUS
  <1>2. /\ t \in Tickets
        /\ work \in [Handlers -> Work] /\ rows \in [Tickets -> Row]
    BY <1>1
    DEF TypeOK, HandlerStep, Claim, Read, Ask, Recheck, Resolve, Reread, File,
        LogResolved, Release, Handoff, LogDeclined
  <1>3. \A v \in Handlers : v # w => work'[v] = work[v]
    BY OnlyItsOwn
  <1>4. \A u \in Tickets : u # t => rows'[u] = rows[u]
    BY <1>1, <1>2
    DEF HandlerStep, Claim, Read, Ask, Recheck, Resolve, Reread, File, LogResolved,
        Release, Handoff, LogDeclined, AssignIfUnowned, ticketVars
  <1>5. ASSUME NEW u \in Tickets, u # t
        PROVE  OwnedBy(u)'
    <2>1. ~Owes(w, u, {"handoff"})
      BY <1>1, <1>5 DEF Owes
    <2>2. OwnersKept(u)
      BY <1>4, <1>5 DEF OwnersKept
    <2>3. QED
      BY <1>3, <2>1, <2>2, OtherHandoffs, OwnedKept
  <1>6. CASE Handoff(w)
    <2>1. rows'[t].assignee # "nobody"
      BY <1>1, <1>2, <1>6 DEF Handoff, AssignIfUnowned, Row
    <2>2. QED
      BY <1>5, <2>1 DEF OwnedBy
  <1>7. CASE Release(w) /\ work[w].reason # "none" /\ Claimed(t)
    <2>1. Goto(w, "handoff")
      BY <1>1, <1>7 DEF Release
    <2>2. Owes(w, t, {"handoff"})'
      BY <1>1, <1>2, <2>1 DEF Owes, Goto, Work
    <2>3. QED
      BY <1>5, <2>2 DEF OwnedBy
  <1>8. CASE /\ ~Handoff(w)
             /\ Release(w) => ~(work[w].reason # "none" /\ Claimed(t))
    <2>1. OwnersKept(t)
      BY <1>1, <1>2, <1>8
      DEF HandlerStep, Claim, Read, Ask, Recheck, Resolve, Reread, File, LogResolved,
          Release, LogDeclined, AssignIfUnowned, ticketVars, OwnersKept, Row
    <2>2. ~Owes(w, t, {"handoff"})
      BY <1>8
      DEF HandlerStep, Claim, Read, Ask, Recheck, Resolve, Reread, File, LogResolved,
          Release, LogDeclined, Owes
    <2>3. QED
      BY <1>2, <1>3, <1>5, <2>1, <2>2, OtherHandoffs, OwnedKept
  <1>9. QED
    BY <1>6, <1>7, <1>8

LEMMA StepOwned ==
  ASSUME TypeOK, TypeOK', Owned, [Next]_vars
  PROVE  Owned'
  <1>1. /\ rows \in [Tickets -> Row] /\ work \in [Handlers -> Work]
        /\ spent \in Budget
    BY DEF TypeOK
  <1>2. SUFFICES ASSUME HandoffTarget # "nobody"
                 PROVE  Excused' \/ \A t \in Tickets : OwnedBy(t)'
    BY DEF Owned
  <1>3. \/ spent' = spent
        \/ \E what \in {"edits", "failures", "crashes", "sweeps", "stalls"} : Spend(what)
    BY DEF Next, HandlerStep, Claim, Read, Ask, Recheck, Resolve, Reread, File,
           LogResolved, Release, Handoff, LogDeclined, Crash, QueueStep, Start,
           StartRepair, ExpireOrphan, ExpireStalled, SweepStep, SweepReads,
           SweepReleases, SweepEnqueues, SweepDies, TicketStep, ClassifierFiles,
           ClassifierOffers, CustomerReplies, ReopenLogs, ReopenTells,
           ReopenReroutes, ReopenDies,
           AgentAssigns, AgentMoves, AgentFiles, AgentReplies, Edit, Ages,
           SwitchAutoReply, vars
  <1>4. CASE Excused
    BY <1>1, <1>3, <1>4, ExcusedForGood
  <1>5. ASSUME Spend("crashes") \/ Spend("edits")
        PROVE  Excused'
    BY <1>1, <1>3, <1>5, ExcusedForGood
  <1>6. CASE \A t \in Tickets : OwnedBy(t)
    <2>1. ASSUME \A w \in Handlers : work[w].step = "handoff" => work'[w] = work[w],
                 \A t \in Tickets : OwnersKept(t)
          PROVE  \A t \in Tickets : OwnedBy(t)'
      BY <1>6, <2>1, OwnedKept DEF Owes
    <2>2. ASSUME NEW w \in Handlers, HandlerStep(w)
          PROVE  \A t \in Tickets : OwnedBy(t)'
      BY <1>2, <1>6, <2>2, HandlerOwned
    <2>3. ASSUME NEW w \in Handlers, Crash(w)
          PROVE  Excused'
      BY <1>5, <2>3 DEF Crash
    <2>4. CASE QueueStep
      <3>1. rows' = rows
        BY <2>4 DEF QueueStep, Start, StartRepair, ExpireOrphan, ExpireStalled, ticketVars
      <3>2. \A w \in Handlers : work[w].step = "handoff" => work'[w] = work[w]
        BY <1>1, <2>4 DEF QueueStep, Start, StartRepair, ExpireOrphan, ExpireStalled
      <3>3. QED
        BY <2>1, <3>1, <3>2 DEF OwnersKept
    <2>5. CASE SweepStep
      <3>1. work' = work
        BY <2>5 DEF SweepStep, SweepReads, SweepReleases, SweepEnqueues, SweepDies
      <3>2. \A t \in Tickets : OwnersKept(t)
        <4>1. CASE SweepEnqueues
          <5>1. rows' = [rows EXCEPT ![requeue].offered = TRUE] \/ rows' = rows
            BY <4>1, Zenon DEF SweepEnqueues, EnqueueAutoReply
          <5>2. QED
            BY <1>1, <5>1 DEF OwnersKept, Row
        <4>2. CASE SweepReleases
          BY <1>1, <4>2 DEF SweepReleases, OwnersKept, Row
        <4>3. CASE SweepReads \/ SweepDies
          BY <4>3 DEF SweepReads, SweepDies, OwnersKept, ticketVars
        <4>4. QED
          BY <2>5, <4>1, <4>2, <4>3 DEF SweepStep
      <3>3. QED
        BY <2>1, <3>1, <3>2
    <2>6. ASSUME NEW t \in Tickets, TicketStep(t)
          PROVE  Excused' \/ \A u \in Tickets : OwnedBy(u)'
      <3>1. work' = work
        BY <2>6
        DEF TicketStep, ClassifierFiles, ClassifierOffers, CustomerReplies,
            ReopenLogs, ReopenTells, ReopenReroutes, ReopenDies, AgentAssigns,
            AgentMoves,
            AgentFiles, AgentReplies, Edit, Ages
      <3>2. CASE AgentAssigns(t) \/ AgentMoves(t) \/ AgentFiles(t) \/ AgentReplies(t)
                 \/ ReopenDies(t)
        BY <1>5, <3>2
        DEF AgentAssigns, AgentMoves, AgentFiles, AgentReplies, Edit, ReopenDies
      <3>3. CASE ClassifierFiles(t) \/ ClassifierOffers(t) \/ CustomerReplies(t)
                 \/ ReopenLogs(t) \/ ReopenTells(t) \/ ReopenReroutes(t) \/ Ages(t)
        <4>1. \A u \in Tickets : OwnersKept(u)
          <5>1. CASE ClassifierOffers(t)
            <6>1. rows' = [rows EXCEPT ![t].offered = TRUE] \/ rows' = rows
              BY <5>1, Zenon DEF ClassifierOffers, EnqueueAutoReply
            <6>2. QED
              BY <1>1, <6>1 DEF OwnersKept, Row
          <5>2. CASE ClassifierFiles(t)
            BY <1>1, <5>2 DEF ClassifierFiles, OwnersKept, Row
          <5>3. CASE CustomerReplies(t) /\ rows[t].autoResolved
            BY <1>1, <5>3 DEF CustomerReplies, OwnersKept, Row
          <5>4. CASE CustomerReplies(t) /\ ~rows[t].autoResolved
            BY <1>1, <5>4 DEF CustomerReplies, OwnersKept, Row
          <5>5. CASE ReopenReroutes(t)
            BY <1>1, <1>2, <5>5 DEF ReopenReroutes, OwnersKept, Row
          <5>6. CASE ReopenLogs(t) \/ ReopenTells(t) \/ Ages(t)
            BY <5>6 DEF ReopenLogs, ReopenTells, Ages, OwnersKept, ticketVars
          <5>7. QED
            BY <3>3, <5>1, <5>2, <5>3, <5>4, <5>5, <5>6
        <4>2. QED
          BY <2>1, <3>1, <4>1
      <3>4. QED
        BY <2>6, <3>2, <3>3 DEF TicketStep
    <2>7. CASE SwitchAutoReply \/ UNCHANGED vars
      BY <2>1, <2>7 DEF SwitchAutoReply, vars, ticketVars, OwnersKept
    <2>8. QED
      BY <2>2, <2>3, <2>4, <2>5, <2>6, <2>7 DEF Next
  <1>7. QED
    BY <1>4, <1>6, <1>2 DEF Owned

(* A ticket the machine gives back goes to whoever the settings name, for  *)
(* any number of workers, unless a worker is killed between the two writes *)
(* of `release` or an agent has had a hand in it.                          *)
THEOREM HandedBack == Spec => []HandedBackIsOwned
  <1>1. Init => Owned
    BY DEF Init, Owned, OwnedBy
  <1>2. TypeOK /\ TypeOK' /\ Owned /\ [Next]_vars => Owned'
    BY StepOwned
  <1>3. Owned => HandedBackIsOwned
    BY DEF Owned, OwnedBy, Owes, Excused, HandedBackIsOwned
  <1>4. QED
    BY <1>1, <1>2, <1>3, TypeCorrect, PTL DEF Spec
-----------------------------------------------------------------------------
(* The rail.  A ticket the classifier has not filed is one nothing of this *)
(* module has touched: no offer, no verdict, no claim, and neither a job,  *)
(* a handler nor the sweep knows of it.                                    *)

UntouchedRow(row) ==
    ~row.offered /\ ~row.autoResolved /\ row.decline = "none" /\ row.status # "Processing"

FiledFirst(t) ==
    filing[t] = "unread" =>
       /\ UntouchedRow(rows[t])
       /\ t \notin stuck /\ requeue # t
       /\ \A w \in Handlers : work[w].ticket # t
       /\ \A j \in JobIds : jobs[j].item # t

EveryoneFiledFirst == \A t \in Tickets : FiledFirst(t)

(* What the queue does brings up no ticket, but for a send.                *)
NoNewJob == \A j \in JobIds : jobs'[j].item \in {jobs[j].item, "none"}

LEMMA JobsComeFromSends ==
  ASSUME Queue!QueueTypeOK, NEW w \in Handlers, NEW k \in JobIds,
         \/ Queue!Complete(w) \/ Queue!Fail(w) \/ Queue!Abandon(w)
         \/ Queue!Fetch(w, k) \/ Queue!FetchDead(w, k) \/ Queue!Expire(k)
         \/ UNCHANGED queueVars
  PROVE  NoNewJob
  <1>1. \A j \in JobIds : jobs[j] \in Queue!Job
    BY DEF Queue!QueueTypeOK
  <1>2. \A j \in JobIds : Queue!AfterFailure(jobs[j]).item \in {jobs[j].item, "none"}
    BY <1>1 DEF Queue!AfterFailure, Queue!NextAttempt, Queue!NoJob
  <1>3. Queue!NoJob.item = "none"
    BY DEF Queue!NoJob
  <1>4. held \in [Handlers -> JobIds \cup {"none"}] /\ jobs \in [JobIds -> Queue!Job]
    BY DEF Queue!QueueTypeOK
  <1>5. CASE Queue!Complete(w)
    BY <1>3, <1>4, <1>5 DEF Queue!Complete, NoNewJob
  <1>6. CASE Queue!Fail(w)
    BY <1>2, <1>4, <1>6 DEF Queue!Fail, NoNewJob
  <1>7. CASE Queue!Expire(k)
    BY <1>2, <1>4, <1>7 DEF Queue!Expire, NoNewJob
  <1>8. CASE Queue!Fetch(w, k) \/ Queue!FetchDead(w, k)
    BY <1>4, <1>8 DEF Queue!Fetch, Queue!FetchDead, NoNewJob, Queue!Job
  <1>9. CASE Queue!Abandon(w) \/ UNCHANGED queueVars
    BY <1>9 DEF Queue!Abandon, queueVars, NoNewJob
  <1>10. QED
    BY <1>5, <1>6, <1>7, <1>8, <1>9

(* A ticket stays untouched while nobody takes it up who did not know it.  *)
LEMMA StaysUntouched ==
  ASSUME NEW t \in Tickets, FiledFirst(t),
         filing'[t] = "unread" => filing[t] = "unread",
         filing[t] = "unread" /\ UntouchedRow(rows[t]) => UntouchedRow(rows'[t]),
         t \in stuck' => t \in stuck \/ rows[t].status = "Processing",
         requeue' = t => requeue = t \/ t \in stuck,
         \A w \in Handlers :
            \/ work'[w].ticket \in {work[w].ticket, "none"}
            \/ \E j \in JobIds : work'[w].ticket = jobs[j].item,
         \A j \in JobIds : jobs'[j].item = t =>
            jobs[j].item = t \/ requeue = t \/ filing[t] # "unread"
  PROVE  FiledFirst(t)'
  <1>1. t # "none"
    BY ConstantsAssumption
  <1>2. QED
    BY <1>1 DEF FiledFirst, UntouchedRow

LEMMA HandlerFiledFirst ==
  ASSUME TypeOK, EveryoneFiledFirst, NEW w \in Handlers, HandlerStep(w) \/ Crash(w)
  PROVE  EveryoneFiledFirst'
  <1>1. PICK u : u = work[w].ticket
    OBVIOUS
  <1>2. /\ u \in Tickets /\ work \in [Handlers -> Work] /\ rows \in [Tickets -> Row]
        /\ Queue!QueueTypeOK
    BY <1>1
    DEF TypeOK, HandlerStep, Claim, Read, Ask, Recheck, Resolve, Reread, File,
        LogResolved, Release, Handoff, LogDeclined, Crash
  <1>3. \A v \in Handlers : work'[v].ticket \in {work[v].ticket, "none"}
    <2>1. \A step \in Step : Goto(w, step) => work'[w].ticket = work[w].ticket
      BY <1>2 DEF Goto, Work
    <2>2. \A reason : GiveBack(w, reason) => work'[w].ticket = work[w].ticket
      BY <1>2 DEF GiveBack, Work
    <2>3. Return(w) \/ Throw(w) \/ Crash(w) => work'[w].ticket = "none"
      BY <1>2 DEF Return, Throw, Crash, Idle
    <2>4. CASE Read(w)
      <3>1. \/ GiveBack(w, DeclineFor(work[w].ticket))
            \/ \E at, c : work' = [work EXCEPT ![w].step = "ask", ![w].seenAt = at,
                                              ![w].seenCategory = c]
        BY <2>4 DEF Read
      <3>2. work'[w].ticket = work[w].ticket
        BY <1>2, <2>2, <3>1 DEF Work
      <3>3. QED
        BY <3>2, OnlyItsOwn, <2>4 DEF HandlerStep
    <2>5. CASE ~Read(w)
      <3>1. \/ \E step \in Step : Goto(w, step)
            \/ \E reason : GiveBack(w, reason)
            \/ Return(w) \/ Throw(w) \/ Crash(w)
        BY <2>5 DEF HandlerStep, Claim, Ask, Recheck, Resolve, Reread, File,
                    LogResolved, Release, Handoff, LogDeclined, Step
      <3>2. work'[w].ticket \in {work[w].ticket, "none"}
        BY <2>1, <2>2, <2>3, <3>1
      <3>3. QED
        BY <3>2, OnlyItsOwn
    <2>6. QED
      BY <2>4, <2>5
  <1>4. \A t \in Tickets : t # u => rows'[t] = rows[t]
    BY <1>1, <1>2
    DEF HandlerStep, Claim, Read, Ask, Recheck, Resolve, Reread, File, LogResolved,
        Release, Handoff, LogDeclined, Crash, AssignIfUnowned, ticketVars
  <1>5. UNCHANGED <<filing, stuck, requeue>>
    BY DEF HandlerStep, Claim, Read, Ask, Recheck, Resolve, Reread, File, LogResolved,
           Release, Handoff, LogDeclined, Crash, worldVars, sweepVars
  <1>6. \/ Queue!Complete(w) \/ Queue!Fail(w) \/ Queue!Abandon(w)
        \/ UNCHANGED queueVars
    BY DEF HandlerStep, Claim, Read, Ask, Recheck, Resolve, Reread, File, LogResolved,
           Release, Handoff, LogDeclined, Crash, Return, Throw
  <1>7. NoNewJob
    BY <1>2, <1>6, JobsComeFromSends DEF NoNewJob
  <1>8. filing[u] # "unread"
    BY <1>1, <1>2 DEF EveryoneFiledFirst, FiledFirst
  <1>9. ASSUME NEW t \in Tickets
        PROVE  FiledFirst(t)'
    <2>1. filing[t] = "unread" => rows'[t] = rows[t]
      BY <1>4, <1>8
    <2>2. \A j \in JobIds : jobs'[j].item = t => jobs[j].item = t
      BY <1>7, ConstantsAssumption DEF NoNewJob
    <2>3. QED
      BY <1>3, <1>5, <2>1, <2>2, StaysUntouched DEF EveryoneFiledFirst
  <1>10. QED
    BY <1>9 DEF EveryoneFiledFirst

LEMMA QueueFiledFirst ==
  ASSUME TypeOK, EveryoneFiledFirst, QueueStep
  PROVE  EveryoneFiledFirst'
  <1>1. work \in [Handlers -> Work] /\ Queue!QueueTypeOK
    BY DEF TypeOK
  <1>2. UNCHANGED <<rows, filing, stuck, requeue>>
    BY DEF QueueStep, Start, StartRepair, ExpireOrphan, ExpireStalled, ticketVars,
           worldVars, sweepVars
  <1>3. \A v \in Handlers :
          \/ work'[v].ticket \in {work[v].ticket, "none"}
          \/ \E j \in JobIds : work'[v].ticket = jobs[j].item
    BY <1>1 DEF QueueStep, Start, StartRepair, ExpireOrphan, ExpireStalled, Idle
  <1>4. NoNewJob
    <2>1. CASE \E w \in Handlers, j \in JobIds : Start(w, j) \/ StartRepair(w, j)
      BY <1>1, <2>1, JobsComeFromSends DEF Start, StartRepair
    <2>2. ASSUME NEW k \in JobIds, ExpireOrphan(k) \/ ExpireStalled(k)
          PROVE  NoNewJob
      <3>1. Queue!Expire(k) /\ k \in JobIds
        BY <2>2 DEF ExpireOrphan, ExpireStalled
      <3>2. \A j \in JobIds : Queue!AfterFailure(jobs[j]).item \in {jobs[j].item, "none"}
        BY <1>1 DEF Queue!AfterFailure, Queue!NextAttempt, Queue!NoJob
      <3>3. QED
        BY <1>1, <3>1, <3>2 DEF Queue!Expire, NoNewJob, Queue!QueueTypeOK
    <2>3. QED
      BY <2>1, <2>2 DEF QueueStep
  <1>5. ASSUME NEW t \in Tickets
        PROVE  FiledFirst(t)'
    <2>1. \A j \in JobIds : jobs'[j].item = t => jobs[j].item = t
      BY <1>4, ConstantsAssumption DEF NoNewJob
    <2>2. QED
      BY <1>2, <1>3, <2>1, StaysUntouched DEF EveryoneFiledFirst
  <1>6. QED
    BY <1>5 DEF EveryoneFiledFirst

(* An offer brings up a ticket that is known already.                      *)
LEMMA OfferFiledFirst ==
  ASSUME TypeOK, NEW x \in Tickets, EnqueueAutoReply(x)
  PROVE  /\ \A t \in Tickets : t # x => rows'[t] = rows[t]
         /\ \A j \in JobIds : jobs'[j].item \in {jobs[j].item, x}
  <1>1. rows \in [Tickets -> Row] /\ jobs \in [JobIds -> Queue!Job]
    BY DEF TypeOK, Queue!QueueTypeOK
  <1>2. CASE enabled
    BY <1>1, <1>2 DEF EnqueueAutoReply, Queue!Send
  <1>3. CASE ~enabled
    BY <1>3 DEF EnqueueAutoReply
  <1>4. QED
    BY <1>2, <1>3

LEMMA SweepFiledFirst ==
  ASSUME TypeOK, EveryoneFiledFirst, SweepStep
  PROVE  EveryoneFiledFirst'
  <1>1. /\ rows \in [Tickets -> Row] /\ stuck \in SUBSET Tickets
        /\ requeue \in Tickets \cup {"none"}
    BY DEF TypeOK
  <1>2. work' = work /\ filing' = filing
    BY DEF SweepStep, SweepReads, SweepReleases, SweepEnqueues, SweepDies, worldVars
  <1>3. CASE SweepReads
    <2>1. rows' = rows /\ jobs' = jobs /\ requeue' = requeue
      BY <1>3 DEF SweepReads, ticketVars, queueVars
    <2>2. \A t \in stuck' : rows[t].status = "Processing"
      BY <1>3 DEF SweepReads, Abandoned, Stallable
    <2>3. QED
      BY <1>2, <2>1, <2>2, StaysUntouched DEF EveryoneFiledFirst
  <1>4. CASE SweepReleases
    <2>1. PICK x \in stuck :
            /\ rows' = IF rows[x].status = "Processing"
                       THEN [rows EXCEPT ![x].status = "New"] ELSE rows
            /\ stuck' = stuck \ {x} /\ requeue' = x
      BY <1>4 DEF SweepReleases
    <2>2. jobs' = jobs
      BY <1>4 DEF SweepReleases, queueVars
    <2>3. \A t \in Tickets : t # x => rows'[t] = rows[t]
      BY <1>1, <2>1
    <2>4. filing[x] # "unread"
      BY <1>1, <2>1 DEF EveryoneFiledFirst, FiledFirst
    <2>5. QED
      BY <1>1, <1>2, <2>1, <2>2, <2>3, <2>4, StaysUntouched DEF EveryoneFiledFirst
  <1>5. CASE SweepEnqueues
    <2>1. /\ requeue \in Tickets /\ EnqueueAutoReply(requeue) /\ stuck' = stuck
          /\ requeue' = "none"
      BY <1>1, <1>5 DEF SweepEnqueues
    <2>2. /\ \A t \in Tickets : t # requeue => rows'[t] = rows[t]
          /\ \A j \in JobIds : jobs'[j].item \in {jobs[j].item, requeue}
      BY <2>1, OfferFiledFirst
    <2>3. filing[requeue] # "unread"
      BY <2>1 DEF EveryoneFiledFirst, FiledFirst
    <2>4. QED
      BY <1>2, <2>1, <2>2, <2>3, StaysUntouched, ConstantsAssumption
      DEF EveryoneFiledFirst
  <1>6. CASE SweepDies
    <2>1. rows' = rows /\ jobs' = jobs /\ requeue' = "none" /\ stuck' = {}
      BY <1>6 DEF SweepDies, ticketVars, queueVars
    <2>2. QED
      BY <1>2, <2>1, StaysUntouched, ConstantsAssumption DEF EveryoneFiledFirst
  <1>7. QED
    BY <1>3, <1>4, <1>5, <1>6 DEF SweepStep

LEMMA TicketFiledFirst ==
  ASSUME TypeOK, EveryoneFiledFirst, NEW x \in Tickets, TicketStep(x)
  PROVE  EveryoneFiledFirst'
  <1>1. rows \in [Tickets -> Row] /\ filing \in [Tickets -> {"unread", "filed", "done"}]
    BY DEF TypeOK
  <1>2. UNCHANGED <<work, stuck, requeue>>
    BY DEF TicketStep, ClassifierFiles, ClassifierOffers, CustomerReplies,
           ReopenLogs, ReopenTells,
           ReopenReroutes, ReopenDies, AgentAssigns, AgentMoves, AgentFiles,
           AgentReplies, Edit, Ages, sweepVars
  <1>3. CASE ClassifierFiles(x)
    <2>1. /\ filing' = [filing EXCEPT ![x] = "filed"] /\ jobs' = jobs
          /\ \A t \in Tickets : t # x => rows'[t] = rows[t]
      BY <1>1, <1>3 DEF ClassifierFiles, queueVars
    <2>2. ASSUME NEW t \in Tickets
          PROVE  FiledFirst(t)'
      <3>1. CASE t = x
        BY <1>1, <2>1, <3>1 DEF FiledFirst
      <3>2. CASE t # x
        BY <1>1, <1>2, <2>1, <3>2, StaysUntouched DEF EveryoneFiledFirst
      <3>3. QED
        BY <3>1, <3>2
    <2>3. QED
      BY <2>2 DEF EveryoneFiledFirst
  <1>4. CASE ClassifierOffers(x)
    <2>1. /\ filing' = [filing EXCEPT ![x] = "done"] /\ filing[x] = "filed"
          /\ EnqueueAutoReply(x)
      BY <1>4 DEF ClassifierOffers
    <2>2. QED
      BY <1>1, <1>2, <2>1, OfferFiledFirst, StaysUntouched DEF EveryoneFiledFirst
  <1>5. CASE ~ClassifierFiles(x) /\ ~ClassifierOffers(x)
    <2>1. filing' = filing /\ jobs' = jobs
      BY <1>5
      DEF TicketStep, CustomerReplies, ReopenLogs, ReopenTells, ReopenReroutes,
          ReopenDies,
          AgentAssigns, AgentMoves, AgentFiles, AgentReplies, Edit, Ages, worldVars,
          queueVars
    <2>2. \A t \in Tickets : UntouchedRow(rows[t]) => UntouchedRow(rows'[t])
      BY <1>1, <1>5
      DEF TicketStep, CustomerReplies, ReopenLogs, ReopenTells, ReopenReroutes,
          ReopenDies,
          AgentAssigns, AgentMoves, AgentFiles, AgentReplies, Edit, Ages, UntouchedRow,
          ticketVars, Row, AGENT_SETTABLE_STATUS
    <2>3. QED
      BY <1>2, <2>1, <2>2, StaysUntouched DEF EveryoneFiledFirst
  <1>6. QED
    BY <1>3, <1>4, <1>5

LEMMA FiledFirstInit == Init => EveryoneFiledFirst
  BY ConstantsAssumption
  DEF Init, EveryoneFiledFirst, FiledFirst, UntouchedRow, Idle, Queue!QueueInit,
      Queue!NoJob

LEMMA FiledFirstStep == TypeOK /\ EveryoneFiledFirst /\ [Next]_vars => EveryoneFiledFirst'
  <1> SUFFICES ASSUME TypeOK, EveryoneFiledFirst, [Next]_vars
               PROVE  EveryoneFiledFirst'
    OBVIOUS
  <1>1. CASE SwitchAutoReply \/ UNCHANGED vars
    BY <1>1
    DEF SwitchAutoReply, vars, ticketVars, sweepVars, queueVars, EveryoneFiledFirst,
        FiledFirst
  <1>2. QED
    BY <1>1, HandlerFiledFirst, QueueFiledFirst, SweepFiledFirst, TicketFiledFirst
    DEF Next

(* Counting disjoint parts.                                                *)
LEMMA Apart ==
  \A S, T : IsFiniteSet(S) /\ IsFiniteSet(T) /\ S \cap T = {} =>
     /\ IsFiniteSet(S \cup T) /\ Cardinality(S) \in Nat /\ Cardinality(T) \in Nat
     /\ Cardinality(S \cup T) = Cardinality(S) + Cardinality(T)
  <1> SUFFICES ASSUME NEW S, NEW T, IsFiniteSet(S), IsFiniteSet(T), S \cap T = {}
               PROVE  /\ IsFiniteSet(S \cup T)
                      /\ Cardinality(S) \in Nat /\ Cardinality(T) \in Nat
                      /\ Cardinality(S \cup T) = Cardinality(S) + Cardinality(T)
    OBVIOUS
  <1>1. Cardinality(S) \in Nat /\ Cardinality(T) \in Nat
    BY FS_CardinalityType
  <1>2. Cardinality(S \cap T) = 0
    BY FS_EmptySet
  <1>3. /\ IsFiniteSet(S \cup T)
        /\ Cardinality(S \cup T)
             = Cardinality(S) + Cardinality(T) - Cardinality(S \cap T)
    BY FS_Union
  <1>4. QED
    BY <1>1, <1>2, <1>3

AtStage(stage) == {t \in Declined : DeclineStage(rows[t].decline) = stage}

ByHand == {t \in NoAutoReplyVerdict : /\ rows[t].offered
                                      /\ HasOutbound(t)
                                      /\ rows[t].status # "Processing"}

(* The filed tickets, parted: those declined, by stop, those resolved, and *)
(* those without a verdict.                                                *)
LEMMA FiledParted ==
  ASSUME IInv, EveryoneFiledFirst
  PROVE  /\ ClassifierFiled = Declined \cup (AssistantResolved \cup NoAutoReplyVerdict)
         /\ Declined \cap (AssistantResolved \cup NoAutoReplyVerdict) = {}
         /\ AssistantResolved \cap NoAutoReplyVerdict = {}
         /\ NoAutoReplyVerdict
               = AutoReplyPending \cup (AutoReplyNotOffered \cup ByHand)
         /\ AutoReplyPending \cap (AutoReplyNotOffered \cup ByHand) = {}
         /\ AutoReplyNotOffered \cap ByHand = {}
  <1>1. Declined \subseteq ClassifierFiled /\ AssistantResolved \subseteq ClassifierFiled
    BY DEF EveryoneFiledFirst, FiledFirst, UntouchedRow, Declined, AssistantResolved,
           ClassifierFiled
  <1>2. Declined \cap AssistantResolved = {}
    BY DEF IInv, TicketInv, Declined, AssistantResolved
  <1>3. \A t \in Tickets : rows[t].offered \in BOOLEAN
    BY DEF IInv, TypeOK, Row
  <1>4. NoAutoReplyVerdict = AutoReplyPending \cup (AutoReplyNotOffered \cup ByHand)
    BY <1>3 DEF NoAutoReplyVerdict, AutoReplyPending, AutoReplyNotOffered, ByHand,
                AutoReplyWillStillAct, ClassifierFiled
  <1>5. /\ AutoReplyPending \cap (AutoReplyNotOffered \cup ByHand) = {}
        /\ AutoReplyNotOffered \cap ByHand = {}
    BY DEF AutoReplyPending, AutoReplyNotOffered, ByHand, AutoReplyWillStillAct
  <1>6. QED
    BY <1>1, <1>2, <1>4, <1>5 DEF NoAutoReplyVerdict

(* Every decline leaves the rail at one stop.                              *)
LEMMA DeclinedParted ==
  /\ Declined = AtStage("eligible") \cup (AtStage("drafted") \cup AtStage("checked"))
  /\ AtStage("eligible") \cap (AtStage("drafted") \cup AtStage("checked")) = {}
  /\ AtStage("drafted") \cap AtStage("checked") = {}
  BY DEF AtStage, DeclineStage

LEMMA RailSound ==
  ASSUME IInv, EveryoneFiledFirst
  PROVE  RailAddsUp
  <1>1. /\ IsFiniteSet(AtStage("eligible")) /\ IsFiniteSet(AtStage("drafted"))
        /\ IsFiniteSet(AtStage("checked")) /\ IsFiniteSet(AssistantResolved)
        /\ IsFiniteSet(AutoReplyPending) /\ IsFiniteSet(AutoReplyNotOffered)
        /\ IsFiniteSet(ByHand)
    <2>1. /\ AtStage("eligible") \subseteq Tickets /\ AtStage("drafted") \subseteq Tickets
          /\ AtStage("checked") \subseteq Tickets /\ AssistantResolved \subseteq Tickets
          /\ AutoReplyPending \subseteq Tickets /\ AutoReplyNotOffered \subseteq Tickets
          /\ ByHand \subseteq Tickets
      BY DEF AtStage, Declined, AssistantResolved, AutoReplyPending,
             AutoReplyNotOffered, ByHand, NoAutoReplyVerdict, ClassifierFiled
    <2>2. QED
      BY <2>1, PipelineAssumption, FS_Subset
  <1> DEFINE undecided == AutoReplyNotOffered \cup ByHand
             late == AtStage("drafted") \cup AtStage("checked")
             rest == AssistantResolved \cup NoAutoReplyVerdict
  <1>a. /\ ClassifierFiled = Declined \cup rest /\ Declined \cap rest = {}
        /\ AssistantResolved \cap NoAutoReplyVerdict = {}
        /\ NoAutoReplyVerdict = AutoReplyPending \cup undecided
        /\ AutoReplyPending \cap undecided = {}
        /\ AutoReplyNotOffered \cap ByHand = {}
    BY FiledParted
  <1>2. /\ IsFiniteSet(undecided) /\ Cardinality(AutoReplyNotOffered) \in Nat
        /\ Cardinality(ByHand) \in Nat
        /\ Cardinality(undecided) = Cardinality(AutoReplyNotOffered) + Cardinality(ByHand)
    BY <1>1, <1>a, Apart
  <1>3. /\ IsFiniteSet(NoAutoReplyVerdict) /\ Cardinality(AutoReplyPending) \in Nat
        /\ Cardinality(NoAutoReplyVerdict)
             = Cardinality(AutoReplyPending) + Cardinality(undecided)
    BY <1>1, <1>2, <1>a, Apart
  <1>4. /\ IsFiniteSet(rest) /\ Cardinality(AssistantResolved) \in Nat
        /\ Cardinality(rest)
             = Cardinality(AssistantResolved) + Cardinality(NoAutoReplyVerdict)
    BY <1>1, <1>3, <1>a, Apart
  <1>5. /\ IsFiniteSet(late) /\ Cardinality(AtStage("drafted")) \in Nat
        /\ Cardinality(AtStage("checked")) \in Nat
        /\ Cardinality(late)
             = Cardinality(AtStage("drafted")) + Cardinality(AtStage("checked"))
    BY <1>1, DeclinedParted, Apart
  <1>6. /\ IsFiniteSet(Declined) /\ Cardinality(AtStage("eligible")) \in Nat
        /\ Cardinality(Declined) = Cardinality(AtStage("eligible")) + Cardinality(late)
    BY <1>1, <1>5, DeclinedParted, Apart
  <1>7. Cardinality(ClassifierFiled) = Cardinality(Declined) + Cardinality(rest)
    BY <1>4, <1>6, <1>a, Apart
  <1>8. /\ DeclinedAt("eligible") = Cardinality(AtStage("eligible"))
        /\ DeclinedAt("drafted") = Cardinality(AtStage("drafted"))
        /\ DeclinedAt("checked") = Cardinality(AtStage("checked"))
    BY DEF DeclinedAt, AtStage
  <1>9. StageCount("checked") = (Cardinality(ClassifierFiled) - DeclinedAt("eligible"))
                                   - DeclinedAt("drafted")
    BY DEF StageCount
  <1>10. StageCount("resolved") = Cardinality(AssistantResolved)
    BY DEF StageCount
  <1>11. StageCount("checked")
           = DeclinedAt("checked") + StageCount("resolved")
             + Cardinality(AutoReplyPending) + Cardinality(AutoReplyNotOffered)
             + Cardinality(ByHand)
    <2> HIDE DEF undecided, late, rest
    <2> QED
      BY <1>2, <1>3, <1>4, <1>5, <1>6, <1>7, <1>8, <1>9, <1>10
  <1>12. AutoReplyPending = {t \in ClassifierFiled : Outcome(t) = "pending"}
    BY DEF AutoReplyPending, NoAutoReplyVerdict, Outcome, DeclineOutcome,
           AutoReplyWillStillAct, ClassifierWillStillAct, ClassifierFiled
  <1>13. QED
    BY <1>11, <1>12 DEF RailAddsUp, ByHand

(* Theorem: the rail of the pipeline screen adds up, for any number of     *)
(* tickets: no ticket leaves it twice, by two exits or by an exit and the  *)
(* bottom, and none that was not filed leaves it at all.                   *)
THEOREM RailIsWhole == Spec => []RailAddsUp
  BY FiledFirstInit, FiledFirstStep, RailSound, TypeCorrect, InvariantHolds, PTL DEF Spec

-----------------------------------------------------------------------------
(* A waiting ticket's job.  What can leave a waiting ticket with nothing   *)
(* coming for it has a name each: a moving switch, a second edit (an agent *)
(* takes a New ticket and gives it back), a stall, a killed sweep, and     *)
(* retries that run out.                                                   *)

Mishaps == spent.failures + spent.crashes

Undisturbed ==
    /\ ~SwitchMoves
    /\ spent.edits < 2 /\ spent.stalls = 0 /\ spent.sweeps = 0
    /\ Mishaps <= RetryLimit

(* Without a stall every handler at work holds the job it was given.       *)
HasItsJob(w) ==
    /\ held[w] \in JobIds
    /\ jobs[held[w]].state = "active"
    /\ jobs[held[w]].item = work[w].ticket

JobsHeld ==
    /\ \A w \in Handlers :
          IF work[w].step = "idle" THEN held[w] = "none" ELSE HasItsJob(w)
    /\ \A v, w \in Handlers : held[v] = held[w] /\ held[v] # "none" => v = w

(* Attempts are counted by the mishaps that cost them: one already behind  *)
(* the job, or one that is lost and has not been noticed yet.              *)
GivesUp(w) == work[w].step = "release" /\ work[w].reason = "none"

Lost(j) ==
    jobs[j].state = "active" /\ \A w \in Handlers : held[w] = j => GivesUp(w)

TriesLeft ==
    \A j \in JobIds :
       /\ jobs[j].state \in {"free", "created", "active"}
       /\ jobs[j].tries <= Mishaps
       /\ Lost(j) => jobs[j].tries < Mishaps

(* A claim is one handler's, and neither New nor on the sweep's list.      *)
Claims(w, t) == work[w].ticket = t /\ work[w].step \notin {"idle", "claim"}

ClaimsApart ==
    \A t \in Tickets :
       /\ \A v, w \in Handlers : Claims(v, t) /\ Claims(w, t) => v = w
       /\ (\E w \in Handlers : Claims(w, t)) => rows[t].status # "New" /\ t \notin stuck
       /\ t \in stuck => rows[t].status # "New"

(* Before its verdict only an agent names a ticket's owner.                *)
OwnedByEdit ==
    \A t \in Tickets :
       rows[t].status \in {"New", "Processing"} =>
          /\ rows[t].assignee # "assistant"
          /\ rows[t].assignee # "nobody" => spent.edits > 0

Calm == enabled /\ JobsHeld /\ TriesLeft /\ ClaimsApart /\ OwnedByEdit /\ WaitingHasJob

(* Steps by what they do to handlers, jobs and rows.  A row is left as it  *)
(* was, in what is asked about here, or is past New and Processing.        *)
Steady(t) ==
    /\ rows'[t].status = rows[t].status
    /\ rows'[t].assignee = rows[t].assignee
    /\ rows'[t].offered = rows[t].offered

Past(t) == rows'[t].status \notin {"New", "Processing"}

QuietRows == \A t \in Tickets : Steady(t) \/ Past(t)

Waits(t) == rows[t].status = "New" /\ rows[t].assignee = "nobody"

Goes(w) ==
    /\ work[w].step \notin {"idle", "claim"}
    /\ \A v \in Handlers : v # w => work'[v] = work[v]
    /\ work'[w].ticket = work[w].ticket
    /\ work'[w].step \notin {"idle", "claim"}
    /\ IF GivesUp(w)' THEN Spend("failures") ELSE UNCHANGED spent
    /\ QuietRows
    /\ UNCHANGED <<queueVars, sweepVars, enabled>>

TakesTicket(w) ==
    /\ work[w].step = "claim"
    /\ Waits(work[w].ticket)
    /\ Goto(w, "read")
    /\ rows' = [rows EXCEPT ![work[w].ticket].status = "Processing"]
    /\ UNCHANGED <<queueVars, sweepVars, enabled, spent>>

Returns(w) ==
    /\ work[w].step # "idle"
    /\ Return(w)
    /\ ~Waits(work[w].ticket)
    /\ UNCHANGED <<rows, sweepVars, enabled, spent>>

Throws(w) ==
    /\ GivesUp(w)
    /\ Throw(w)
    /\ rows' = IF Claimed(work[w].ticket)
               THEN [rows EXCEPT ![work[w].ticket].status = "New"] ELSE rows
    /\ UNCHANGED <<sweepVars, enabled, spent>>

Aside ==
    /\ QuietRows
    /\ spent' = spent \/ \E what \in DOMAIN spent : Spend(what)
    /\ UNCHANGED <<work, queueVars, sweepVars, enabled>>

LEMMA Moved ==
  ASSUME work \in [Handlers -> Work], NEW w \in Handlers
  PROVE  /\ \A step \in Step : Goto(w, step) =>
              /\ work'[w].ticket = work[w].ticket /\ work'[w].step = step
              /\ \A v \in Handlers : v # w => work'[v] = work[v]
         /\ \A reason : GiveBack(w, reason) =>
              /\ work'[w].ticket = work[w].ticket /\ work'[w].step = "release"
              /\ work'[w].reason = reason
              /\ \A v \in Handlers : v # w => work'[v] = work[v]
         /\ work' = [work EXCEPT ![w] = Idle] =>
              /\ work'[w] = Idle
              /\ \A v \in Handlers : v # w => work'[v] = work[v]
  BY DEF Goto, GiveBack, Work

LEMMA HandlerKind ==
  ASSUME IInv, Told, ClaimsApart, OwnedByEdit, NEW w \in Handlers, HandlerStep(w)
  PROVE  Goes(w) \/ TakesTicket(w) \/ Returns(w) \/ Throws(w)
  <1>1. PICK t : t = work[w].ticket
    OBVIOUS
  <1>2. /\ t \in Tickets /\ work \in [Handlers -> Work]
        /\ rows \in [Tickets -> Row] /\ thread \in [Tickets -> Thread]
        /\ TicketInv(t) /\ RowsOK
    BY <1>1
    DEF IInv, TypeOK, RowsOK, HandlerStep, Claim, Read, Ask, Recheck, Resolve, Reread,
        File, LogResolved, Release, Handoff, LogDeclined
  <1>3. work[w].step \notin {"idle", "claim"} => Claims(w, t) /\ rows[t].status # "New"
    BY <1>1, <1>2 DEF ClaimsApart, Claims
  <1>4. UNCHANGED rows => QuietRows
    BY DEF QuietRows, Steady
  <1>5. CASE Claim(w)
    BY <1>1, <1>5 DEF Claim, TakesTicket, Returns, Waits, sweepVars, worldVars
  <1>6. CASE Read(w)
    <2>1. CASE DeclineFor(t) # "none"
      BY <1>1, <1>2, <1>4, <1>6, <2>1, Moved DEF Read, Goes, GivesUp, ticketVars, worldVars
    <2>2. CASE DeclineFor(t) = "none"
      <3>1. work' = [work EXCEPT ![w].step = "ask",
                                 ![w].seenAt = rows[t].lastMessageAt,
                                 ![w].seenCategory = rows[t].category]
        BY <1>1, <1>6, <2>2 DEF Read
      <3>2. /\ work'[w].ticket = work[w].ticket /\ work'[w].step = "ask"
            /\ \A v \in Handlers : v # w => work'[v] = work[v]
        BY <1>2, <3>1 DEF Work
      <3>3. QED
        BY <1>4, <1>6, <3>2 DEF Read, Goes, GivesUp, ticketVars, worldVars
    <2>3. QED
      BY <2>1, <2>2
  <1>7. CASE Ask(w)
    <2>1. "none" \notin Verdicts
      BY ConstantsAssumption DEF ModelReasons
    <2>2. "recheck" \in Step /\ UNCHANGED rows
      BY <1>7 DEF Step, Ask, ticketVars
    <2>3. CASE Goto(w, "recheck") /\ UNCHANGED spent
      BY <1>2, <1>4, <1>7, <2>2, <2>3, Moved DEF Ask, Goes, GivesUp, worldVars
    <2>4. CASE (\E reason \in Verdicts : GiveBack(w, reason)) /\ UNCHANGED spent
      BY <1>2, <1>4, <1>7, <2>1, <2>2, <2>4, Moved DEF Ask, Goes, GivesUp, worldVars
    <2>5. CASE GiveBack(w, "none") /\ Spend("failures")
      BY <1>2, <1>4, <1>7, <2>2, <2>5, Moved DEF Ask, Goes, GivesUp, worldVars
    <2>6. QED
      BY <1>7, <2>3, <2>4, <2>5 DEF Ask
  <1>8. CASE Recheck(w)
    <2>1. "resolve" \in Step /\ UNCHANGED rows
      BY <1>8 DEF Step, Recheck, ticketVars
    <2>2. QED
      BY <1>1, <1>2, <1>4, <1>8, <2>1, Moved DEF Recheck, Goes, GivesUp, worldVars
  <1>9. CASE Resolve(w)
    <2>1. {"file", "reread"} \subseteq Step
      BY DEF Step
    <2>2. /\ work'[w].ticket = work[w].ticket /\ work'[w].step \in {"file", "reread"}
          /\ \A v \in Handlers : v # w => work'[v] = work[v]
      BY <1>2, <1>9, <2>1, Moved DEF Resolve
    <2>3. QuietRows
      BY <1>1, <1>2, <1>9 DEF Resolve, QuietRows, Steady, Past, Row
    <2>4. QED
      BY <1>9, <2>2, <2>3 DEF Resolve, Goes, GivesUp, worldVars
  <1>10. CASE Reread(w)
    <2>1. CASE rows[t].status # "Processing" /\ Return(w)
      BY <1>1, <1>3, <1>10, <2>1 DEF Reread, Returns, Waits, ticketVars, worldVars
    <2>2. CASE GiveBack(w, IF DeclineFor(t) = "none" THEN "followUp" ELSE DeclineFor(t))
               /\ UNCHANGED queueVars
      <3>1. (IF DeclineFor(t) = "none" THEN "followUp" ELSE DeclineFor(t)) # "none"
        OBVIOUS
      <3>2. QED
        BY <1>2, <1>4, <1>10, <2>2, <3>1, Moved
        DEF Reread, Goes, GivesUp, ticketVars, worldVars
    <2>3. QED
      BY <1>1, <1>10, <2>1, <2>2 DEF Reread
  <1>11. CASE File(w) \/ Handoff(w)
    <2>1. rows[t].decline # "none" \/ thread[t].byAssistant = 1
      BY <1>1, <1>2, <1>11
      DEF Told, ToldBy, Owes, File, Handoff, Resolving, Declining
    <2>2. rows[t].status \notin {"New", "Processing"}
      BY <1>2, <2>1 DEF TicketInv
    <2>3. QuietRows
      BY <1>1, <1>2, <1>11, <2>2
      DEF QuietRows, Steady, Past, Row, File, Handoff, AssignIfUnowned
    <2>4. {"logResolved", "logDeclined"} \subseteq Step
      BY DEF Step
    <2>5. /\ work'[w].ticket = work[w].ticket
          /\ work'[w].step \in {"logResolved", "logDeclined"}
          /\ \A v \in Handlers : v # w => work'[v] = work[v]
      BY <1>2, <1>11, <2>4, Moved DEF File, Handoff
    <2>6. QED
      BY <1>11, <2>3, <2>5 DEF File, Handoff, Goes, GivesUp, worldVars
  <1>12. CASE LogResolved(w) \/ LogDeclined(w)
    BY <1>1, <1>3, <1>12 DEF LogResolved, LogDeclined, Returns, Waits, worldVars
  <1>13. CASE Release(w)
    <2>1. CASE work[w].reason = "none"
      BY <1>1, <1>13, <2>1 DEF Release, Throws, GivesUp, worldVars
    <2>2. CASE work[w].reason # "none" /\ Claimed(t)
      <3>1. QuietRows
        BY <1>1, <1>2, <1>13, <2>2 DEF Release, QuietRows, Steady, Past, Row
      <3>2. /\ work'[w].ticket = work[w].ticket /\ work'[w].step = "handoff"
            /\ \A v \in Handlers : v # w => work'[v] = work[v]
        BY <1>1, <1>2, <1>13, <2>2, Moved DEF Release, Step
      <3>3. QED
        BY <1>1, <1>13, <2>2, <3>1, <3>2 DEF Release, Goes, GivesUp, worldVars
    <2>3. CASE work[w].reason # "none" /\ ~Claimed(t)
      BY <1>1, <1>3, <1>13, <2>3 DEF Release, Returns, Waits, worldVars
    <2>4. QED
      BY <2>1, <2>2, <2>3
  <1>14. QED
    BY <1>5, <1>6, <1>7, <1>8, <1>9, <1>10, <1>11, <1>12, <1>13 DEF HandlerStep

LEMMA StepKindOfCalm ==
  ASSUME IInv, Told, ClaimsApart, OwnedByEdit, [Next]_vars, Undisturbed', TriesLeft
  PROVE  \/ \E w \in Handlers : Goes(w) \/ TakesTicket(w) \/ Returns(w) \/ Throws(w)
         \/ \E w \in Handlers : Crash(w)
         \/ \E w \in Handlers, j \in JobIds : Start(w, j)
         \/ \E j \in JobIds : ExpireOrphan(j)
         \/ SweepReads \/ SweepReleases \/ SweepEnqueues
         \/ \E t \in Tickets : ClassifierOffers(t) \/ AgentAssigns(t)
         \/ Aside
  <1>1. /\ spent \in Budget /\ rows \in [Tickets -> Row] /\ thread \in [Tickets -> Thread]
        /\ DOMAIN spent = {"edits", "failures", "crashes", "sweeps", "stalls"}
    BY DEF IInv, TypeOK, Budget
  <1>2. UNCHANGED rows => QuietRows
    BY DEF QuietRows, Steady
  <1>3. ~Spend("stalls") /\ ~Spend("sweeps")
    BY <1>1 DEF Undisturbed, Spend, Budget
  <1>4. CASE \E w \in Handlers : HandlerStep(w) \/ Crash(w)
    BY <1>4, HandlerKind
  <1>5. CASE QueueStep
    <2>1. \A w \in Handlers, j \in JobIds : ~StartRepair(w, j)
      BY DEF StartRepair, Queue!FetchDead, TriesLeft
    <2>2. \A j \in JobIds : ~ExpireStalled(j)
      BY <1>3 DEF ExpireStalled
    <2>3. QED
      BY <1>5, <2>1, <2>2 DEF QueueStep
  <1>6. CASE SweepStep
    BY <1>3, <1>6 DEF SweepStep, SweepDies
  <1>7. ASSUME NEW t \in Tickets, TicketStep(t)
        PROVE  Aside \/ ClassifierOffers(t) \/ AgentAssigns(t)
    <2>1. CASE ClassifierFiles(t) \/ AgentFiles(t) \/ AgentMoves(t)
      <3>1. QuietRows
        BY <1>1, <2>1
        DEF QuietRows, Steady, Past, ClassifierFiles, AgentFiles, AgentMoves, Row,
            AGENT_SETTABLE_STATUS
      <3>2. QED
        BY <1>1, <2>1, <3>1
        DEF Aside, ClassifierFiles, AgentFiles, AgentMoves, Edit, worldVars
    <2>2. CASE CustomerReplies(t)
      <3>1. QuietRows
        <4>1. CASE rows[t].autoResolved
          BY <1>1, <2>2, <4>1 DEF CustomerReplies, QuietRows, Steady, Past, Row
        <4>2. CASE ~rows[t].autoResolved
          BY <1>1, <2>2, <4>2 DEF CustomerReplies, QuietRows, Steady, Past, Row
        <4>3. QED
          BY <4>1, <4>2
      <3>2. QED
        BY <2>2, <3>1 DEF Aside, CustomerReplies
    <2>3. CASE ReopenReroutes(t)
      <3>1. rows[t].assignee = "assistant" => rows[t].status \notin {"New", "Processing"}
        BY DEF OwnedByEdit
      <3>2. QuietRows
        BY <1>1, <1>2, <2>3, <3>1 DEF ReopenReroutes, QuietRows, Steady, Past, Row
      <3>3. QED
        BY <2>3, <3>2 DEF Aside, ReopenReroutes
    <2>4. CASE ReopenLogs(t) \/ ReopenTells(t) \/ ReopenDies(t) \/ Ages(t)
      BY <1>1, <1>2, <2>4 DEF Aside, ReopenLogs, ReopenTells, ReopenDies, Ages,
                              ticketVars
    <2>5. CASE AgentReplies(t)
      <3>1. QuietRows
        BY <1>1, <2>5 DEF AgentReplies, QuietRows, Steady, Row
      <3>2. QED
        BY <1>1, <2>5, <3>1 DEF Aside, AgentReplies, Edit, worldVars
    <2>6. QED
      BY <1>7, <2>1, <2>2, <2>3, <2>4, <2>5 DEF TicketStep
  <1>8. CASE SwitchAutoReply \/ UNCHANGED vars
    BY <1>2, <1>8
    DEF SwitchAutoReply, Undisturbed, vars, Aside, ticketVars, queueVars, sweepVars
  <1>9. QED
    BY <1>4, <1>5, <1>6, <1>7, <1>8 DEF Next

(* Misfortunes are never taken back.                                       *)
LEMMA SpendGrows ==
  ASSUME TypeOK, spent' = spent \/ \E what \in DOMAIN spent : Spend(what)
  PROVE  /\ Undisturbed' => Undisturbed
         /\ Mishaps \in Nat /\ Mishaps' \in Nat /\ Mishaps' >= Mishaps
         /\ Spend("failures") \/ Spend("crashes") => Mishaps' = Mishaps + 1
         /\ spent.edits \in Nat /\ spent'.edits >= spent.edits
  <1>1. /\ spent \in Budget /\ RetryLimit \in Nat
        /\ DOMAIN spent = {"edits", "failures", "crashes", "sweeps", "stalls"}
    BY ConstantsAssumption DEF TypeOK, Budget
  <1>2. QED
    BY <1>1 DEF Undisturbed, Mishaps, Spend, Budget

LEMMA StepSpends ==
  ASSUME TypeOK, [Next]_vars
  PROVE  spent' = spent \/ \E what \in DOMAIN spent : Spend(what)
  <1>1. /\ spent \in Budget
        /\ DOMAIN spent = {"edits", "failures", "crashes", "sweeps", "stalls"}
    BY DEF TypeOK, Budget
  <1>2. QED
    BY <1>1
    DEF Next, vars, HandlerStep, Claim, Read, Ask, Recheck, Resolve, Reread, File,
        LogResolved, Release, Handoff, LogDeclined, Crash, QueueStep, Start, StartRepair,
        ExpireOrphan, ExpireStalled, SweepStep, SweepReads, SweepReleases,
        SweepEnqueues, SweepDies, TicketStep, ClassifierFiles, ClassifierOffers,
        CustomerReplies, ReopenLogs, ReopenTells, ReopenReroutes, ReopenDies,
        AgentAssigns,
        AgentMoves, AgentFiles, AgentReplies, Edit, Ages, SwitchAutoReply

(* Handlers and their jobs.                                                *)
LEMMA JobsShape ==
  ASSUME TypeOK
  PROVE  /\ jobs \in [JobIds -> Queue!Job] /\ held \in [Handlers -> JobIds \cup {"none"}]
         /\ work \in [Handlers -> Work] /\ "none" \notin JobIds
         /\ \A j \in JobIds : jobs[j].tries \in Nat
         /\ Queue!NoJob.state = "free" /\ Queue!NoJob.tries = 0
  BY ConstantsAssumption DEF TypeOK, Queue!QueueTypeOK, Queue!Job, Queue!NoJob

(* A lost attempt is followed by another: the retries are enough.          *)
LEMMA AnotherTry ==
  ASSUME TypeOK, TriesLeft, Undisturbed, NEW j \in JobIds, Lost(j)
  PROVE  LET next == Queue!AfterFailure(jobs[j]) IN
         /\ next.state = "created" /\ next.item = jobs[j].item
         /\ next.tries \in Nat /\ next.tries <= Mishaps
  <1>1. /\ jobs[j].state = "active" /\ jobs[j].tries < Mishaps /\ Mishaps <= RetryLimit
        /\ jobs[j].tries \in Nat /\ RetryLimit \in Nat /\ Mishaps \in Nat
    BY JobsShape, ConstantsAssumption
    DEF Lost, TriesLeft, Undisturbed, Mishaps, TypeOK, Budget
  <1>2. jobs[j].tries < RetryLimit
    BY <1>1
  <1>3. Queue!AfterFailure(jobs[j]) =
           [state |-> "created", item |-> jobs[j].item, tries |-> jobs[j].tries + 1]
    BY <1>1, <1>2 DEF Queue!AfterFailure, Queue!NextAttempt
  <1>4. QED
    BY <1>1, <1>3

(* What keeps handlers and attempts in order: every job as it was, or made *)
(* anew, or tried again; and no attempt lost without a mishap.             *)
LEMMA TriesKept ==
  ASSUME TypeOK, TriesLeft, Mishaps' >= Mishaps, Mishaps \in Nat, Mishaps' \in Nat,
         \A j \in JobIds :
            \/ /\ jobs'[j] = jobs[j]
               /\ Lost(j)' => Lost(j) \/ Mishaps' > Mishaps
            \/ /\ jobs'[j].state \in {"free", "created", "active"}
               /\ jobs'[j].tries \in Nat /\ jobs'[j].tries <= Mishaps
               /\ ~Lost(j)'
  PROVE  TriesLeft'
  BY JobsShape DEF TriesLeft, Lost

LEMMA JobsStart ==
  ASSUME TypeOK, JobsHeld, TriesLeft, NEW w \in Handlers, NEW j \in JobIds, Start(w, j)
  PROVE  JobsHeld' /\ TriesLeft' /\ \A t \in Tickets : Queue!Coming(t) => Queue!Coming(t)'
  <1>1. /\ work'[w].step = "claim" /\ work'[w].ticket = jobs[j].item
        /\ \A v \in Handlers : v # w => work'[v] = work[v]
    BY JobsShape DEF Start, Idle
  <1>2. /\ jobs[j].state = "created" /\ held[w] = "none"
        /\ jobs'[j].state = "active" /\ jobs'[j].item = jobs[j].item
        /\ jobs'[j].tries = jobs[j].tries
        /\ \A i \in JobIds : i # j => jobs'[i] = jobs[i]
        /\ held'[w] = j /\ \A v \in Handlers : v # w => held'[v] = held[v]
    BY JobsShape DEF Start, Queue!Fetch, Queue!Job
  <1>3. \A v \in Handlers : held[v] # j
    BY <1>2, JobsShape DEF JobsHeld, HasItsJob
  <1>4. JobsHeld'
    BY <1>1, <1>2, <1>3, JobsShape DEF JobsHeld, HasItsJob
  <1>5. TriesLeft'
    <2>1. spent' = spent
      BY DEF Start
    <2>2. ~Lost(j)' /\ jobs[j].tries \in Nat /\ jobs[j].tries <= Mishaps
      BY <1>1, <1>2, JobsShape DEF Lost, GivesUp, TriesLeft
    <2>3. \A i \in JobIds : i # j => (Lost(i)' => Lost(i))
      BY <1>1, <1>2, <1>3, JobsShape DEF Lost, GivesUp
    <2>4. Mishaps' = Mishaps /\ Mishaps \in Nat
      BY <2>1 DEF Mishaps, TypeOK, Budget
    <2>5. QED
      BY <1>2, <2>2, <2>3, <2>4, TriesKept
  <1>6. \A t \in Tickets : Queue!Coming(t) => Queue!Coming(t)'
    BY <1>2 DEF Queue!Coming
  <1>7. QED
    BY <1>4, <1>5, <1>6

LEMMA JobsReturn ==
  ASSUME TypeOK, JobsHeld, TriesLeft, NEW w \in Handlers, Returns(w)
  PROVE  /\ JobsHeld' /\ TriesLeft'
         /\ \A t \in Tickets : Queue!Coming(t) => Queue!Coming(t)' \/ t = work[w].ticket
  <1>1. /\ work'[w] = Idle /\ Idle.step = "idle"
        /\ \A v \in Handlers : v # w => work'[v] = work[v]
    BY JobsShape DEF Returns, Return, Idle
  <1>2. HasItsJob(w) /\ \A v \in Handlers : v # w => held[v] # held[w]
    BY JobsShape DEF JobsHeld, HasItsJob, Returns
  <1>3. PICK j \in JobIds : j = held[w]
    BY <1>2 DEF HasItsJob
  <1>4. /\ jobs'[j] = Queue!NoJob /\ held'[w] = "none"
        /\ \A i \in JobIds : i # j => jobs'[i] = jobs[i]
        /\ \A v \in Handlers : v # w => held'[v] = held[v]
    BY <1>3, JobsShape DEF Returns, Return, Queue!Complete
  <1>5. JobsHeld'
    BY <1>1, <1>2, <1>3, <1>4, JobsShape DEF JobsHeld, HasItsJob
  <1>6. TriesLeft'
    <2>1. \A i \in JobIds : i # j => (Lost(i)' => Lost(i))
      BY <1>1, <1>2, <1>3, <1>4, JobsShape DEF Lost, GivesUp
    <2>2. Mishaps' = Mishaps /\ Mishaps \in Nat
      BY DEF Mishaps, TypeOK, Budget, Returns
    <2>3. /\ jobs'[j].state = "free" /\ jobs'[j].tries \in Nat
          /\ jobs'[j].tries <= Mishaps /\ ~Lost(j)'
      BY <1>4, <2>2, JobsShape DEF Lost
    <2>4. QED
      BY <1>4, <2>1, <2>2, <2>3, TriesKept
  <1>7. \A t \in Tickets : Queue!Coming(t) => Queue!Coming(t)' \/ t = work[w].ticket
    BY <1>2, <1>3, <1>4 DEF Queue!Coming, HasItsJob
  <1>8. QED
    BY <1>5, <1>6, <1>7

LEMMA JobsThrow ==
  ASSUME TypeOK, JobsHeld, TriesLeft, Undisturbed, NEW w \in Handlers, Throws(w)
  PROVE  /\ JobsHeld' /\ TriesLeft'
         /\ \A t \in Tickets : Queue!Coming(t) => Queue!Coming(t)'
         /\ \A t \in Tickets : t = work[w].ticket => Queue!Coming(t)'
  <1>1. /\ work'[w] = Idle /\ Idle.step = "idle" /\ work[w].step # "idle"
        /\ \A v \in Handlers : v # w => work'[v] = work[v]
    BY JobsShape DEF Throws, Throw, Idle, GivesUp
  <1>2. HasItsJob(w) /\ \A v \in Handlers : v # w => held[v] # held[w]
    BY <1>1, JobsShape DEF JobsHeld, HasItsJob
  <1>3. PICK j \in JobIds : j = held[w]
    BY <1>2 DEF HasItsJob
  <1>4. Lost(j)
    BY <1>2, <1>3 DEF Lost, HasItsJob, Throws
  <1>5. /\ jobs'[j] = Queue!AfterFailure(jobs[j]) /\ held'[w] = "none"
        /\ \A i \in JobIds : i # j => jobs'[i] = jobs[i]
        /\ \A v \in Handlers : v # w => held'[v] = held[v]
    BY <1>3, JobsShape DEF Throws, Throw, Queue!Fail
  <1>6. /\ jobs'[j].state = "created" /\ jobs'[j].item = jobs[j].item
        /\ jobs'[j].tries \in Nat /\ jobs'[j].tries <= Mishaps
    BY <1>4, <1>5, AnotherTry
  <1>7. JobsHeld'
    BY <1>1, <1>2, <1>3, <1>5, JobsShape DEF JobsHeld, HasItsJob
  <1>8. TriesLeft'
    <2>1. spent' = spent
      BY DEF Throws
    <2>2. \A i \in JobIds : i # j => (Lost(i)' => Lost(i))
      BY <1>1, <1>2, <1>3, <1>5 DEF Lost, GivesUp
    <2>3. Mishaps' = Mishaps /\ Mishaps \in Nat
      BY <2>1 DEF Mishaps, TypeOK, Budget
    <2>4. ~Lost(j)'
      BY <1>6 DEF Lost
    <2>5. QED
      BY <1>5, <1>6, <2>2, <2>3, <2>4, TriesKept
  <1>9. \A t \in Tickets : Queue!Coming(t) => Queue!Coming(t)'
    BY <1>4, <1>5, <1>6 DEF Queue!Coming, Lost
  <1>10. \A t \in Tickets : t = work[w].ticket => Queue!Coming(t)'
    BY <1>2, <1>3, <1>6 DEF Queue!Coming, HasItsJob
  <1>11. QED
    BY <1>7, <1>8, <1>9, <1>10

LEMMA JobsGo ==
  ASSUME TypeOK, JobsHeld, TriesLeft, NEW w \in Handlers, Goes(w) \/ TakesTicket(w)
  PROVE  JobsHeld' /\ TriesLeft' /\ \A t \in Tickets : Queue!Coming(t) => Queue!Coming(t)'
  <1>1. /\ work[w].step # "idle" /\ work'[w].step # "idle"
        /\ work'[w].ticket = work[w].ticket
        /\ \A v \in Handlers : v # w => work'[v] = work[v]
    BY JobsShape, Moved DEF Goes, TakesTicket, Step
  <1>2. jobs' = jobs /\ held' = held
    BY DEF Goes, TakesTicket, queueVars
  <1>3. GivesUp(w)' => Spend("failures")
    <2>1. CASE Goes(w)
      BY <2>1 DEF Goes
    <2>2. CASE TakesTicket(w)
      BY <2>2, JobsShape, Moved DEF TakesTicket, GivesUp, Step
    <2>3. QED
      BY <2>1, <2>2
  <1>4. spent' = spent \/ \E what \in DOMAIN spent : Spend(what)
    BY DEF Goes, TakesTicket, TypeOK, Budget
  <1>5. JobsHeld'
    BY <1>1, <1>2 DEF JobsHeld, HasItsJob
  <1>6. TriesLeft'
    <2>1. ASSUME NEW j \in JobIds, Lost(j)'
          PROVE  Lost(j) \/ Mishaps' > Mishaps
      <3>1. CASE GivesUp(w)'
        BY <1>3, <1>4, <3>1, SpendGrows
      <3>2. CASE ~GivesUp(w)'
        <4>1. held[w] # j
          BY <1>2, <2>1, <3>2 DEF Lost
        <4>2. QED
          BY <1>1, <1>2, <2>1, <4>1 DEF Lost, GivesUp
      <3>3. QED
        BY <3>1, <3>2
    <2>2. QED
      BY <1>2, <1>4, <2>1, SpendGrows, TriesKept
  <1>7. QED
    BY <1>2, <1>5, <1>6 DEF Queue!Coming

LEMMA JobsCrash ==
  ASSUME TypeOK, JobsHeld, TriesLeft, NEW w \in Handlers, Crash(w)
  PROVE  JobsHeld' /\ TriesLeft' /\ \A t \in Tickets : Queue!Coming(t) => Queue!Coming(t)'
  <1>1. /\ work'[w] = Idle /\ Idle.step = "idle"
        /\ \A v \in Handlers : v # w => work'[v] = work[v]
    BY JobsShape DEF Crash, Idle
  <1>2. /\ jobs' = jobs /\ held'[w] = "none"
        /\ \A v \in Handlers : v # w => held'[v] = held[v]
    BY JobsShape DEF Crash, Queue!Abandon
  <1>3. JobsHeld'
    BY <1>1, <1>2, JobsShape DEF JobsHeld, HasItsJob
  <1>4. /\ spent' = spent \/ \E what \in DOMAIN spent : Spend(what)
        /\ Spend("crashes")
    BY DEF Crash, TypeOK, Budget
  <1>5. TriesLeft'
    BY <1>2, <1>4, SpendGrows, TriesKept
  <1>6. QED
    BY <1>2, <1>3, <1>5 DEF Queue!Coming

LEMMA JobsExpire ==
  ASSUME TypeOK, JobsHeld, TriesLeft, Undisturbed, NEW j \in JobIds, ExpireOrphan(j)
  PROVE  JobsHeld' /\ TriesLeft' /\ \A t \in Tickets : Queue!Coming(t) => Queue!Coming(t)'
  <1>1. /\ \A v \in Handlers : held[v] # j
        /\ jobs[j].state = "active"
    BY DEF ExpireOrphan, Queue!HasHandler, Queue!Expire, TriesLeft
  <1>2. Lost(j)
    BY <1>1 DEF Lost
  <1>3. /\ jobs'[j] = Queue!AfterFailure(jobs[j]) /\ work' = work /\ spent' = spent
        /\ \A i \in JobIds : i # j => jobs'[i] = jobs[i]
        /\ \A v \in Handlers : held'[v] = held[v]
    BY <1>1, JobsShape DEF ExpireOrphan, Queue!Expire
  <1>4. /\ jobs'[j].state = "created" /\ jobs'[j].item = jobs[j].item
        /\ jobs'[j].tries \in Nat /\ jobs'[j].tries <= Mishaps
    BY <1>2, <1>3, AnotherTry
  <1>5. JobsHeld'
    BY <1>1, <1>3, JobsShape DEF JobsHeld, HasItsJob
  <1>6. TriesLeft'
    <2>1. \A i \in JobIds : i # j => (Lost(i)' => Lost(i))
      BY <1>1, <1>3, JobsShape DEF Lost, GivesUp
    <2>2. Mishaps' = Mishaps /\ Mishaps \in Nat
      BY <1>3 DEF Mishaps, TypeOK, Budget
    <2>3. ~Lost(j)'
      BY <1>4 DEF Lost
    <2>4. QED
      BY <1>3, <1>4, <2>1, <2>2, <2>3, TriesKept
  <1>7. QED
    BY <1>1, <1>3, <1>4, <1>5, <1>6 DEF Queue!Coming

LEMMA JobsSend ==
  ASSUME TypeOK, JobsHeld, TriesLeft, NEW x \in Tickets, Queue!Send(x),
         UNCHANGED <<work, held, spent>>
  PROVE  /\ JobsHeld' /\ TriesLeft' /\ Queue!Coming(x)'
         /\ \A t \in Tickets : Queue!Coming(t) => Queue!Coming(t)'
  <1>1. PICK j \in JobIds :
          /\ jobs[j].state = "free"
          /\ jobs' = [jobs EXCEPT ![j] = [state |-> "created", item |-> x, tries |-> 0]]
    BY DEF Queue!Send
  <1>2. /\ jobs'[j].state = "created" /\ jobs'[j].item = x /\ jobs'[j].tries = 0
        /\ \A i \in JobIds : i # j => jobs'[i] = jobs[i]
    BY <1>1, JobsShape
  <1>3. \A v \in Handlers : held[v] # j
    BY <1>1, JobsShape DEF JobsHeld, HasItsJob
  <1>4. JobsHeld'
    BY <1>2, <1>3, JobsShape DEF JobsHeld, HasItsJob
  <1>5. TriesLeft'
    <2>1. \A i \in JobIds : i # j => (Lost(i)' => Lost(i))
      BY <1>2, JobsShape DEF Lost, GivesUp
    <2>2. Mishaps' = Mishaps /\ Mishaps \in Nat
      BY DEF Mishaps, TypeOK, Budget
    <2>3. ~Lost(j)'
      BY <1>2 DEF Lost
    <2>4. QED
      BY <1>2, <2>1, <2>2, <2>3, TriesKept
  <1>6. QED
    BY <1>1, <1>2, <1>4, <1>5 DEF Queue!Coming

LEMMA JobsStay ==
  ASSUME TypeOK, JobsHeld, TriesLeft, UNCHANGED <<work, jobs, held>>,
         spent' = spent \/ \E what \in DOMAIN spent : Spend(what)
  PROVE  JobsHeld' /\ TriesLeft' /\ \A t \in Tickets : Queue!Coming(t) => Queue!Coming(t)'
  <1>1. JobsHeld'
    BY DEF JobsHeld, HasItsJob
  <1>2. \A j \in JobIds : Lost(j)' => Lost(j)
    BY DEF Lost, GivesUp
  <1>3. TriesLeft'
    BY <1>2, SpendGrows, TriesKept
  <1>4. QED
    BY <1>1, <1>3 DEF Queue!Coming

(* Claims, owners and waiting tickets.                                     *)
Settled == ClaimsApart /\ OwnedByEdit /\ WaitingHasJob

LEMMA QuietKept ==
  ASSUME Settled, QuietRows, spent'.edits >= spent.edits,
         spent.edits \in Nat, spent'.edits \in Nat,
         \A v \in Handlers, t \in Tickets : Claims(v, t)' => Claims(v, t),
         \A t \in Tickets : Queue!Coming(t) => Queue!Coming(t)' \/ ~Waits(t),
         UNCHANGED sweepVars
  PROVE  Settled'
  <1>1. stuck' = stuck /\ requeue' = requeue
    BY DEF sweepVars
  <1>2. ClaimsApart'
    BY <1>1 DEF Settled, ClaimsApart, QuietRows, Steady, Past
  <1>3. OwnedByEdit'
    BY DEF Settled, OwnedByEdit, QuietRows, Steady, Past
  <1>4. WaitingHasJob'
    BY <1>1 DEF Settled, WaitingHasJob, Waiting, Waits, QuietRows, Steady, Past
  <1>5. QED
    BY <1>2, <1>3, <1>4 DEF Settled

LEMMA SettledTakes ==
  ASSUME TypeOK, Settled, NEW w \in Handlers, TakesTicket(w),
         \A t \in Tickets : Queue!Coming(t) => Queue!Coming(t)'
  PROVE  Settled'
  <1>1. PICK x \in Tickets : x = work[w].ticket
    BY DEF TypeOK, TakesTicket
  <1>2. /\ rows[x].status = "New" /\ rows[x].assignee = "nobody"
        /\ rows'[x].status = "Processing" /\ rows'[x].assignee = "nobody"
        /\ \A t \in Tickets : t # x => rows'[t] = rows[t]
    BY <1>1 DEF TypeOK, Row, TakesTicket, Waits
  <1>3. \A v \in Handlers, t \in Tickets : Claims(v, t)' => Claims(v, t) \/ (v = w /\ t = x)
    <2>1. /\ work'[w].ticket = x
          /\ \A v \in Handlers : v # w => work'[v] = work[v]
      BY <1>1, JobsShape, Moved DEF TakesTicket, Step
    <2>2. QED
      BY <2>1 DEF Claims
  <1>4. \A v \in Handlers : ~Claims(v, x)
    BY <1>2 DEF Settled, ClaimsApart
  <1>5. x \notin stuck
    BY <1>2 DEF Settled, ClaimsApart
  <1>6. stuck' = stuck /\ requeue' = requeue /\ spent' = spent
    BY DEF TakesTicket, sweepVars
  <1>7. ClaimsApart'
    BY <1>2, <1>3, <1>4, <1>5, <1>6 DEF Settled, ClaimsApart
  <1>8. OwnedByEdit'
    BY <1>2, <1>6 DEF Settled, OwnedByEdit
  <1>9. WaitingHasJob'
    BY <1>2, <1>6 DEF Settled, WaitingHasJob, Waiting
  <1>10. QED
    BY <1>7, <1>8, <1>9 DEF Settled

LEMMA SettledThrows ==
  ASSUME TypeOK, Settled, NEW w \in Handlers, Throws(w),
         \A t \in Tickets : Queue!Coming(t) => Queue!Coming(t)',
         \A t \in Tickets : t = work[w].ticket => Queue!Coming(t)'
  PROVE  Settled'
  <1>1. PICK x \in Tickets : x = work[w].ticket
    BY DEF TypeOK, Throws, GivesUp
  <1>2. Claims(w, x)
    BY <1>1 DEF Throws, GivesUp, Claims
  <1>3. \A v \in Handlers, t \in Tickets : Claims(v, t)' => Claims(v, t) /\ v # w
    BY JobsShape, Moved DEF Throws, Throw, Claims, Idle
  <1>4. \A v \in Handlers : ~Claims(v, x)'
    BY <1>2, <1>3 DEF Settled, ClaimsApart
  <1>5. /\ \A t \in Tickets : t # x => rows'[t] = rows[t]
        /\ rows'[x].assignee = rows[x].assignee
        /\ rows'[x].status = rows[x].status \/ rows[x].status = "Processing"
    BY <1>1 DEF TypeOK, Row, Throws, Claimed
  <1>6. stuck' = stuck /\ requeue' = requeue /\ spent' = spent /\ x \notin stuck
    BY <1>2 DEF Throws, sweepVars, Settled, ClaimsApart
  <1>7. ClaimsApart'
    BY <1>3, <1>4, <1>5, <1>6 DEF Settled, ClaimsApart
  <1>8. OwnedByEdit'
    BY <1>5, <1>6 DEF Settled, OwnedByEdit
  <1>9. WaitingHasJob'
    BY <1>1, <1>5, <1>6 DEF Settled, WaitingHasJob, Waiting
  <1>10. QED
    BY <1>7, <1>8, <1>9 DEF Settled

LEMMA SettledReads ==
  ASSUME Settled, ~Spend("stalls"), SweepReads
  PROVE  Settled'
  <1>1. /\ stuck = {} /\ stuck' = Abandoned /\ rows' = rows /\ work' = work
        /\ requeue' = requeue /\ jobs' = jobs /\ spent' = spent
    BY DEF SweepReads, ticketVars, queueVars
  <1>2. \A t \in stuck' : rows[t].status = "Processing" /\ \A w \in Handlers : ~Claims(w, t)
    BY <1>1 DEF Abandoned, Claimants, Claims
  <1>3. \A v \in Handlers, t \in Tickets : Claims(v, t)' <=> Claims(v, t)
    BY <1>1 DEF Claims
  <1>4. ClaimsApart'
    BY <1>1, <1>2, <1>3 DEF Settled, ClaimsApart
  <1>5. OwnedByEdit' /\ WaitingHasJob'
    BY <1>1 DEF Settled, OwnedByEdit, WaitingHasJob, Waiting, Queue!Coming
  <1>6. QED
    BY <1>4, <1>5 DEF Settled

LEMMA SettledReleases ==
  ASSUME TypeOK, Settled, SweepReleases
  PROVE  Settled'
  <1>1. PICK x \in stuck :
          /\ rows' = IF rows[x].status = "Processing"
                     THEN [rows EXCEPT ![x].status = "New"] ELSE rows
          /\ stuck' = stuck \ {x} /\ requeue' = x
    BY DEF SweepReleases
  <1>2. /\ work' = work /\ jobs' = jobs /\ spent' = spent /\ requeue = "none"
        /\ "none" \notin Tickets /\ x \in Tickets
    BY <1>1, ConstantsAssumption DEF SweepReleases, queueVars, TypeOK
  <1>3. /\ \A t \in Tickets : t # x => rows'[t] = rows[t]
        /\ rows'[x].assignee = rows[x].assignee
        /\ rows'[x].status = rows[x].status \/ rows[x].status = "Processing"
    BY <1>1, <1>2 DEF TypeOK, Row
  <1>4. \A v \in Handlers, t \in Tickets : Claims(v, t)' <=> Claims(v, t)
    BY <1>2 DEF Claims
  <1>5. \A v \in Handlers : ~Claims(v, x)
    BY <1>1, <1>2 DEF Settled, ClaimsApart
  <1>6. ClaimsApart'
    BY <1>1, <1>3, <1>4, <1>5 DEF Settled, ClaimsApart
  <1>7. OwnedByEdit'
    BY <1>2, <1>3 DEF Settled, OwnedByEdit
  <1>8. WaitingHasJob'
    BY <1>1, <1>2, <1>3 DEF Settled, WaitingHasJob, Waiting, Queue!Coming
  <1>9. QED
    BY <1>6, <1>7, <1>8 DEF Settled

LEMMA SettledOffers ==
  ASSUME TypeOK, Settled, NEW x \in Tickets,
         rows' = [rows EXCEPT ![x].offered = TRUE], Queue!Coming(x)',
         \A t \in Tickets : Queue!Coming(t) => Queue!Coming(t)',
         UNCHANGED <<work, stuck, spent>>, requeue' = requeue \/ requeue = x
  PROVE  Settled'
  <1>1. /\ \A t \in Tickets : t # x => rows'[t] = rows[t]
        /\ rows'[x].assignee = rows[x].assignee /\ rows'[x].status = rows[x].status
    BY DEF TypeOK, Row
  <1>2. \A v \in Handlers, t \in Tickets : Claims(v, t)' <=> Claims(v, t)
    BY DEF Claims
  <1>3. ClaimsApart'
    BY <1>1, <1>2 DEF Settled, ClaimsApart
  <1>4. OwnedByEdit' /\ WaitingHasJob'
    BY <1>1 DEF Settled, OwnedByEdit, WaitingHasJob, Waiting
  <1>5. QED
    BY <1>3, <1>4 DEF Settled

LEMMA SettledAssigns ==
  ASSUME TypeOK, Settled, Undisturbed', NEW x \in Tickets, AgentAssigns(x)
  PROVE  Settled'
  <1>1. PICK a \in Agents \cup {"nobody"} : rows' = [rows EXCEPT ![x].assignee = a]
    BY DEF AgentAssigns
  <1>2. /\ \A t \in Tickets : t # x => rows'[t] = rows[t]
        /\ rows'[x].assignee = a /\ rows'[x].status = rows[x].status
        /\ rows'[x].offered = rows[x].offered
    BY <1>1 DEF TypeOK, Row
  <1>3. spent.edits = 0 /\ spent'.edits = 1
    BY DEF AgentAssigns, Edit, Spend, TypeOK, Budget, Undisturbed
  <1>4. work' = work /\ stuck' = stuck /\ requeue' = requeue /\ jobs' = jobs
    BY DEF AgentAssigns, Edit, sweepVars, queueVars
  <1>5. \A v \in Handlers, t \in Tickets : Claims(v, t)' <=> Claims(v, t)
    BY <1>4 DEF Claims
  <1>6. ClaimsApart'
    BY <1>2, <1>4, <1>5 DEF Settled, ClaimsApart
  <1>7. OwnedByEdit'
    BY <1>2, <1>3, ConstantsAssumption DEF Settled, OwnedByEdit
  <1>8. \A t \in Tickets : Waiting(t)' => Waiting(t)
    BY <1>2, <1>3 DEF Settled, OwnedByEdit, Waiting
  <1>9. WaitingHasJob'
    BY <1>4, <1>8 DEF Settled, WaitingHasJob, Queue!Coming
  <1>10. QED
    BY <1>6, <1>7, <1>9 DEF Settled

LEMMA CalmStep ==
  ASSUME IInv, Told, Calm, [Next]_vars, Undisturbed'
  PROVE  Calm'
  <1>1. TypeOK /\ JobsHeld /\ TriesLeft /\ Settled /\ enabled
    BY DEF IInv, Calm, Settled
  <1>2. SUFFICES enabled' /\ JobsHeld' /\ TriesLeft' /\ Settled'
    BY DEF Calm, Settled
  <1>3. spent' = spent \/ \E what \in DOMAIN spent : Spend(what)
    BY <1>1, StepSpends
  <1>4. /\ Undisturbed /\ spent'.edits >= spent.edits
        /\ spent.edits \in Nat /\ spent'.edits \in Nat
    <2>1. spent'.edits \in Nat
      BY <1>1, StepType DEF TypeOK, Budget
    <2>2. QED
      BY <1>1, <1>3, <2>1, SpendGrows
  <1>5. ~Spend("stalls")
    BY <1>1, <1>4 DEF Undisturbed, Spend, TypeOK, Budget
  <1>6. ASSUME NEW w \in Handlers, Goes(w)
        PROVE  enabled' /\ JobsHeld' /\ TriesLeft' /\ Settled'
    <2>1. JobsHeld' /\ TriesLeft' /\ \A t \in Tickets : Queue!Coming(t) => Queue!Coming(t)'
      BY <1>1, <1>6, JobsGo
    <2>2. \A v \in Handlers, t \in Tickets : Claims(v, t)' => Claims(v, t)
      BY <1>6 DEF Goes, Claims
    <2>3. QED
      BY <1>1, <1>4, <1>6, <2>1, <2>2, QuietKept DEF Goes
  <1>7. ASSUME NEW w \in Handlers, TakesTicket(w)
        PROVE  enabled' /\ JobsHeld' /\ TriesLeft' /\ Settled'
    BY <1>1, <1>7, JobsGo, SettledTakes DEF TakesTicket
  <1>8. ASSUME NEW w \in Handlers, Returns(w)
        PROVE  enabled' /\ JobsHeld' /\ TriesLeft' /\ Settled'
    <2>1. /\ JobsHeld' /\ TriesLeft'
          /\ \A t \in Tickets : Queue!Coming(t) => Queue!Coming(t)' \/ ~Waits(t)
      BY <1>1, <1>8, JobsReturn DEF Returns
    <2>2. \A v \in Handlers, t \in Tickets : Claims(v, t)' => Claims(v, t)
      BY <1>1, <1>8, JobsShape, Moved DEF Returns, Return, Claims, Idle
    <2>3. QuietRows
      BY <1>8 DEF Returns, QuietRows, Steady
    <2>4. QED
      BY <1>1, <1>4, <1>8, <2>1, <2>2, <2>3, QuietKept DEF Returns
  <1>9. ASSUME NEW w \in Handlers, Throws(w)
        PROVE  enabled' /\ JobsHeld' /\ TriesLeft' /\ Settled'
    BY <1>1, <1>4, <1>9, JobsThrow, SettledThrows DEF Throws
  <1>10. ASSUME NEW w \in Handlers, Crash(w)
         PROVE  enabled' /\ JobsHeld' /\ TriesLeft' /\ Settled'
    <2>1. JobsHeld' /\ TriesLeft' /\ \A t \in Tickets : Queue!Coming(t) => Queue!Coming(t)'
      BY <1>1, <1>10, JobsCrash
    <2>2. \A v \in Handlers, t \in Tickets : Claims(v, t)' => Claims(v, t)
      BY <1>1, <1>10, JobsShape, Moved DEF Crash, Claims, Idle
    <2>3. QuietRows
      BY <1>10 DEF Crash, QuietRows, Steady, ticketVars
    <2>4. QED
      BY <1>1, <1>4, <1>10, <2>1, <2>2, <2>3, QuietKept DEF Crash, worldVars
  <1>11. ASSUME NEW w \in Handlers, NEW j \in JobIds, Start(w, j)
         PROVE  enabled' /\ JobsHeld' /\ TriesLeft' /\ Settled'
    <2>1. JobsHeld' /\ TriesLeft' /\ \A t \in Tickets : Queue!Coming(t) => Queue!Coming(t)'
      BY <1>1, <1>11, JobsStart
    <2>2. \A v \in Handlers, t \in Tickets : Claims(v, t)' => Claims(v, t)
      BY <1>1, <1>11, JobsShape DEF Start, Claims, Idle
    <2>3. QuietRows
      BY <1>11 DEF Start, QuietRows, Steady, ticketVars
    <2>4. QED
      BY <1>1, <1>4, <1>11, <2>1, <2>2, <2>3, QuietKept DEF Start, worldVars
  <1>12. ASSUME NEW j \in JobIds, ExpireOrphan(j)
         PROVE  enabled' /\ JobsHeld' /\ TriesLeft' /\ Settled'
    <2>1. JobsHeld' /\ TriesLeft' /\ \A t \in Tickets : Queue!Coming(t) => Queue!Coming(t)'
      BY <1>1, <1>4, <1>12, JobsExpire
    <2>2. \A v \in Handlers, t \in Tickets : Claims(v, t)' => Claims(v, t)
      BY <1>12 DEF ExpireOrphan, Claims
    <2>3. QuietRows
      BY <1>12 DEF ExpireOrphan, QuietRows, Steady, ticketVars
    <2>4. QED
      BY <1>1, <1>4, <1>12, <2>1, <2>2, <2>3, QuietKept DEF ExpireOrphan, worldVars
  <1>13. CASE SweepReads
    <2>1. enabled' = enabled /\ UNCHANGED <<work, jobs, held>>
      BY <1>13 DEF SweepReads, worldVars, queueVars
    <2>2. QED
      BY <1>1, <1>3, <1>5, <1>13, <2>1, JobsStay, SettledReads
  <1>14. CASE SweepReleases
    <2>1. enabled' = enabled /\ UNCHANGED <<work, jobs, held>>
      BY <1>14 DEF SweepReleases, worldVars, queueVars
    <2>2. QED
      BY <1>1, <1>3, <1>14, <2>1, JobsStay, SettledReleases
  <1>15. CASE SweepEnqueues
    <2>1. PICK x \in Tickets : x = requeue
      BY <1>1, <1>15 DEF SweepEnqueues, TypeOK
    <2>2. /\ rows' = [rows EXCEPT ![x].offered = TRUE] /\ Queue!Send(x)
          /\ UNCHANGED <<work, held, spent, stuck, enabled>>
      BY <1>1, <1>15, <2>1 DEF SweepEnqueues, EnqueueAutoReply, worldVars
    <2>3. QED
      BY <1>1, <2>1, <2>2, JobsSend, SettledOffers
  <1>16. ASSUME NEW x \in Tickets, ClassifierOffers(x)
         PROVE  enabled' /\ JobsHeld' /\ TriesLeft' /\ Settled'
    <2>1. /\ rows' = [rows EXCEPT ![x].offered = TRUE] /\ Queue!Send(x)
          /\ UNCHANGED <<work, held, spent, stuck, requeue, enabled>>
      BY <1>1, <1>16 DEF ClassifierOffers, EnqueueAutoReply, sweepVars
    <2>2. QED
      BY <1>1, <2>1, JobsSend, SettledOffers
  <1>17. ASSUME NEW x \in Tickets, AgentAssigns(x)
         PROVE  enabled' /\ JobsHeld' /\ TriesLeft' /\ Settled'
    <2>1. enabled' = enabled /\ UNCHANGED <<work, jobs, held>>
      BY <1>17 DEF AgentAssigns, Edit, worldVars, queueVars
    <2>2. QED
      BY <1>1, <1>3, <1>17, <2>1, JobsStay, SettledAssigns
  <1>18. CASE Aside
    <2>1. enabled' = enabled /\ UNCHANGED <<work, jobs, held>>
      BY <1>18 DEF Aside, queueVars
    <2>2. JobsHeld' /\ TriesLeft' /\ \A t \in Tickets : Queue!Coming(t) => Queue!Coming(t)'
      BY <1>1, <1>3, <2>1, JobsStay
    <2>3. \A v \in Handlers, t \in Tickets : Claims(v, t)' => Claims(v, t)
      BY <2>1 DEF Claims
    <2>4. QED
      BY <1>1, <1>4, <1>18, <2>1, <2>2, <2>3, QuietKept DEF Aside
  <1>19. QED
    BY <1>1, <1>6, <1>7, <1>8, <1>9, <1>10, <1>11, <1>12, <1>13, <1>14, <1>15, <1>16,
       <1>17, <1>18, StepKindOfCalm
    DEF Calm

LEMMA InitCalm == Init => Calm
  <1>1. SUFFICES ASSUME Init PROVE Calm
    OBVIOUS
  <1>2. /\ \A w \in Handlers : work[w].step = "idle" /\ held[w] = "none"
        /\ \A j \in JobIds : jobs[j].state = "free" /\ jobs[j].tries = 0
        /\ \A t \in Tickets : rows[t].status = "New" /\ rows[t].assignee = "nobody"
        /\ \A t \in Tickets : ~rows[t].offered
        /\ enabled /\ stuck = {}
    BY <1>1 DEF Init, Queue!QueueInit, Idle, Queue!NoJob
  <1>3. Mishaps = 0
    BY <1>1 DEF Init, Mishaps
  <1>4. JobsHeld /\ TriesLeft
    BY <1>2, <1>3 DEF JobsHeld, TriesLeft, Lost
  <1>5. ClaimsApart /\ OwnedByEdit /\ WaitingHasJob
    BY <1>2 DEF ClaimsApart, Claims, OwnedByEdit, WaitingHasJob, Waiting
  <1>6. QED
    BY <1>2, <1>4, <1>5 DEF Calm

(* Theorem: a ticket the machine has promised to look at always has        *)
(* somebody coming for it, through model failures and killed workers while *)
(* there are retries left, and whatever customers, agents and the sweep do *)
(* meanwhile.  Outside it: a moving switch, a second agent edit, a stalled *)
(* handler, a killed sweep and retries that ran out.                       *)
THEOREM WaitingIsServed == Spec => [](Undisturbed => WaitingHasJob)
  <1>1. Init => (Undisturbed => Calm)
    BY InitCalm
  <1>2. IInv /\ Told /\ (Undisturbed => Calm) /\ [Next]_vars => (Undisturbed => Calm)'
    <2>1. SUFFICES ASSUME IInv, Told, Undisturbed => Calm, [Next]_vars, Undisturbed'
                   PROVE  Calm'
      OBVIOUS
    <2>2. Undisturbed
      BY <2>1, StepSpends, SpendGrows DEF IInv
    <2>3. QED
      BY <2>1, <2>2, CalmStep
  <1>3. (Undisturbed => Calm) => (Undisturbed => WaitingHasJob)
    BY DEF Calm
  <1>4. Spec => []Told
    BY InitTold, StepTold, InvariantHolds, PTL DEF Spec
  <1>5. QED
    BY <1>1, <1>2, <1>3, <1>4, InvariantHolds, PTL DEF Spec
=============================================================================
