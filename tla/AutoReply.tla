----------------------------- MODULE AutoReply -----------------------------
(***************************************************************************)
(* The auto-reply job, apps/api/src/jobs/auto-reply-ticket.ts, with        *)
(* everything that writes the same ticket row while it runs: the end of    *)
(* the classifier's handler, which offers the ticket; the thread branch of *)
(* ingest.ts, which appends a customer's message and reopens the ticket;   *)
(* the agents' PATCH and reply routes; the recovery sweep; the dead-letter *)
(* repair.  A handler is a sequence of database calls, and every call is   *)
(* an action: between two of them anything else may commit.                *)
(*                                                                         *)
(* Nothing here is about what a reply says.  Events published to browsers, *)
(* the outgoing email's own delivery and the agents' entries in the        *)
(* activity trail are left out; the entries this code writes are kept.     *)
(***************************************************************************)
EXTENDS Naturals, Sequences, ReplyGates

CONSTANTS
    Tickets,        \* tickets, each created by one inbound email
    Handlers,       \* handler activations of this queue
    JobIds,         \* job slots
    RetryLimit,     \* RETRY_LIMIT of boss.ts
    Agents,         \* people a ticket can be assigned to
    HandoffTarget,  \* what resolveHandoff() answers: an agent, or "nobody"
    Categories,     \* the categories that occur
    Verdicts,       \* the reasons a model call ends without a usable reply
    MaxInbound,     \* bound: inbound messages on a ticket
    MaxEdits,       \* bound: agent edits and replies, all tickets together
    MaxFailures,    \* bound: model calls failing for a retryable reason
    MaxCrashes,     \* bound: handlers and webhooks killed midway
    MaxSweepCrashes,\* bound: sweeps killed midway
    MaxStalls,      \* bound: live handlers mistaken for dead ones
    SwitchMoves,    \* may the auto-reply be switched off and on?
    MayAge          \* may a ticket grow older than RECOVER_MAX_AGE_MS?

ASSUME ConstantsAssumption ==
    /\ RetryLimit \in Nat
    /\ "none" \notin Tickets \cup JobIds
    /\ "nobody" \notin Agents
    /\ "assistant" \notin Agents
    /\ HandoffTarget \in Agents \cup {"nobody"}
    /\ Categories \subseteq TICKET_CATEGORY
    /\ Verdicts \subseteq ModelReasons
    /\ SwitchMoves \in BOOLEAN /\ MayAge \in BOOLEAN

VARIABLES
    rows,       \* the ticket rows
    thread,     \* each ticket's messages, counted by who wrote them
    trail,      \* the activity entries this code writes, in order
    filing,     \* how far the classifier's handler got with the ticket
    reopening,  \* what the webhook that reopened the ticket has yet to do
    work,       \* what each handler activation is doing
    stuck,      \* the sweep: tickets it read and has not released yet
    requeue,    \* the sweep: the ticket it released and must re-enqueue
    enabled,    \* autoReplyEnabled()
    old,        \* tickets older than RECOVER_MAX_AGE_MS
    spent,      \* how much of each bound has been used
    jobs, held  \* the queue

queueVars == <<jobs, held>>
sweepVars == <<stuck, requeue>>
ticketVars == <<rows, thread, trail>>
worldVars == <<filing, reopening, enabled, old>>
vars == <<rows, thread, trail, filing, reopening, work, stuck, requeue,
          enabled, old, spent, jobs, held>>

Queue == INSTANCE JobQueue WITH Items <- Tickets

TICKET_STATUS == {"New", "Processing", "Open", "Resolved", "Closed"}
AGENT_SETTABLE_STATUS == {"Open", "Resolved", "Closed"}

Row == [status        : TICKET_STATUS,
        assignee      : Agents \cup {"assistant", "nobody"},
        category      : Categories \cup {"none"},
        offered       : BOOLEAN,                \* autoReplyOfferedAt
        decline       : AUTO_REPLY_DECLINE \cup {"none"},
        autoResolved  : BOOLEAN,                \* autoResolvedAt
        lastMessageAt : Nat]

Thread == [inbound : Nat, byAgent : Nat, byAssistant : Nat]

Entry == {"reopened", "assignee_changed", "auto_resolved", "auto_declined"}

Step == {"idle", "claim", "read", "ask", "recheck", "resolve", "reread",
         "file", "logResolved", "release", "handoff", "logDeclined"}

(* What a handler activation remembers: the version of the ticket it read  *)
(* and the reason it is about to hand it back with ("none": back to New).  *)
Work == [step         : Step,
         ticket       : Tickets \cup {"none"},
         seenAt       : Nat,
         seenCategory : Categories \cup {"none"},
         reason       : AUTO_REPLY_DECLINE \cup {"none"}]

Idle == [step |-> "idle", ticket |-> "none", seenAt |-> 0,
         seenCategory |-> "none", reason |-> "none"]

Budget == [edits : Nat, failures : Nat, crashes : Nat, sweeps : Nat, stalls : Nat]

TypeOK ==
    /\ rows \in [Tickets -> Row]
    /\ thread \in [Tickets -> Thread]
    /\ trail \in [Tickets -> Seq(Entry)]
    /\ filing \in [Tickets -> {"unread", "filed", "done"}]
    /\ reopening \in [Tickets -> {"no", "log", "reroute", "tell"}]
    /\ work \in [Handlers -> Work]
    /\ \A w \in Handlers : work[w].step # "idle" => work[w].ticket \in Tickets
    /\ stuck \in SUBSET Tickets
    /\ requeue \in Tickets \cup {"none"}
    /\ enabled \in BOOLEAN
    /\ old \in SUBSET Tickets
    /\ spent \in Budget
    /\ Queue!QueueTypeOK
    /\ \A j \in JobIds : jobs[j].state # "free" => jobs[j].item \in Tickets

-----------------------------------------------------------------------------
Messages(t) == thread[t].inbound + thread[t].byAgent + thread[t].byAssistant

HasOutbound(t) == thread[t].byAgent + thread[t].byAssistant > 0

(* declineFor: the gates on what is true of the ticket now.                *)
DeclineFor(t) ==
    GateDecline(rows[t].category, HasOutbound(t), thread[t].inbound)

Goto(w, step) == work' = [work EXCEPT ![w].step = step]

GiveBack(w, reason) ==
    work' = [work EXCEPT ![w].step = "release", ![w].reason = reason]

Record(t, entry) == trail' = [trail EXCEPT ![t] = Append(@, entry)]

(* The handler returns, or throws.                                         *)
Return(w) == Queue!Complete(w) /\ work' = [work EXCEPT ![w] = Idle]

Throw(w)  == Queue!Fail(w) /\ work' = [work EXCEPT ![w] = Idle]

(* assignIfUnowned: naming nobody writes nothing.                          *)
AssignIfUnowned(t, user) ==
    rows' = IF rows[t].assignee = "nobody"
            THEN [rows EXCEPT ![t].assignee = user] ELSE rows

(* enqueueAutoReply: the stamp and the job in one transaction, or neither  *)
(* when the feature is off.                                                *)
EnqueueAutoReply(t) ==
    IF enabled
    THEN /\ rows' = [rows EXCEPT ![t].offered = TRUE]
         /\ Queue!Send(t)
    ELSE UNCHANGED <<rows, jobs>>

Spend(what) == spent' = [spent EXCEPT ![what] = @ + 1]

Init ==
    /\ rows = [t \in Tickets |->
                 [status |-> "New", assignee |-> "nobody", category |-> "none",
                  offered |-> FALSE, decline |-> "none", autoResolved |-> FALSE,
                  lastMessageAt |-> 1]]
    /\ thread = [t \in Tickets |->
                   [inbound |-> 1, byAgent |-> 0, byAssistant |-> 0]]
    /\ trail = [t \in Tickets |-> <<>>]
    /\ filing = [t \in Tickets |-> "unread"]
    /\ reopening = [t \in Tickets |-> "no"]
    /\ work = [w \in Handlers |-> Idle]
    /\ stuck = {}
    /\ requeue = "none"
    /\ enabled = TRUE
    /\ old = {}
    /\ spent = [edits |-> 0, failures |-> 0, crashes |-> 0, sweeps |-> 0,
                stalls |-> 0]
    /\ Queue!QueueInit

-----------------------------------------------------------------------------
(* The handler, `handle`.                                                  *)

Start(w, j) ==
    /\ work[w].step = "idle"
    /\ Queue!Fetch(w, j)
    /\ work' = [work EXCEPT ![w] = [Idle EXCEPT !.step = "claim",
                                                !.ticket = jobs[j].item]]
    /\ UNCHANGED <<ticketVars, worldVars, sweepVars, spent>>

(* The claim fires only from New and only while nobody owns the ticket.    *)
Claim(w) ==
    LET t == work[w].ticket IN
    /\ work[w].step = "claim"
    /\ \/ /\ rows[t].status = "New"
          /\ rows[t].assignee = "nobody"
          /\ rows' = [rows EXCEPT ![t].status = "Processing"]
          /\ Goto(w, "read")
          /\ UNCHANGED queueVars
       \/ /\ ~(rows[t].status = "New" /\ rows[t].assignee = "nobody")
          /\ Return(w)
          /\ UNCHANGED rows
    /\ UNCHANGED <<thread, trail, worldVars, sweepVars, spent>>

(* One read of the row and its messages, and the gates on it.              *)
Read(w) ==
    LET t == work[w].ticket IN
    /\ work[w].step = "read"
    /\ IF DeclineFor(t) # "none"
       THEN GiveBack(w, DeclineFor(t))
       ELSE work' = [work EXCEPT ![w].step = "ask",
                                 ![w].seenAt = rows[t].lastMessageAt,
                                 ![w].seenCategory = rows[t].category]
    /\ UNCHANGED <<ticketVars, worldVars, sweepVars, spent, queueVars>>

(* The model call: a reply that passed every check, a reason not to send   *)
(* one, or a failure worth retrying.                                       *)
Ask(w) ==
    /\ work[w].step = "ask"
    /\ \/ Goto(w, "recheck") /\ UNCHANGED spent
       \/ \E reason \in Verdicts : GiveBack(w, reason) /\ UNCHANGED spent
       \/ /\ spent.failures < MaxFailures
          /\ GiveBack(w, "none")
          /\ Spend("failures")
    /\ UNCHANGED <<ticketVars, worldVars, sweepVars, queueVars>>

(* The resolving transaction reads first ...                               *)
Recheck(w) ==
    LET t == work[w].ticket IN
    /\ work[w].step = "recheck"
    /\ IF DeclineFor(t) # "none" THEN GiveBack(w, DeclineFor(t))
       ELSE Goto(w, "resolve")
    /\ UNCHANGED <<ticketVars, worldVars, sweepVars, spent, queueVars>>

(* Mutants: the resolve's `where` reduced to the id, and to id and status. *)
ByIdAlone(w) == TRUE
ByStatusAlone(w) == rows[work[w].ticket].status = "Processing"

StillOurs(w) ==
    LET row == rows[work[w].ticket] IN
    /\ row.status = "Processing"
    /\ row.lastMessageAt = work[w].seenAt
    /\ row.category = work[w].seenCategory

(* Mutant: the count of the conditional update is not looked at.           *)
ResolveBlindly(w) ==
    LET t == work[w].ticket IN
    /\ work[w].step = "resolve"
    /\ rows' = IF StillOurs(w)
               THEN [rows EXCEPT ![t].status = "Resolved",
                                 ![t].autoResolved = TRUE,
                                 ![t].lastMessageAt = @ + 1]
               ELSE rows
    /\ thread' = IF StillOurs(w)
                 THEN [thread EXCEPT ![t].byAssistant = @ + 1] ELSE thread
    /\ Goto(w, "file")
    /\ UNCHANGED <<trail, worldVars, sweepVars, spent, queueVars>>

(* ... then resolves only the version the model answered.  The row lock of *)
(* a matching update covers `sendReply`, so the reply commits with it.     *)
Resolve(w) ==
    LET t == work[w].ticket IN
    /\ work[w].step = "resolve"
    /\ \/ /\ StillOurs(w)
          /\ rows' = [rows EXCEPT ![t].status = "Resolved",
                                  ![t].autoResolved = TRUE,
                                  ![t].decline = "none",
                                  ![t].lastMessageAt = @ + 1]
          /\ thread' = [thread EXCEPT ![t].byAssistant = @ + 1]
          /\ Goto(w, "file")
       \/ /\ ~StillOurs(w)
          /\ Goto(w, "reread")
          /\ UNCHANGED <<rows, thread>>
    /\ UNCHANGED <<trail, worldVars, sweepVars, spent, queueVars>>

(* Nothing matched: not ours any more, or ours and changed.                *)
Reread(w) ==
    LET t == work[w].ticket
        why == DeclineFor(t) IN
    /\ work[w].step = "reread"
    /\ \/ /\ rows[t].status # "Processing"
          /\ Return(w)
       \/ /\ rows[t].status = "Processing"
          /\ GiveBack(w, IF why = "none" THEN "followUp" ELSE why)
          /\ UNCHANGED queueVars
    /\ UNCHANGED <<ticketVars, worldVars, sweepVars, spent>>

(* Outside the transaction: the assistant becomes the owner.               *)
File(w) ==
    /\ work[w].step = "file"
    /\ AssignIfUnowned(work[w].ticket, "assistant")
    /\ Goto(w, "logResolved")
    /\ UNCHANGED <<thread, trail, worldVars, sweepVars, spent, queueVars>>

LogResolved(w) ==
    /\ work[w].step = "logResolved"
    /\ Record(work[w].ticket, "auto_resolved")
    /\ Return(w)
    /\ UNCHANGED <<rows, thread, worldVars, sweepVars, spent>>

(* Mutant: a release that does not ask whether the claim is still there.   *)
ClaimedOrNot(t) == TRUE

Claimed(t) == rows[t].status = "Processing"

(* Mutant: a repair is a release and no more, without its hand-off.        *)
ReleaseUnowned(w) ==
    LET t == work[w].ticket
        reason == work[w].reason IN
    /\ work[w].step = "release"
    /\ rows' = IF Claimed(t)
               THEN [rows EXCEPT ![t].status = IF reason = "none" THEN "New" ELSE "Open",
                                 ![t].decline = reason]
               ELSE rows
    /\ IF reason = "none" THEN Throw(w) ELSE Return(w)
    /\ UNCHANGED <<thread, trail, worldVars, sweepVars, spent>>

(* `release`: back to Open with the reason, or to New, where it ends: the  *)
(* handler then throws to ask for a retry.                                 *)
Release(w) ==
    LET t == work[w].ticket
        reason == work[w].reason IN
    /\ work[w].step = "release"
    /\ \/ /\ reason = "none"
          /\ rows' = IF Claimed(t)
                     THEN [rows EXCEPT ![t].status = "New"] ELSE rows
          /\ Throw(w)
       \/ /\ reason # "none"
          /\ Claimed(t)
          /\ rows' = [rows EXCEPT ![t].status = "Open", ![t].decline = reason]
          /\ Goto(w, "handoff")
          /\ UNCHANGED queueVars
       \/ /\ reason # "none"
          /\ ~Claimed(t)
          /\ Return(w)
          /\ UNCHANGED rows
    /\ UNCHANGED <<thread, trail, worldVars, sweepVars, spent>>

Handoff(w) ==
    /\ work[w].step = "handoff"
    /\ AssignIfUnowned(work[w].ticket, HandoffTarget)
    /\ Goto(w, "logDeclined")
    /\ UNCHANGED <<thread, trail, worldVars, sweepVars, spent, queueVars>>

LogDeclined(w) ==
    /\ work[w].step = "logDeclined"
    /\ Record(work[w].ticket, "auto_declined")
    /\ Return(w)
    /\ UNCHANGED <<rows, thread, worldVars, sweepVars, spent>>

(* `onExhausted`, on the dead-letter queue: a release with `unavailable`.  *)
StartRepair(w, j) ==
    /\ work[w].step = "idle"
    /\ Queue!FetchDead(w, j)
    /\ work' = [work EXCEPT ![w] = [Idle EXCEPT !.step = "release",
                                                !.ticket = jobs[j].item,
                                                !.reason = "unavailable"]]
    /\ UNCHANGED <<ticketVars, worldVars, sweepVars, spent>>

-----------------------------------------------------------------------------
(* Failures of the machinery.                                              *)

(* The process is killed, or a database call throws.                       *)
Crash(w) ==
    /\ work[w].step # "idle"
    /\ spent.crashes < MaxCrashes
    /\ Spend("crashes")
    /\ Queue!Abandon(w)
    /\ work' = [work EXCEPT ![w] = Idle]
    /\ UNCHANGED <<ticketVars, worldVars, sweepVars>>

(* A job outlives `expireInSeconds`: its handler died, or has stalled.     *)
ExpireOrphan(j) ==
    /\ ~Queue!HasHandler(j)
    /\ Queue!Expire(j)
    /\ UNCHANGED <<ticketVars, worldVars, sweepVars, work, spent>>

ExpireStalled(j) ==
    /\ Queue!HasHandler(j)
    /\ spent.stalls < MaxStalls
    /\ Spend("stalls")
    /\ Queue!Expire(j)
    /\ UNCHANGED <<ticketVars, worldVars, sweepVars, work>>

-----------------------------------------------------------------------------
(* The recovery sweep, `recoverStuck`.                                     *)

Claimants(t) ==
    {w \in Handlers : /\ work[w].ticket = t
                      /\ work[w].step \notin {"idle", "claim"}}

(* Mutant: the sweep looks at unowned tickets only, as the claim does.     *)
AbandonedUnowned ==
    {t \in Tickets \ old : /\ rows[t].status = "Processing"
                           /\ rows[t].assignee = "nobody"
                           /\ Claimants(t) = {}}

Abandoned ==
    {t \in Tickets \ old : rows[t].status = "Processing" /\ Claimants(t) = {}}

Stallable ==
    {t \in Tickets \ old : rows[t].status = "Processing" /\ Claimants(t) # {}}

(* The list is read once; what it holds can have moved on before its turn. *)
SweepReads ==
    /\ stuck = {} /\ requeue = "none"
    /\ \E stalled \in SUBSET Stallable :
          /\ stuck' = Abandoned \cup stalled
          /\ stuck' # {}
          /\ IF stalled = {} THEN UNCHANGED spent
             ELSE spent.stalls < MaxStalls /\ Spend("stalls")
    /\ UNCHANGED <<ticketVars, worldVars, work, requeue, queueVars>>

SweepReleases ==
    /\ requeue = "none"
    /\ \E t \in stuck :
          /\ rows' = IF rows[t].status = "Processing"
                     THEN [rows EXCEPT ![t].status = "New"] ELSE rows
          /\ stuck' = stuck \ {t}
          /\ requeue' = t
    /\ UNCHANGED <<thread, trail, worldVars, work, spent, queueVars>>

(* Mutant: the sweep counts on the expired job to come back.               *)
SweepForgets ==
    /\ requeue # "none"
    /\ requeue' = "none"
    /\ UNCHANGED <<ticketVars, worldVars, work, stuck, spent, queueVars>>

SweepEnqueues ==
    /\ requeue # "none"
    /\ EnqueueAutoReply(requeue)
    /\ requeue' = "none"
    /\ UNCHANGED <<thread, trail, worldVars, work, stuck, spent, held>>

SweepDies ==
    /\ stuck # {} \/ requeue # "none"
    /\ spent.sweeps < MaxSweepCrashes
    /\ Spend("sweeps")
    /\ stuck' = {} /\ requeue' = "none"
    /\ UNCHANGED <<ticketVars, worldVars, work, queueVars>>

-----------------------------------------------------------------------------
(* The classifier's handler: the conditional write that files the ticket,  *)
(* then, some calls later, the offer.  A second delivery that was waiting  *)
(* for the model files it again if an agent has cleared the category.      *)

ClassifierFiles(t) ==
    /\ filing[t] # "filed"
    /\ rows[t].category = "none"
    /\ \E c \in Categories : rows' = [rows EXCEPT ![t].category = c]
    /\ filing' = [filing EXCEPT ![t] = "filed"]
    /\ UNCHANGED <<thread, trail, reopening, enabled, old, work, sweepVars,
                   spent, queueVars>>

ClassifierOffers(t) ==
    /\ filing[t] = "filed"
    /\ filing' = [filing EXCEPT ![t] = "done"]
    /\ EnqueueAutoReply(t)
    /\ UNCHANGED <<thread, trail, reopening, enabled, old, work, sweepVars,
                   spent, held>>

-----------------------------------------------------------------------------
(* A customer writes again: the thread branch of `ingestInboundEmail`.     *)

(* One transaction: the message, lastMessageAt, and the reopen of a ticket *)
(* the assistant resolved.                                                 *)
CustomerReplies(t) ==
    /\ thread[t].inbound < MaxInbound
    /\ thread' = [thread EXCEPT ![t].inbound = @ + 1]
    /\ IF rows[t].autoResolved
       THEN /\ rows' = [rows EXCEPT ![t].lastMessageAt = @ + 1,
                                    ![t].status = "Open",
                                    ![t].autoResolved = FALSE]
            /\ reopening' = [reopening EXCEPT ![t] = "log"]
       ELSE /\ rows' = [rows EXCEPT ![t].lastMessageAt = @ + 1]
            /\ UNCHANGED reopening
    /\ UNCHANGED <<trail, filing, enabled, old, work, sweepVars, spent,
                   queueVars>>

ReopenLogs(t) ==
    /\ reopening[t] = "log"
    /\ Record(t, "reopened")
    /\ reopening' = [reopening EXCEPT ![t] = "reroute"]
    /\ UNCHANGED <<rows, thread, filing, enabled, old, work, sweepVars, spent,
                   queueVars>>

(* Only a ticket still filed under the assistant changes hands ...         *)
ReopenReroutes(t) ==
    LET moves == rows[t].assignee = "assistant" IN
    /\ reopening[t] = "reroute"
    /\ rows' = IF moves THEN [rows EXCEPT ![t].assignee = HandoffTarget] ELSE rows
    /\ reopening' = [reopening EXCEPT ![t] = IF moves THEN "tell" ELSE "no"]
    /\ UNCHANGED <<thread, trail, filing, enabled, old, work, sweepVars, spent,
                   queueVars>>

(* ... and the history says so in a write of its own.                      *)
ReopenTells(t) ==
    /\ reopening[t] = "tell"
    /\ Record(t, "assignee_changed")
    /\ reopening' = [reopening EXCEPT ![t] = "no"]
    /\ UNCHANGED <<rows, thread, filing, enabled, old, work, sweepVars, spent,
                   queueVars>>

(* Killed after the commit.  The provider delivers the email again and the *)
(* second delivery stops at the duplicate check.                           *)
ReopenDies(t) ==
    /\ reopening[t] # "no"
    /\ spent.crashes < MaxCrashes
    /\ Spend("crashes")
    /\ reopening' = [reopening EXCEPT ![t] = "no"]
    /\ UNCHANGED <<ticketVars, filing, enabled, old, work, sweepVars,
                   queueVars>>

-----------------------------------------------------------------------------
(* Agents.  Every PATCH writes its column whatever the row holds.          *)

Edit ==
    /\ spent.edits < MaxEdits
    /\ Spend("edits")
    /\ UNCHANGED <<trail, worldVars, work, sweepVars, queueVars>>

AgentAssigns(t) ==
    /\ Edit
    /\ \E a \in Agents \cup {"nobody"} :
          rows' = [rows EXCEPT ![t].assignee = a]
    /\ UNCHANGED thread

AgentMoves(t) ==
    /\ Edit
    /\ \E s \in AGENT_SETTABLE_STATUS :
          rows' = [rows EXCEPT ![t].status = s]
    /\ UNCHANGED thread

AgentFiles(t) ==
    /\ Edit
    /\ \E c \in Categories \cup {"none"} :
          rows' = [rows EXCEPT ![t].category = c]
    /\ UNCHANGED thread

AgentReplies(t) ==
    /\ Edit
    /\ thread' = [thread EXCEPT ![t].byAgent = @ + 1]
    /\ rows' = [rows EXCEPT ![t].lastMessageAt = @ + 1]

SwitchAutoReply ==
    /\ SwitchMoves
    /\ enabled' = ~enabled
    /\ UNCHANGED <<ticketVars, filing, reopening, old, work, sweepVars, spent,
                   queueVars>>

Ages(t) ==
    /\ MayAge
    /\ old' = old \cup {t}
    /\ UNCHANGED <<ticketVars, filing, reopening, enabled, work, sweepVars,
                   spent, queueVars>>

-----------------------------------------------------------------------------
HandlerStep(w) ==
    \/ Claim(w) \/ Read(w) \/ Ask(w) \/ Recheck(w) \/ Resolve(w) \/ Reread(w)
    \/ File(w) \/ LogResolved(w)
    \/ Release(w) \/ Handoff(w) \/ LogDeclined(w)

QueueStep ==
    \/ \E w \in Handlers, j \in JobIds : Start(w, j) \/ StartRepair(w, j)
    \/ \E j \in JobIds : ExpireOrphan(j) \/ ExpireStalled(j)

SweepStep == SweepReads \/ SweepReleases \/ SweepEnqueues \/ SweepDies

TicketStep(t) ==
    \/ ClassifierFiles(t) \/ ClassifierOffers(t)
    \/ CustomerReplies(t) \/ ReopenLogs(t) \/ ReopenReroutes(t)
    \/ ReopenTells(t) \/ ReopenDies(t)
    \/ AgentAssigns(t) \/ AgentMoves(t) \/ AgentFiles(t) \/ AgentReplies(t)
    \/ Ages(t)

Next ==
    \/ \E w \in Handlers : HandlerStep(w) \/ Crash(w)
    \/ QueueStep
    \/ SweepStep
    \/ \E t \in Tickets : TicketStep(t)
    \/ SwitchAutoReply

Spec == Init /\ [][Next]_vars

(* What the running process does without being asked twice: a handler goes *)
(* on to its next call, a worker polls, pg-boss expires a dead handler's   *)
(* job, the cron sweeps, the classifier's handler and the webhook finish.  *)
(* No fairness for a crash, a stall, an agent, a customer or the model's   *)
(* choice of answer.                                                       *)
Fairness ==
    /\ \A w \in Handlers : WF_vars(HandlerStep(w))
    /\ \A j \in JobIds : /\ WF_vars(\E w \in Handlers : Start(w, j))
                         /\ WF_vars(\E w \in Handlers : StartRepair(w, j))
                         /\ WF_vars(ExpireOrphan(j))
    /\ WF_vars(SweepReads) /\ WF_vars(SweepReleases) /\ WF_vars(SweepEnqueues)
    /\ \A t \in Tickets : WF_vars(ClassifierOffers(t))

FairSpec == Spec /\ Fairness

-----------------------------------------------------------------------------
(* Properties.                                                             *)

(* However often a job is delivered, and however its handlers interleave   *)
(* with the sweep, no customer gets two automated answers on a ticket.     *)
OneAutomatedReply == \A t \in Tickets : thread[t].byAssistant <= 1

(* A machine answers openings: when its reply commits, the thread is still *)
(* the customer's one message, nobody has replied, and the category of     *)
(* that moment is one a machine may answer.                                *)
AnswersOpenings ==
    [][\A t \in Tickets :
          thread'[t].byAssistant # thread[t].byAssistant =>
             /\ thread[t].inbound = 1
             /\ ~HasOutbound(t)
             /\ rows[t].category \in ANSWERABLE_CATEGORIES]_vars

(* A ticket never shows both verdicts, and the reply and the resolve it    *)
(* was written under are one commit.                                       *)
OneVerdict ==
    \A t \in Tickets :
       /\ rows[t].autoResolved => thread[t].byAssistant = 1
       /\ thread[t].byAssistant > 0 => rows[t].decline = "none"

(* The history tells the machine's verdict once, and the one it reached.   *)
VerdictEntries(t) ==
    {i \in DOMAIN trail[t] : trail[t][i] \in {"auto_resolved", "auto_declined"}}

HistoryTellsOneVerdict ==
    \A t \in Tickets : \A i \in VerdictEntries(t) :
       /\ \A j \in VerdictEntries(t) : i = j
       /\ trail[t][i] = "auto_resolved" <=> thread[t].byAssistant = 1

(* What makes the two above inductive.  The column the resolve compares    *)
(* moves with every message, by whoever; a handler past its gates saw a    *)
(* thread of one message; and a ticket with a verdict is out of reach of   *)
(* every claim.                                                            *)
VersionCountsMessages ==
    \A t \in Tickets :
       rows[t].lastMessageAt = Messages(t) /\ thread[t].inbound >= 1

SnapshotIsOpening ==
    \A w \in Handlers :
       work[w].step \in {"ask", "recheck", "resolve", "reread"} =>
          work[w].seenAt = 1 /\ work[w].seenCategory \in ANSWERABLE_CATEGORIES

VerdictEndsClaims ==
    \A t \in Tickets :
       rows[t].decline # "none" \/ thread[t].byAssistant > 0 =>
          rows[t].status \notin {"New", "Processing"}

ClaimInvariant ==
    VersionCountsMessages /\ SnapshotIsOpening /\ VerdictEndsClaims

(* The job implements what the feature promises.                           *)
VerdictOf(t) ==
    IF thread[t].byAssistant > 0 THEN "answered"
    ELSE IF rows[t].decline # "none" THEN "declined"
    ELSE "none"

Promise == INSTANCE OpeningAnswer
    WITH category <- [t \in Tickets |-> rows[t].category],
         verdict  <- [t \in Tickets |-> VerdictOf(t)]

KeepsPromise == Promise!Spec

(* Offered, unowned, unanswered, and some job will still act on it.        *)
Waiting(t) ==
    rows[t].offered /\ rows[t].status = "New" /\ rows[t].assignee = "nobody"

(* A ticket the machine has promised to look at is never left with nothing *)
(* coming for it.                                                          *)
WaitingHasJob ==
    \A t \in Tickets :
       Waiting(t) => Queue!Coming(t) \/ requeue = t \/ t \in stuck

(* Where there is somebody to hand over to, a ticket handed back with a    *)
(* reason has an owner, or is about to: the release and the hand-off are   *)
(* two writes, and only a worker killed between them, or an agent's hand,  *)
(* leaves it with nobody.                                                  *)
HandedBackIsOwned ==
    HandoffTarget # "nobody" => \A t \in Tickets :
       rows[t].decline # "none" /\ rows[t].assignee = "nobody" =>
          \/ spent.crashes > 0 \/ spent.edits > 0
          \/ \E w \in Handlers : work[w].ticket = t /\ work[w].step = "handoff"

(* A claim, which hides the ticket from every agent, is always given up,   *)
(* also when the worker that made it is dead.                              *)
ClaimIsGivenUp ==
    \A t \in Tickets :
       rows[t].status = "Processing" ~> rows[t].status # "Processing" \/ t \in old

(* What every reachable state satisfies, by parts: its type, one reply and *)
(* one verdict on a ticket, and what makes them inductive.                 *)
AutoReplyInvariant ==
    TypeOK /\ OneAutomatedReply /\ OneVerdict /\ ClaimInvariant
=============================================================================
