------------------------------- MODULE Outbox -------------------------------
(***************************************************************************)
(* The outbox: rows of outbound_email, the send worker of                  *)
(* apps/api/src/jobs/send-email.ts, the admin's retry of routes/outbox.ts  *)
(* and the retention sweep of jobs/prune-outbox.ts.                         *)
(*                                                                         *)
(* A row is written together with the job that nudges the worker.  There   *)
(* is no "sending" status: the worker reads that the row is queued, calls  *)
(* the provider, and writes what became of it under the condition that the *)
(* row is still queued.  The mail provider is external; what it was given  *)
(* is counted in `copies`, which no code can read.                         *)
(***************************************************************************)
EXTENDS Naturals, FiniteSets

CONSTANTS
    Emails,          \* the emails that get written
    DemoEmails,      \* those a demo session writes
    TicketEmails,    \* those that carry a message of a ticket
    Handlers,        \* handler activations of this queue
    JobIds,          \* job slots
    RetryLimit,      \* RETRY_LIMIT of boss.ts
    MaxRetries,      \* bound: an admin presses Retry
    MaxCrashes,      \* bound: handlers killed midway
    MaxRepairCrashes,\* bound: dead-letter repairs killed midway
    MaxStalls,       \* bound: live handlers mistaken for dead ones
    MaxTimeouts,     \* bound: emails a provider takes without an answer
    ProviderMoves,   \* may a deployment bring or remove the provider?
    TicketsGo        \* may a ticket be deleted?

ASSUME OutboxAssumption ==
    /\ DemoEmails \subseteq Emails
    /\ TicketEmails \subseteq Emails
    /\ IsFiniteSet(Handlers) /\ IsFiniteSet(JobIds)
    /\ "none" \notin Emails \cup JobIds
    /\ RetryLimit \in Nat
    /\ ProviderMoves \in BOOLEAN /\ TicketsGo \in BOOLEAN

VARIABLES
    status,      \* of each row; "absent" before it is written
    copies,      \* how often the provider has taken each email
    work,        \* what each handler activation is doing
    expired,     \* rows older than their kind is kept
    doomed,      \* the prune: rows it has read and will delete
    configured,  \* isMailConfigured()
    spent,       \* how much of each bound has been used
    jobs, held   \* the queue

queueVars == <<jobs, held>>
pruneVars == <<expired, doomed>>
vars == <<status, copies, work, expired, doomed, configured, spent, jobs, held>>

Queue == INSTANCE JobQueue WITH Items <- Emails

OUTBOUND_EMAIL_STATUS == {"queued", "sent", "failed", "undeliverable", "withheld"}

RetryEvenSent == {"undeliverable", "failed", "sent"}
RETRYABLE_STATUS == {"undeliverable", "failed"}
PRUNABLE_STATUS == {"sent", "failed", "undeliverable", "withheld"}

(* What deliver() answers.  Its fourth outcome, unavailable, needs a       *)
(* process with no provider, and the handler has asked that already.       *)
MAIL_OUTCOME == {"accepted", "rejected", "deferred"}

Work == [step   : {"idle", "read", "noProvider", "deliver", "settle", "repair"},
         email  : Emails \cup {"none"},
         result : MAIL_OUTCOME \cup {"none"}]

Idle == [step |-> "idle", email |-> "none", result |-> "none"]

Budget == [retries : Nat, crashes : Nat, repairs : Nat, stalls : Nat,
           timeouts : Nat]

TypeOK ==
    /\ status \in [Emails -> OUTBOUND_EMAIL_STATUS \cup {"absent", "gone"}]
    /\ copies \in [Emails -> Nat]
    /\ work \in [Handlers -> Work]
    /\ \A w \in Handlers : work[w].step # "idle" => work[w].email \in Emails
    /\ expired \in SUBSET Emails
    /\ doomed \in SUBSET Emails
    /\ configured \in BOOLEAN
    /\ spent \in Budget
    /\ Queue!QueueTypeOK
    /\ \A j \in JobIds : jobs[j].state # "free" => jobs[j].item \in Emails

Init ==
    /\ status = [e \in Emails |-> "absent"]
    /\ copies = [e \in Emails |-> 0]
    /\ work = [w \in Handlers |-> Idle]
    /\ expired = {} /\ doomed = {}
    /\ configured \in BOOLEAN
    /\ spent = [retries |-> 0, crashes |-> 0, repairs |-> 0, stalls |-> 0,
                timeouts |-> 0]
    /\ Queue!QueueInit

-----------------------------------------------------------------------------
Spend(what) == spent' = [spent EXCEPT ![what] = @ + 1]

Goto(w, step) == work' = [work EXCEPT ![w].step = step]

(* The handler returns, or throws.                                         *)
Return(w) == Queue!Complete(w) /\ work' = [work EXCEPT ![w] = Idle]
Throw(w)  == Queue!Fail(w) /\ work' = [work EXCEPT ![w] = Idle]

(* `updateMany({ where: { id, status: "queued" } })`.                      *)
SettleAs(e, s) ==
    status' = IF status[e] = "queued" THEN [status EXCEPT ![e] = s] ELSE status

(* Writing a row: enqueueEmail, the row and its job in one transaction;    *)
(* withholdEmail, the row alone.                                           *)
EnqueueEmail(e) ==
    /\ status[e] = "absent"
    /\ e \notin DemoEmails
    /\ status' = [status EXCEPT ![e] = "queued"]
    /\ Queue!Send(e)
    /\ UNCHANGED <<copies, work, pruneVars, configured, spent, held>>

WithholdEmail(e) ==
    /\ status[e] = "absent"
    /\ e \in DemoEmails
    /\ status' = [status EXCEPT ![e] = "withheld"]
    /\ UNCHANGED <<copies, work, pruneVars, configured, spent, queueVars>>

-----------------------------------------------------------------------------
(* The handler.                                                            *)

Start(w, j) ==
    /\ work[w].step = "idle"
    /\ Queue!Fetch(w, j)
    /\ work' = [work EXCEPT ![w] = [step |-> "read", email |-> jobs[j].item,
                                    result |-> "none"]]
    /\ UNCHANGED <<status, copies, pruneVars, configured, spent>>

Read(w) ==
    /\ work[w].step = "read"
    /\ \/ /\ status[work[w].email] # "queued"
          /\ Return(w)
       \/ /\ status[work[w].email] = "queued"
          /\ Goto(w, IF configured THEN "deliver" ELSE "noProvider")
          /\ UNCHANGED queueVars
    /\ UNCHANGED <<status, copies, pruneVars, configured, spent>>

NoProvider(w) ==
    /\ work[w].step = "noProvider"
    /\ SettleAs(work[w].email, "undeliverable")
    /\ Return(w)
    /\ UNCHANGED <<copies, pruneVars, configured, spent>>

Outcome(w, result) ==
    work' = [work EXCEPT ![w].step = "settle", ![w].result = result]

(* The call to the provider: it takes the email, refuses it, cannot say    *)
(* now, takes it without the answer getting back, or the call throws.      *)
Deliver(w) ==
    LET e == work[w].email
        taken == [copies EXCEPT ![e] = @ + 1] IN
    /\ work[w].step = "deliver"
    /\ \/ /\ Outcome(w, "accepted")
          /\ copies' = taken
          /\ UNCHANGED <<spent, queueVars>>
       \/ /\ \E result \in {"rejected", "deferred"} : Outcome(w, result)
          /\ UNCHANGED <<copies, spent, queueVars>>
       \/ /\ spent.timeouts < MaxTimeouts
          /\ Spend("timeouts")
          /\ Outcome(w, "deferred")
          /\ copies' = taken
          /\ UNCHANGED queueVars
       \/ /\ Throw(w)
          /\ UNCHANGED <<copies, spent>>
    /\ UNCHANGED <<status, pruneVars, configured>>

(* Only a terminal outcome settles the row; a deferred one asks for a      *)
(* retry by throwing.                                                      *)
Settle(w) ==
    LET e == work[w].email
        result == work[w].result IN
    /\ work[w].step = "settle"
    /\ \/ result = "accepted" /\ SettleAs(e, "sent") /\ Return(w)
       \/ result = "rejected" /\ SettleAs(e, "failed") /\ Return(w)
       \/ result = "deferred" /\ UNCHANGED status /\ Throw(w)
    /\ UNCHANGED <<copies, pruneVars, configured, spent>>

(* `onExhausted`, on the dead-letter queue.                                *)
StartRepair(w, j) ==
    /\ work[w].step = "idle"
    /\ Queue!FetchDead(w, j)
    /\ work' = [work EXCEPT ![w] = [step |-> "repair", email |-> jobs[j].item,
                                    result |-> "none"]]
    /\ UNCHANGED <<status, copies, pruneVars, configured, spent>>

(* Mutant: the repair is left to the log line and the alert.               *)
RepairByAlert(w) ==
    /\ work[w].step = "repair"
    /\ Return(w)
    /\ UNCHANGED <<status, copies, pruneVars, configured, spent>>

Repair(w) ==
    /\ work[w].step = "repair"
    /\ SettleAs(work[w].email, "failed")
    /\ Return(w)
    /\ UNCHANGED <<copies, pruneVars, configured, spent>>

-----------------------------------------------------------------------------
(* Failures of the machinery.                                              *)

(* The process is killed, or a database call throws.                       *)
Crash(w) ==
    /\ \/ /\ work[w].step \notin {"idle", "repair"}
          /\ spent.crashes < MaxCrashes
          /\ Spend("crashes")
       \/ /\ work[w].step = "repair"
          /\ spent.repairs < MaxRepairCrashes
          /\ Spend("repairs")
    /\ Queue!Abandon(w)
    /\ work' = [work EXCEPT ![w] = Idle]
    /\ UNCHANGED <<status, copies, pruneVars, configured>>

(* A job outlives `expireInSeconds`: its handler died, or has stalled.     *)
ExpireOrphan(j) ==
    /\ ~Queue!HasHandler(j)
    /\ Queue!Expire(j)
    /\ UNCHANGED <<status, copies, work, pruneVars, configured, spent>>

ExpireStalled(j) ==
    /\ Queue!HasHandler(j)
    /\ spent.stalls < MaxStalls
    /\ Spend("stalls")
    /\ Queue!Expire(j)
    /\ UNCHANGED <<status, copies, work, pruneVars, configured>>

-----------------------------------------------------------------------------
(* The admin's retry: the flip and the nudge in one transaction, and       *)
(* neither when the flip matches nothing or there is nobody to send with.  *)
Retry(e) ==
    /\ configured
    /\ spent.retries < MaxRetries
    /\ status[e] \in RETRYABLE_STATUS
    /\ Spend("retries")
    /\ status' = [status EXCEPT ![e] = "queued"]
    /\ Queue!Send(e)
    /\ UNCHANGED <<copies, work, pruneVars, configured, held>>

(* The sweep reads the rows past their retention, then deletes those that  *)
(* are still settled.                                                      *)
PruneSelects ==
    /\ doomed = {}
    /\ doomed' = {e \in expired : status[e] \in PRUNABLE_STATUS}
    /\ doomed' # {}
    /\ UNCHANGED <<status, copies, work, expired, configured, spent, queueVars>>

(* Mutant: the delete trusts the ids it read.                              *)
PruneByIds ==
    /\ doomed # {}
    /\ status' = [e \in Emails |-> IF e \in doomed THEN "gone" ELSE status[e]]
    /\ doomed' = {}
    /\ UNCHANGED <<copies, work, expired, configured, spent, queueVars>>

PruneDeletes ==
    /\ doomed # {}
    /\ status' = [e \in Emails |->
                    IF e \in doomed /\ status[e] \in PRUNABLE_STATUS
                    THEN "gone" ELSE status[e]]
    /\ doomed' = {}
    /\ UNCHANGED <<copies, work, expired, configured, spent, queueVars>>

(* Time passes; a ticket is deleted and its messages' emails with it; a    *)
(* deployment brings a provider or takes it away.                          *)
Ages(e) ==
    /\ status[e] # "absent"
    /\ expired' = expired \cup {e}
    /\ UNCHANGED <<status, copies, work, doomed, configured, spent, queueVars>>

TicketGoes(e) ==
    /\ TicketsGo
    /\ e \in TicketEmails
    /\ status[e] \notin {"absent", "gone"}
    /\ status' = [status EXCEPT ![e] = "gone"]
    /\ UNCHANGED <<copies, work, pruneVars, configured, spent, queueVars>>

SwitchProvider ==
    /\ ProviderMoves
    /\ configured' = ~configured
    /\ UNCHANGED <<status, copies, work, pruneVars, spent, queueVars>>

-----------------------------------------------------------------------------
HandlerStep(w) ==
    \/ Read(w) \/ NoProvider(w) \/ Deliver(w) \/ Settle(w) \/ Repair(w)

QueueStep ==
    \/ \E w \in Handlers, j \in JobIds : Start(w, j) \/ StartRepair(w, j)
    \/ \E j \in JobIds : ExpireOrphan(j) \/ ExpireStalled(j)

EmailStep(e) ==
    \/ EnqueueEmail(e) \/ WithholdEmail(e) \/ Retry(e) \/ Ages(e) \/ TicketGoes(e)

Next ==
    \/ \E w \in Handlers : HandlerStep(w) \/ Crash(w)
    \/ QueueStep
    \/ \E e \in Emails : EmailStep(e)
    \/ PruneSelects \/ PruneDeletes
    \/ SwitchProvider

Spec == Init /\ [][Next]_vars

(* A running process goes on; a worker polls; pg-boss expires the job of a *)
(* dead handler.  Nobody has to write, retry, age or delete an email, and  *)
(* the provider may defer or throw every time.                             *)
Fairness ==
    /\ \A w \in Handlers : WF_vars(HandlerStep(w))
    /\ \A j \in JobIds : /\ WF_vars(\E w \in Handlers : Start(w, j))
                         /\ WF_vars(\E w \in Handlers : StartRepair(w, j))
                         /\ WF_vars(ExpireOrphan(j))

FairSpec == Spec /\ Fairness

-----------------------------------------------------------------------------
(* Properties.                                                             *)

(* The rows implement the promise: only settled mail is pruned or revived, *)
(* sent mail stays sent and was taken, demo mail never leaves.             *)
Standing(e) ==
    CASE status[e] = "absent" -> "unwritten"
      [] status[e] = "queued" -> "promised"
      [] status[e] = "sent" -> "kept"
      [] status[e] \in {"failed", "undeliverable"} -> "givenUp"
      [] status[e] = "withheld" -> "withheld"
      [] OTHER -> "gone"

Promised == INSTANCE MailPromise
    WITH standing <- [e \in Emails |-> Standing(e)],
         handed   <- {e \in Emails : copies[e] > 0}

KeepsMailPromise == Promised!Spec

(* Nothing is left queued with no job coming for it: a job, or a handler   *)
(* whose job has expired and that is about to settle the row -- unless a   *)
(* dead-letter repair was killed: that job is not retried.                 *)
QueuedHasJob ==
    \A e \in Emails :
       status[e] = "queued" =>
          \/ Queue!Coming(e)
          \/ \E w \in Handlers : work[w].step = "repair" /\ work[w].email = e
          \/ spent.repairs > 0

(* A customer gets a second copy only for a reason nobody can rule out: a  *)
(* worker that died or stalled in the middle, a provider whose answer got  *)
(* lost.  Retries by jobs and by admins never cost one by themselves.      *)
DuplicatesNeedTrouble ==
    \A e \in Emails :
       copies[e] <= 1 + spent.crashes + spent.stalls + spent.timeouts

(* A queued row does not stay queued, whatever the provider answers, but   *)
(* for the repair that was killed.                                         *)
QueuedIsSettled ==
    \A e \in Emails :
       status[e] = "queued" ~> (status[e] # "queued" \/ spent.repairs > 0)

(* What every reachable state satisfies, by parts: a queued row has its    *)
(* job, and no second copy goes out without trouble.                       *)
OutboxInvariant == TypeOK /\ QueuedHasJob /\ DuplicatesNeedTrouble
=============================================================================
