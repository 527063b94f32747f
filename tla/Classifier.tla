----------------------------- MODULE Classifier -----------------------------
(***************************************************************************)
(* The classifier job, apps/api/src/jobs/classify-ticket.ts: the handler   *)
(* between its database calls and its model call, the dead-letter repair,  *)
(* the reconciliation sweep, and the agents who file the same ticket by    *)
(* hand.  What the offer at its end sets going is the module AutoReply,    *)
(* which sees of this one only that a ticket is filed and then offered.    *)
(* The auto-reply is taken to be switched on.                              *)
(***************************************************************************)
EXTENDS Naturals, Sequences, FiniteSets

CONSTANTS
    Tickets,      \* tickets, each opened by one inbound email
    Handlers,     \* handler activations of this queue
    JobIds,       \* job slots
    RetryLimit,   \* RETRY_LIMIT of boss.ts
    Categories,   \* the categories that occur
    Failures,     \* the ways the model call fails
    MaxEdits,     \* bound: agent edits, all tickets together
    MaxCrashes,   \* bound: handlers killed midway, or broken off by the database
    MaxStalls,    \* bound: live handlers mistaken for dead ones
    KeyMoves,     \* may the deployment gain or lose its AI key?
    MayAge        \* may a ticket grow older than RECONCILE_MAX_AGE_MS?

AI_FAILURE == {"provider", "busy", "empty", "quota", "auth", "config"}
RETRYABLE_AI_FAILURE == {"provider", "busy", "empty"}

ASSUME ClassifierAssumption ==
    /\ "none" \notin Tickets \cup JobIds \cup Categories
    /\ IsFiniteSet(Handlers)
    /\ RetryLimit \in Nat
    /\ Failures \subseteq AI_FAILURE
    /\ KeyMoves \in BOOLEAN /\ MayAge \in BOOLEAN

VARIABLES
    rows,        \* the columns of a ticket row this job reads and writes
    trail,       \* the categories the machine's activity entries name
    age,         \* under or over the sweep's floor, or past its ceiling
    clears,      \* ghost: how often agents un-categorised each ticket
    dropped,     \* ghost: tickets a handler filed and then broke off
    work,        \* what each handler activation is doing
    stale,       \* the sweep: tickets it read and has not offered back yet
    configured,  \* isAiConfigured()
    spent,       \* how much of each bound has been used
    jobs, held   \* the queue

queueVars == <<jobs, held>>
ticketVars == <<rows, trail, age, clears, dropped>>
vars == <<rows, trail, age, clears, dropped, work, stale, configured, spent, jobs, held>>

Queue == INSTANCE JobQueue WITH Items <- Tickets

Row == [category           : Categories \cup {"none"},
        classifierCategory : Categories \cup {"none"},
        classified         : BOOLEAN,                   \* classifiedAt
        offered            : BOOLEAN]                   \* autoReplyOfferedAt

Work == [step   : {"idle", "read", "ask", "file", "giveUp", "log", "offer", "repair"},
         ticket : Tickets \cup {"none"},
         answer : Categories \cup {"none"}]

Idle == [step |-> "idle", ticket |-> "none", answer |-> "none"]

Budget == [edits : Nat, crashes : Nat, stalls : Nat]

TypeOK ==
    /\ rows \in [Tickets -> Row]
    /\ trail \in [Tickets -> Seq(Categories)]
    /\ age \in [Tickets -> {"unborn", "young", "ripe", "old"}]
    /\ clears \in [Tickets -> Nat]
    /\ dropped \in SUBSET Tickets
    /\ work \in [Handlers -> Work]
    /\ \A w \in Handlers : work[w].step # "idle" => work[w].ticket \in Tickets
    /\ stale \in SUBSET Tickets
    /\ configured \in BOOLEAN
    /\ spent \in Budget
    /\ Queue!QueueTypeOK
    /\ \A j \in JobIds : jobs[j].state # "free" => jobs[j].item \in Tickets

Init ==
    /\ rows = [t \in Tickets |-> [category |-> "none", classifierCategory |-> "none",
                                  classified |-> FALSE, offered |-> FALSE]]
    /\ trail = [t \in Tickets |-> <<>>]
    /\ age = [t \in Tickets |-> "unborn"]
    /\ clears = [t \in Tickets |-> 0]
    /\ dropped = {}
    /\ work = [w \in Handlers |-> Idle]
    /\ stale = {}
    /\ configured \in BOOLEAN
    /\ spent = [edits |-> 0, crashes |-> 0, stalls |-> 0]
    /\ Queue!QueueInit

-----------------------------------------------------------------------------
Spend(what) == spent' = [spent EXCEPT ![what] = @ + 1]

Goto(w, step) == work' = [work EXCEPT ![w].step = step]

(* The handler returns, or throws.                                         *)
Return(w) == Queue!Complete(w) /\ work' = [work EXCEPT ![w] = Idle]
Throw(w)  == Queue!Fail(w) /\ work' = [work EXCEPT ![w] = Idle]

(* No verdict, no category, and not too old to bother.                     *)
ClassifierWillStillAct(t) ==
    /\ ~rows[t].classified
    /\ rows[t].category = "none"
    /\ age[t] \in {"young", "ripe"}

(* enqueueClassification: no key, no job.                                  *)
EnqueueClassification(t) ==
    IF configured THEN Queue!Send(t) ELSE UNCHANGED jobs

(* ingestInboundEmail opens a ticket: the row and the job in one           *)
(* transaction.                                                            *)
Arrive(t) ==
    /\ age[t] = "unborn"
    /\ age' = [age EXCEPT ![t] = "young"]
    /\ EnqueueClassification(t)
    /\ UNCHANGED <<rows, trail, clears, dropped, work, stale, configured, spent, held>>

-----------------------------------------------------------------------------
(* The handler.                                                            *)

Start(w, j) ==
    /\ work[w].step = "idle"
    /\ Queue!Fetch(w, j)
    /\ work' = [work EXCEPT ![w] = [step |-> "read", ticket |-> jobs[j].item,
                                    answer |-> "none"]]
    /\ UNCHANGED <<ticketVars, stale, configured, spent>>

Read(w) ==
    LET row == rows[work[w].ticket] IN
    /\ work[w].step = "read"
    /\ \/ /\ row.classified \/ row.category # "none"
          /\ Return(w)
       \/ /\ ~row.classified /\ row.category = "none"
          /\ Goto(w, "ask")
          /\ UNCHANGED queueVars
    /\ UNCHANGED <<ticketVars, stale, configured, spent>>

(* The model call: a category, a failure worth another attempt, or one     *)
(* that is not.                                                            *)
Ask(w) ==
    /\ work[w].step = "ask"
    /\ \/ /\ \E c \in Categories :
                work' = [work EXCEPT ![w].step = "file", ![w].answer = c]
          /\ UNCHANGED queueVars
       \/ Failures \cap RETRYABLE_AI_FAILURE # {} /\ Throw(w)
       \/ /\ ~(Failures \subseteq RETRYABLE_AI_FAILURE)
          /\ Goto(w, "giveUp")
          /\ UNCHANGED queueVars
    /\ UNCHANGED <<ticketVars, stale, configured, spent>>

GiveUp(w) ==
    /\ work[w].step = "giveUp"
    /\ rows' = [rows EXCEPT ![work[w].ticket].classified = TRUE]
    /\ Return(w)
    /\ UNCHANGED <<trail, age, clears, dropped, stale, configured, spent>>

Filed(row, c) ==
    [category |-> c, classifierCategory |-> c, classified |-> TRUE,
     offered |-> row.offered]

(* Mutant: `update` by id, which overwrites whatever the row holds.        *)
FileAnyway(w) ==
    LET t == work[w].ticket IN
    /\ work[w].step = "file"
    /\ rows' = [rows EXCEPT ![t] = Filed(rows[t], work[w].answer)]
    /\ Goto(w, "log")
    /\ UNCHANGED <<trail, age, clears, dropped, stale, configured, spent, queueVars>>

(* Only while the category is still empty; nothing at all otherwise.       *)
File(w) ==
    LET t == work[w].ticket IN
    /\ work[w].step = "file"
    /\ \/ /\ rows[t].category = "none"
          /\ rows' = [rows EXCEPT ![t] = Filed(rows[t], work[w].answer)]
          /\ Goto(w, "log")
          /\ UNCHANGED queueVars
       \/ /\ rows[t].category # "none"
          /\ Return(w)
          /\ UNCHANGED rows
    /\ UNCHANGED <<trail, age, clears, dropped, stale, configured, spent>>

(* Mutant: the entry is awaited without its catch, and the handler throws. *)
LogOrThrow(w) ==
    /\ work[w].step = "log"
    /\ \/ /\ trail' = [trail EXCEPT ![work[w].ticket] = Append(@, work[w].answer)]
          /\ Goto(w, "offer")
          /\ UNCHANGED queueVars
       \/ /\ Throw(w)
          /\ UNCHANGED trail
    /\ UNCHANGED <<rows, age, clears, dropped, stale, configured, spent>>

(* recordActivity swallows a failure of the entry's insert: the entry is   *)
(* lost, the handler goes on.                                              *)
Log(w) ==
    /\ work[w].step = "log"
    /\ \/ trail' = [trail EXCEPT ![work[w].ticket] = Append(@, work[w].answer)]
       \/ UNCHANGED trail
    /\ Goto(w, "offer")
    /\ UNCHANGED <<rows, age, clears, dropped, stale, configured, spent, queueVars>>

Offer(w) ==
    /\ work[w].step = "offer"
    /\ rows' = [rows EXCEPT ![work[w].ticket].offered = TRUE]
    /\ Return(w)
    /\ UNCHANGED <<trail, age, clears, dropped, stale, configured, spent>>

(* `onExhausted`, on the dead-letter queue.                                *)
StartRepair(w, j) ==
    /\ work[w].step = "idle"
    /\ Queue!FetchDead(w, j)
    /\ work' = [work EXCEPT ![w] = [step |-> "repair", ticket |-> jobs[j].item,
                                    answer |-> "none"]]
    /\ UNCHANGED <<ticketVars, stale, configured, spent>>

(* Mutant: the repair is left to the log line and the alert.               *)
RepairByAlert(w) ==
    /\ work[w].step = "repair"
    /\ Return(w)
    /\ UNCHANGED <<ticketVars, stale, configured, spent>>

Repair(w) ==
    /\ work[w].step = "repair"
    /\ rows' = [rows EXCEPT ![work[w].ticket].classified = TRUE]
    /\ Return(w)
    /\ UNCHANGED <<trail, age, clears, dropped, stale, configured, spent>>

-----------------------------------------------------------------------------
(* Failures of the machinery.                                              *)

(* Between its filing and its offer a handler has nobody behind it: the    *)
(* next delivery finds the ticket classified and returns.                  *)
BreaksOff(w) ==
    /\ work[w].step # "idle"
    /\ spent.crashes < MaxCrashes
    /\ Spend("crashes")
    /\ dropped' = dropped \cup {t \in {work[w].ticket} : work[w].step \in {"log", "offer"}}
    /\ UNCHANGED <<rows, trail, age, clears, stale, configured>>

Crash(w) ==
    /\ BreaksOff(w)
    /\ Queue!Abandon(w)
    /\ work' = [work EXCEPT ![w] = Idle]

(* A call to the database throws: a read, a write, the look for the        *)
(* assistant before the entry (which recordActivity does not catch), the   *)
(* transaction of the offer.                                               *)
DatabaseThrows(w) ==
    /\ work[w].step # "ask"
    /\ BreaksOff(w)
    /\ Throw(w)

ExpireOrphan(j) ==
    /\ ~Queue!HasHandler(j)
    /\ Queue!Expire(j)
    /\ UNCHANGED <<ticketVars, work, stale, configured, spent>>

ExpireStalled(j) ==
    /\ Queue!HasHandler(j)
    /\ spent.stalls < MaxStalls
    /\ Spend("stalls")
    /\ Queue!Expire(j)
    /\ UNCHANGED <<ticketVars, work, stale, configured>>

-----------------------------------------------------------------------------
(* The sweep, `reconcile`.  It reads the tickets, not the queue, so it may *)
(* send a second job for a ticket that has one.                            *)

SweepReads ==
    /\ stale = {}
    /\ stale' = {t \in Tickets : age[t] = "ripe" /\ ClassifierWillStillAct(t)}
    /\ stale' # {}
    /\ UNCHANGED <<ticketVars, work, configured, spent, queueVars>>

SweepOffers ==
    /\ \E t \in stale :
          /\ EnqueueClassification(t)
          /\ stale' = stale \ {t}
    /\ UNCHANGED <<ticketVars, work, configured, spent, held>>

-----------------------------------------------------------------------------
(* An agent files the ticket under something else, or under nothing.       *)
AgentFiles(t) ==
    /\ age[t] # "unborn"
    /\ spent.edits < MaxEdits
    /\ Spend("edits")
    /\ \E c \in Categories \cup {"none"} :
          /\ c # rows[t].category
          /\ rows' = [rows EXCEPT ![t].category = c]
          /\ clears' = [clears EXCEPT ![t] = IF c = "none" THEN @ + 1 ELSE @]
    /\ UNCHANGED <<trail, age, dropped, work, stale, configured, queueVars>>

Ages(t) ==
    /\ \/ /\ age[t] = "young"
          /\ age' = [age EXCEPT ![t] = "ripe"]
       \/ /\ age[t] = "ripe"
          /\ MayAge
          /\ age' = [age EXCEPT ![t] = "old"]
    /\ UNCHANGED <<rows, trail, clears, dropped, work, stale, configured, spent, queueVars>>

SwitchKey ==
    /\ KeyMoves
    /\ configured' = ~configured
    /\ UNCHANGED <<ticketVars, work, stale, spent, queueVars>>

-----------------------------------------------------------------------------
HandlerStep(w) ==
    \/ Read(w) \/ Ask(w) \/ GiveUp(w) \/ File(w) \/ Log(w) \/ Offer(w)
    \/ Repair(w)

QueueStep ==
    \/ \E w \in Handlers, j \in JobIds : Start(w, j) \/ StartRepair(w, j)
    \/ \E j \in JobIds : ExpireOrphan(j) \/ ExpireStalled(j)

SweepStep == SweepReads \/ SweepOffers

Next ==
    \/ \E w \in Handlers : HandlerStep(w) \/ Crash(w) \/ DatabaseThrows(w)
    \/ QueueStep
    \/ SweepStep
    \/ \E t \in Tickets : Arrive(t) \/ AgentFiles(t) \/ Ages(t)
    \/ SwitchKey

Spec == Init /\ [][Next]_vars

(* A running process goes on, a worker polls, pg-boss expires the job of a *)
(* dead handler, the cron sweeps, and a young ticket passes the sweep's    *)
(* floor.  The model call may fail the same way every time.                *)
Fairness ==
    /\ \A w \in Handlers : WF_vars(HandlerStep(w))
    /\ \A j \in JobIds : /\ WF_vars(\E w \in Handlers : Start(w, j))
                         /\ WF_vars(\E w \in Handlers : StartRepair(w, j))
                         /\ WF_vars(ExpireOrphan(j))
    /\ WF_vars(SweepReads) /\ WF_vars(SweepOffers)
    /\ \A t \in Tickets : WF_vars(age[t] = "young" /\ Ages(t))

FairSpec == Spec /\ Fairness

-----------------------------------------------------------------------------
(* Properties.                                                             *)

(* A category an agent chose while the model was thinking is not written   *)
(* over: the only step that changes a filled category is an agent's.       *)
AgentsFilingStands ==
    [][\A t \in Tickets :
          rows[t].category # "none" /\ rows'[t].category # rows[t].category =>
             spent'.edits = spent.edits + 1]_vars

(* The machine's history is what the machine wrote: one filing, and one    *)
(* more for each time an agent cleared the category under a delivery that  *)
(* was waiting for the model.  A ticket nobody cleared has its one entry   *)
(* say what its column says.                                               *)
HistoryIsTheFiling ==
    \A t \in Tickets :
       /\ Len(trail[t]) <= 1 + clears[t]
       /\ clears[t] = 0 =>
             \A i \in DOMAIN trail[t] : trail[t][i] = rows[t].classifierCategory
       /\ rows[t].offered => rows[t].classifierCategory # "none"

(* A ticket gets its verdict: filed, given up, or filed by an agent; the   *)
(* exceptions are a ticket nobody has a key for and one too old to pay for.*)
GetsVerdict ==
    \A t \in Tickets :
       age[t] = "young" ~> \/ rows[t].classified
                           \/ rows[t].category # "none"
                           \/ age[t] = "old"
                           \/ ~configured

(* A ticket this job filed is offered to the auto-reply, or about to be,   *)
(* although the filing and the offer are two transactions with a write     *)
(* between them that may fail: only a handler that is killed, or thrown    *)
(* out by another call, between the two loses the offer.                   *)
FiledIsOffered ==
    \A t \in Tickets :
       rows[t].classifierCategory # "none" =>
          \/ rows[t].offered
          \/ t \in dropped
          \/ \E w \in Handlers : /\ work[w].ticket = t
                                 /\ work[w].step \in {"log", "offer"}

(* What every reachable state satisfies, by parts: the machine's history   *)
(* is its filing, and a filed ticket is offered.                           *)
ClassifierInvariant == TypeOK /\ HistoryIsTheFiling /\ FiledIsOffered
=============================================================================
