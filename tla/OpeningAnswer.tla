--------------------------- MODULE OpeningAnswer ---------------------------
(***************************************************************************)
(* What the auto-reply promises, without queues, claims or handlers: the   *)
(* machine reaches at most one verdict on a ticket and never takes it      *)
(* back, and the verdict "answered" comes with one reply, sent while the   *)
(* thread is a single unanswered message in a category a machine may       *)
(* answer.  Everybody else writes, replies and files at any time.          *)
(***************************************************************************)
EXTENDS Naturals, ReplyGates

CONSTANTS Tickets, Categories

VARIABLES
    thread,    \* messages of each ticket, counted by who wrote them
    category,  \* what each ticket is filed under, or "none"
    verdict    \* what the machine decided: "none", "answered", "declined"

absVars == <<thread, category, verdict>>

IsOpening(t) ==
    /\ thread[t].inbound = 1
    /\ thread[t].byAgent = 0
    /\ thread[t].byAssistant = 0

Init ==
    /\ thread = [t \in Tickets |->
                   [inbound |-> 1, byAgent |-> 0, byAssistant |-> 0]]
    /\ category = [t \in Tickets |-> "none"]
    /\ verdict = [t \in Tickets |-> "none"]

CustomerWrites(t) ==
    /\ thread' = [thread EXCEPT ![t].inbound = @ + 1]
    /\ UNCHANGED <<category, verdict>>

AgentAnswers(t) ==
    /\ thread' = [thread EXCEPT ![t].byAgent = @ + 1]
    /\ UNCHANGED <<category, verdict>>

Refile(t, c) ==
    /\ category' = [category EXCEPT ![t] = c]
    /\ UNCHANGED <<thread, verdict>>

Answer(t) ==
    /\ verdict[t] = "none"
    /\ IsOpening(t)
    /\ category[t] \in ANSWERABLE_CATEGORIES
    /\ thread' = [thread EXCEPT ![t].byAssistant = 1]
    /\ verdict' = [verdict EXCEPT ![t] = "answered"]
    /\ UNCHANGED category

Decline(t) ==
    /\ verdict[t] = "none"
    /\ verdict' = [verdict EXCEPT ![t] = "declined"]
    /\ UNCHANGED <<thread, category>>

Next ==
    \E t \in Tickets :
       \/ CustomerWrites(t) \/ AgentAnswers(t)
       \/ \E c \in Categories \cup {"none"} : Refile(t, c)
       \/ Answer(t) \/ Decline(t)

Spec == Init /\ [][Next]_absVars
=============================================================================
