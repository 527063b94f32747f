--------------------------- MODULE Correspondence ---------------------------
(***************************************************************************)
(* What receiving mail promises: an email becomes one message on one       *)
(* ticket and stays there, it either opens a ticket or joins the ticket of *)
(* an email it names, and the sender's provider is told it was received    *)
(* only once it was.                                                       *)
(***************************************************************************)
EXTENDS Naturals

CONSTANTS Mails, Names(_)   \* Names(m): the emails m's headers mention

VARIABLES
    ticketOf,  \* the ticket each email is on; 0 while it is on none
    tickets,   \* how many tickets there are
    received   \* the emails a provider has been told to stop sending

absVars == <<ticketOf, tickets, received>>

Init ==
    /\ ticketOf = [m \in Mails |-> 0]
    /\ tickets = 0
    /\ received = {}

Open(m) ==
    /\ ticketOf[m] = 0
    /\ tickets' = tickets + 1
    /\ ticketOf' = [ticketOf EXCEPT ![m] = tickets + 1]
    /\ UNCHANGED received

Join(m) ==
    /\ ticketOf[m] = 0
    /\ \E p \in Names(m) :
          /\ ticketOf[p] # 0
          /\ ticketOf' = [ticketOf EXCEPT ![m] = ticketOf[p]]
    /\ UNCHANGED <<tickets, received>>

Acknowledge(m) ==
    /\ ticketOf[m] # 0
    /\ received' = received \cup {m}
    /\ UNCHANGED <<ticketOf, tickets>>

Next == \E m \in Mails : Open(m) \/ Join(m) \/ Acknowledge(m)

Spec == Init /\ [][Next]_absVars
=============================================================================
