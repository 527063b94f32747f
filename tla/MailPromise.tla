---------------------------- MODULE MailPromise ----------------------------
(***************************************************************************)
(* What the outbox promises of one email, without jobs or workers.  Mail a *)
(* person is owed is promised until it is kept or given up, is only called *)
(* kept once a provider has taken it, comes back only from given up, and   *)
(* is thrown away only when nobody is working on it -- unless the ticket   *)
(* it belongs to goes, which takes it along.  Demo mail is withheld from   *)
(* the start and no provider ever sees it.                                 *)
(***************************************************************************)
CONSTANTS Emails, DemoEmails, TicketEmails

VARIABLES
    standing,  \* what the desk says of each email
    handed     \* the emails a provider has taken, at least once

absVars == <<standing, handed>>

Init ==
    /\ standing = [e \in Emails |-> "unwritten"]
    /\ handed = {}

Move(e, from, to) ==
    /\ standing[e] \in from
    /\ standing' = [standing EXCEPT ![e] = to]
    /\ UNCHANGED handed

Promise(e)  == e \notin DemoEmails /\ Move(e, {"unwritten"}, "promised")
Withhold(e) == e \in DemoEmails /\ Move(e, {"unwritten"}, "withheld")
Keep(e)     == e \in handed /\ Move(e, {"promised"}, "kept")
GiveUp(e)   == Move(e, {"promised"}, "givenUp")
Revive(e)   == Move(e, {"givenUp"}, "promised")
Drop(e)     == e \in TicketEmails
               /\ Move(e, {"promised", "kept", "givenUp", "withheld"}, "gone")

(* The sweep throws away several at once.                                  *)
Discard ==
    \E S \in SUBSET {e \in Emails : standing[e] \in {"kept", "givenUp", "withheld"}} :
       /\ standing' = [e \in Emails |-> IF e \in S THEN "gone" ELSE standing[e]]
       /\ UNCHANGED handed

(* Also after it was given up or its row went: a call that was on its way. *)
HandOver(e) ==
    /\ e \notin DemoEmails
    /\ standing[e] # "unwritten"
    /\ handed' = handed \cup {e}
    /\ UNCHANGED standing

Next ==
    \/ \E e \in Emails :
          \/ Promise(e) \/ Withhold(e) \/ HandOver(e) \/ Keep(e) \/ GiveUp(e)
          \/ Revive(e) \/ Drop(e)
    \/ Discard

Spec == Init /\ [][Next]_absVars
=============================================================================
