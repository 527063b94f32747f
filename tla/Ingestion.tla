----------------------------- MODULE Ingestion -----------------------------
(***************************************************************************)
(* Receiving email: ingestInboundEmail and findParentTicketId of           *)
(* apps/api/src/ingest.ts behind the webhook.  The mail provider is        *)
(* external: it posts an email until a call is answered with success, in  *)
(* any order, and again while an earlier call is still running.            *)
(*                                                                         *)
(* A call reads twice and then writes in one transaction; the unique index *)
(* on Message.messageId is what decides between two calls that both read   *)
(* before either wrote.  What a reply does to the ticket row and the       *)
(* reopen that follows the commit are in AutoReply; the classification job *)
(* that commits with a new ticket is Arrive of Classifier.                 *)
(***************************************************************************)
EXTENDS Naturals, Sequences, SequencesExt

CONSTANTS
    Mails,       \* emails, by Message-ID
    DeskMails,   \* those the desk sent, stored as they are written
    InReplyTo,   \* the email each one answers, or "none"
    References,  \* the thread each one quotes, oldest first
    Calls,       \* webhook requests in progress at the same time (a bound)
    MaxCrashes   \* bound: requests killed midway

ASSUME IngestionAssumption ==
    /\ "none" \notin Mails
    /\ DeskMails \subseteq Mails
    /\ InReplyTo \in [Mails -> Mails \cup {"none"}]
    /\ References \in [Mails -> Seq(Mails)]

VARIABLES
    ticketOf,  \* Message.ticketId, by messageId; 0 while there is no row
    tickets,   \* tickets created so far; they are numbered from 1
    calls,     \* what each webhook request is doing
    received,  \* emails the provider has had a success for
    known,     \* the messages stored when the call that stored this one began
    crashes    \* how much of MaxCrashes has been used

vars == <<ticketOf, tickets, calls, received, known, crashes>>

Call == [step   : {"idle", "dedupe", "parent", "append", "create", "answer"},
         mail   : Mails \cup {"none"},
         parent : Nat,
         known  : SUBSET Mails]

NoCall == [step |-> "idle", mail |-> "none", parent |-> 0, known |-> {}]

Stored == {m \in Mails : ticketOf[m] # 0}

TypeOK ==
    /\ tickets \in Nat
    /\ ticketOf \in [Mails -> 0..tickets]
    /\ calls \in [Calls -> Call]
    /\ \A c \in Calls :
          calls[c].step # "idle" => calls[c].mail \in Mails \ DeskMails
    /\ received \in SUBSET Mails
    /\ known \in [Mails -> SUBSET Mails]
    /\ crashes \in Nat

Init ==
    /\ ticketOf = [m \in Mails |-> 0]
    /\ tickets = 0
    /\ calls = [c \in Calls |-> NoCall]
    /\ received = {}
    /\ known = [m \in Mails |-> {}]
    /\ crashes = 0

-----------------------------------------------------------------------------
(* The direct reply first, then the references newest first.               *)
ParentCandidates(m) ==
    (IF InReplyTo[m] = "none" THEN <<>> ELSE <<InReplyTo[m]>>)
        \o Reverse(References[m])

(* The position of the first candidate that is a stored message, if any.   *)
FirstStored(candidates) ==
    {i \in DOMAIN candidates :
        /\ ticketOf[candidates[i]] # 0
        /\ \A k \in 1..(i - 1) : ticketOf[candidates[k]] = 0}

Goto(c, step) == calls' = [calls EXCEPT ![c].step = step]

Hangup(c) == calls' = [calls EXCEPT ![c] = NoCall]

(* The provider posts; a customer answers only mail they have had.         *)
Post(c, m) ==
    /\ calls[c].step = "idle"
    /\ m \notin DeskMails \cup received
    /\ \A d \in DeskMails :
          InReplyTo[m] = d \/ Contains(References[m], d) => ticketOf[d] # 0
    /\ calls' = [calls EXCEPT ![c] = [step |-> "dedupe", mail |-> m,
                                      parent |-> 0, known |-> Stored]]
    /\ UNCHANGED <<ticketOf, tickets, received, known, crashes>>

(* Mutant: an email that is there already is refused.                      *)
DedupeRefuses(c) ==
    /\ calls[c].step = "dedupe"
    /\ IF ticketOf[calls[c].mail] # 0 THEN Hangup(c) ELSE Goto(c, "parent")
    /\ UNCHANGED <<ticketOf, tickets, received, known, crashes>>

Dedupe(c) ==
    /\ calls[c].step = "dedupe"
    /\ Goto(c, IF ticketOf[calls[c].mail] # 0 THEN "answer" ELSE "parent")
    /\ UNCHANGED <<ticketOf, tickets, received, known, crashes>>

(* Mutant: the references are walked in the order they are listed.         *)
FindOldestFirst(c) ==
    LET m == calls[c].mail
        listed == SelectSeq(<<InReplyTo[m]>> \o References[m],
                            LAMBDA p : p # "none") IN
    /\ calls[c].step = "parent"
    /\ \/ FirstStored(listed) = {} /\ Goto(c, "create")
       \/ \E i \in FirstStored(listed) :
             calls' = [calls EXCEPT ![c].step = "append",
                                    ![c].parent = ticketOf[listed[i]]]
    /\ UNCHANGED <<ticketOf, tickets, received, known, crashes>>

(* findParentTicketId.                                                     *)
FindParent(c) ==
    LET candidates == ParentCandidates(calls[c].mail) IN
    /\ calls[c].step = "parent"
    /\ \/ FirstStored(candidates) = {} /\ Goto(c, "create")
       \/ \E i \in FirstStored(candidates) :
             calls' = [calls EXCEPT ![c].step = "append",
                                    ![c].parent = ticketOf[candidates[i]]]
    /\ UNCHANGED <<ticketOf, tickets, received, known, crashes>>

Store(c, ticket) ==
    LET m == calls[c].mail IN
    /\ ticketOf' = [ticketOf EXCEPT ![m] = ticket]
    /\ known' = [known EXCEPT ![m] = calls[c].known]
    /\ Goto(c, "answer")

(* The insert violates the unique index: the transaction rolls back and    *)
(* the provider gets a 500, so it will post again.                         *)
Refused(c) == Hangup(c) /\ UNCHANGED <<ticketOf, tickets, known>>

(* Mutant: no unique index to refuse the second of two deliveries.         *)
CreateAnyway(c) ==
    /\ calls[c].step = "create"
    /\ Store(c, tickets + 1)
    /\ tickets' = tickets + 1
    /\ UNCHANGED <<received, crashes>>

AppendMessage(c) ==
    /\ calls[c].step = "append"
    /\ \/ /\ ticketOf[calls[c].mail] = 0
          /\ Store(c, calls[c].parent)
          /\ UNCHANGED tickets
       \/ ticketOf[calls[c].mail] # 0 /\ Refused(c)
    /\ UNCHANGED <<received, crashes>>

Create(c) ==
    /\ calls[c].step = "create"
    /\ \/ /\ ticketOf[calls[c].mail] = 0
          /\ Store(c, tickets + 1)
          /\ tickets' = tickets + 1
       \/ ticketOf[calls[c].mail] # 0 /\ Refused(c)
    /\ UNCHANGED <<received, crashes>>

Answer(c) ==
    /\ calls[c].step = "answer"
    /\ received' = received \cup {calls[c].mail}
    /\ Hangup(c)
    /\ UNCHANGED <<ticketOf, tickets, known, crashes>>

(* The process dies, a database call throws, or the answer is lost.        *)
Crash(c) ==
    /\ calls[c].step # "idle"
    /\ crashes < MaxCrashes
    /\ crashes' = crashes + 1
    /\ Hangup(c)
    /\ UNCHANGED <<ticketOf, tickets, received, known>>

(* sendReply stores the desk's own message on the ticket it answers.       *)
DeskReplies(m) ==
    /\ m \in DeskMails
    /\ ticketOf[m] = 0
    /\ InReplyTo[m] # "none"
    /\ ticketOf[InReplyTo[m]] # 0
    /\ ticketOf' = [ticketOf EXCEPT ![m] = ticketOf[InReplyTo[m]]]
    /\ known' = [known EXCEPT ![m] = Stored]
    /\ UNCHANGED <<tickets, calls, received, crashes>>

-----------------------------------------------------------------------------
CallStep(c) ==
    \/ Dedupe(c) \/ FindParent(c) \/ AppendMessage(c) \/ Create(c) \/ Answer(c)

Next ==
    \/ \E c \in Calls : CallStep(c) \/ Crash(c)
    \/ \E c \in Calls, m \in Mails : Post(c, m)
    \/ \E m \in Mails : DeskReplies(m)

Spec == Init /\ [][Next]_vars

(* A request goes on, and a provider retries until it succeeds.  An      *)
(* email can be kept waiting by others that take every slot, but only      *)
(* until those have been answered.                                         *)
Fairness ==
    /\ \A c \in Calls : WF_vars(CallStep(c))
    /\ \A m \in Mails : SF_vars(\E c \in Calls : Post(c, m))

FairSpec == Spec /\ Fairness

-----------------------------------------------------------------------------
(* Properties.                                                             *)

(* Calls implement the correspondence: one email, one message, one ticket, *)
(* for good; success is answered only for an email that is stored.         *)
Names(m) == ToSet(ParentCandidates(m))

Letters == INSTANCE Correspondence

KeepsCorrespondence == Letters!Spec

(* An email lands on the ticket of the best relative there was when its    *)
(* delivery began, or of a better one stored since: also when the relatives*)
(* are on different tickets because they arrived out of order.             *)
JoinsBestRelative ==
    \A m \in Stored :
       \A i \in DOMAIN ParentCandidates(m) :
          ParentCandidates(m)[i] \in known[m] =>
             \E k \in 1..i : ticketOf[ParentCandidates(m)[k]] = ticketOf[m]

(* An email a provider has begun to post ends up on a ticket, and the      *)
(* provider is told.                                                       *)
PostedIsReceived ==
    \A m \in Mails :
       (\E c \in Calls : calls[c].mail = m) ~> m \in received /\ m \in Stored
=============================================================================
