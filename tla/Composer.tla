------------------------------ MODULE Composer ------------------------------
(***************************************************************************)
(* The reply box of a ticket's page, apps/web/src/pages/                   *)
(* TicketReplyComposer.tsx, with the two routes it posts to (a message to  *)
(* the thread, a draft to the polisher), the status change behind "Send &  *)
(* resolve" (lib/use-ticket-field.ts) and the page's cached ticket, which  *)
(* answers, events and reads write to in whatever order they arrive.       *)
(*                                                                         *)
(* One tab on one ticket.  Its event stream is taken to be open: what a    *)
(* lost stream costs is the module LiveEvents.  A press is taken to come   *)
(* after the render that locks the buttons.  Texts are numbered as they    *)
(* come to be, 0 being the empty box; a text's words do not matter.        *)
(***************************************************************************)
EXTENDS Naturals, Sequences, FiniteSets, Functions

CONSTANTS
    MaxTexts,     \* bound: texts typed and texts polished
    MaxCalls,     \* bound: presses of a button that start a call
    MaxFailures,  \* bound: refused calls and lost answers
    MaxOthers,    \* bound: messages and status changes by other people
    MaxRefused,   \* bound: "Send & resolve" pressed on a draft over the cap
    MaxLeaves     \* bound: times the agent leaves the page

ASSUME ComposerAssumption == MaxTexts \in Nat

Status == {"Open", "Resolved"}

VARIABLES
    thread,    \* Message rows: who wrote, which text, compared with which
    status,    \* the ticket's status column
    events,    \* events published and not delivered to the tab yet
    composer,  \* the component's local state
    calls,     \* requests under way
    screen,    \* the cached detail query: messages by row, status, mark
    read,      \* a GET of the ticket under way
    origin,    \* ghost: the text each text was polished from, 0 if typed
    spent      \* how much of each bound has been used

vars == <<thread, status, events, composer, calls, screen, read, origin, spent>>
serverVars == <<thread, status, events>>
pageVars == <<screen, read>>

Text == 0..MaxTexts

Message == [by : {"agent", "customer"}, text : Text, polished : Text]

Box == [mounted : BOOLEAN, mount : Nat, text : Text, long : BOOLEAN,
        prePolish : Text, polishedDraft : Text, resolveOnSend : BOOLEAN]

EMPTY_REPLY(n) ==
    [mounted |-> TRUE, mount |-> n, text |-> 0, long |-> FALSE,
     prePolish |-> 0, polishedDraft |-> 0, resolveOnSend |-> FALSE]

(* A request, and its answer once it has one.  `asked` is a ghost: was the *)
(* press "Send & resolve"?                                                 *)
Call == [kind : {"polish", "send", "resolve", "pick"}, mount : Nat, text : Text,
         polished : Text, status : Status \cup {"none"}, asked : BOOLEAN,
         intent : BOOLEAN, at : {"out", "done", "failed"}, answer : Nat]

NewCall(kind) ==
    [kind |-> kind, mount |-> composer.mount, text |-> 0, polished |-> 0,
     status |-> "none", asked |-> FALSE, intent |-> FALSE, at |-> "out", answer |-> 0]

Ticket == [messages : Seq(Nat), status : Status]
NoRead == [at |-> "none", got |-> [messages |-> <<>>, status |-> "Open"]]

TypeOK ==
    /\ thread \in Seq(Message) /\ status \in Status /\ events \in Nat
    /\ composer \in Box
    /\ calls \subseteq Call
    /\ screen \in [messages : Seq(Nat), status : Status, marked : BOOLEAN]
    /\ read \in [at : {"none", "asked", "read"}, got : Ticket]
    /\ origin \in Seq(Text) /\ Len(origin) <= MaxTexts
    /\ spent \in [calls : Nat, failures : Nat, refused : Nat, others : Nat, leaves : Nat]

(* The page is open on a ticket with the customer's one message.           *)
Init ==
    /\ thread = <<[by |-> "customer", text |-> 0, polished |-> 0]>>
    /\ status = "Open"
    /\ events = 0
    /\ composer = EMPTY_REPLY(1)
    /\ calls = {}
    /\ screen = [messages |-> <<1>>, status |-> "Open", marked |-> FALSE]
    /\ read = NoRead
    /\ origin = <<>>
    /\ spent = [calls |-> 0, failures |-> 0, refused |-> 0, others |-> 0, leaves |-> 0]

-----------------------------------------------------------------------------
Spend(what, most) ==
    /\ spent[what] < most
    /\ spent' = [spent EXCEPT ![what] = @ + 1]

(* A press waits until none of the composer's own calls is pending; the    *)
(* status select beside it is another control, with a mutation of its own. *)
busy == \E c \in calls : c.mount = composer.mount /\ c.kind # "pick"
Free == composer.mounted /\ ~busy

Own(c) == composer.mounted /\ c.mount = composer.mount

(* The settled call leaves; `next` are the calls its handler starts.       *)
Settle(c, next) == calls' = (calls \ {c}) \cup next

Shown == [messages |-> [i \in DOMAIN thread |-> i], status |-> status]
Ask == read' = [NoRead EXCEPT !.at = "asked"]

-----------------------------------------------------------------------------
(* The agent at the box.                                                   *)

Types ==
    /\ Free
    /\ Len(origin) < MaxTexts
    /\ origin' = Append(origin, 0)
    /\ \E long \in BOOLEAN :
          composer' = [composer EXCEPT !.text = Len(origin'), !.long = long]
    /\ UNCHANGED <<serverVars, calls, pageVars, spent>>

runPolish ==
    /\ Free
    /\ composer.text # 0 /\ ~composer.long
    /\ Spend("calls", MaxCalls)
    /\ calls' = calls \cup {[NewCall("polish") EXCEPT !.text = composer.text]}
    /\ UNCHANGED <<serverVars, composer, pageVars, origin>>

(* Mutant: Undo puts the text back and keeps the polished one in mind.     *)
undoBoxOnly ==
    /\ Free
    /\ composer.prePolish # 0
    /\ composer' = [composer EXCEPT !.text = composer.prePolish, !.long = FALSE,
                                    !.prePolish = 0]
    /\ UNCHANGED <<serverVars, calls, pageVars, origin, spent>>

undoPolish ==
    /\ Free
    /\ composer.prePolish # 0
    /\ composer' = [composer EXCEPT !.text = composer.prePolish, !.long = FALSE,
                                    !.prePolish = 0, !.polishedDraft = 0]
    /\ UNCHANGED <<serverVars, calls, pageVars, origin, spent>>

(* `intent` is resolveOnSend as the send will find it.                     *)
submit(intent, asked) ==
    /\ Spend("calls", MaxCalls)
    /\ calls' = calls \cup {[NewCall("send") EXCEPT
                                !.text = composer.text,
                                !.polished = composer.polishedDraft,
                                !.intent = intent, !.asked = asked]}

(* The form's validation refuses a long draft and calls nothing.           *)
PressSend ==
    /\ Free
    /\ composer.text # 0 /\ ~composer.long
    /\ submit(composer.resolveOnSend, FALSE)
    /\ UNCHANGED <<serverVars, composer, pageVars, origin>>

(* The intent is set before the form is submitted, so a draft the form     *)
(* refuses leaves it set.                                                  *)
sendAndResolve ==
    /\ Free
    /\ composer.text # 0
    /\ composer' = [composer EXCEPT !.resolveOnSend = TRUE]
    /\ IF composer.long THEN Spend("refused", MaxRefused) /\ UNCHANGED calls
       ELSE submit(TRUE, TRUE)
    /\ UNCHANGED <<serverVars, pageVars, origin>>

(* The status select: no composer locks it, and its own call does.         *)
PickStatus ==
    /\ composer.mounted
    /\ ~\E c \in calls : c.mount = composer.mount /\ c.kind = "pick"
    /\ Spend("calls", MaxCalls)
    /\ \E s \in Status \ {screen.status} :
          calls' = calls \cup {[NewCall("pick") EXCEPT !.status = s]}
    /\ UNCHANGED <<serverVars, composer, pageVars, origin>>

-----------------------------------------------------------------------------
(* The server.                                                             *)

Answered(c, answer) ==
    calls' = (calls \ {c}) \cup {[c EXCEPT !.at = "done", !.answer = answer]}

(* POST /:id/messages: one transaction, then the event.                    *)
TakeReply(c) ==
    /\ c.kind = "send" /\ c.at = "out"
    /\ thread' = Append(thread, [by |-> "agent", text |-> c.text, polished |-> c.polished])
    /\ events' = events + 1
    /\ Answered(c, Len(thread'))
    /\ UNCHANGED <<status, composer, pageVars, origin, spent>>

(* POST /polish-reply: the answer is a new text.                           *)
TakeDraft(c) ==
    /\ c.kind = "polish" /\ c.at = "out"
    /\ Len(origin) < MaxTexts
    /\ origin' = Append(origin, c.text)
    /\ Answered(c, Len(origin'))
    /\ UNCHANGED <<serverVars, composer, pageVars, spent>>

(* PATCH /:id/status: an event only if the column moved.                   *)
TakeStatus(c) ==
    /\ c.kind \in {"resolve", "pick"} /\ c.at = "out"
    /\ status' = c.status
    /\ events' = IF status' # status THEN events + 1 ELSE events
    /\ Answered(c, 0)
    /\ UNCHANGED <<thread, composer, pageVars, origin, spent>>

(* Refused before anything was written, or the answer lost afterwards.     *)
Fail(c) ==
    /\ c.at \in {"out", "done"}
    /\ Spend("failures", MaxFailures)
    /\ calls' = (calls \ {c}) \cup {[c EXCEPT !.at = "failed", !.answer = 0]}
    /\ UNCHANGED <<serverVars, composer, pageVars, origin>>

(* A customer writes, or a colleague moves the ticket.                     *)
OthersWrite ==
    /\ Spend("others", MaxOthers)
    /\ \/ /\ thread' = Append(thread, [by |-> "customer", text |-> 0, polished |-> 0])
          /\ UNCHANGED status
       \/ /\ status' \in Status \ {status}
          /\ UNCHANGED thread
    /\ events' = events + 1
    /\ UNCHANGED <<composer, calls, pageVars, origin>>

-----------------------------------------------------------------------------
(* Answers at the page.  A handler runs whether or not the component that  *)
(* made the call is still mounted; its local state then does not matter.   *)

appendMessage(n) ==
    IF n \in Range(screen.messages) THEN screen.messages ELSE Append(screen.messages, n)

Sent(c) ==
    LET intent == IF Own(c) THEN composer.resolveOnSend ELSE c.intent IN
    /\ c.kind = "send" /\ c.at = "done"
    /\ screen' = [screen EXCEPT !.messages = appendMessage(c.answer), !.marked = TRUE]
    /\ composer' = IF Own(c) THEN EMPTY_REPLY(c.mount) ELSE composer
    /\ Settle(c, IF intent
                 THEN {[NewCall("resolve") EXCEPT !.mount = c.mount, !.status = "Resolved",
                                                  !.asked = c.asked]}
                 ELSE {})
    /\ UNCHANGED <<serverVars, read, origin, spent>>

(* Mutant: the intent outlives the send that failed.                       *)
NotSentButAsked(c) ==
    /\ c.kind = "send" /\ c.at = "failed"
    /\ Settle(c, {})
    /\ UNCHANGED <<serverVars, composer, pageVars, origin, spent>>

(* Mutant: the form is reset however the send ended.                       *)
NotSentResets(c) ==
    /\ c.kind = "send" /\ c.at = "failed"
    /\ composer' = IF Own(c) THEN EMPTY_REPLY(c.mount) ELSE composer
    /\ Settle(c, {})
    /\ UNCHANGED <<serverVars, pageVars, origin, spent>>

NotSent(c) ==
    /\ c.kind = "send" /\ c.at = "failed"
    /\ composer' = IF Own(c) THEN [composer EXCEPT !.resolveOnSend = FALSE] ELSE composer
    /\ Settle(c, {})
    /\ UNCHANGED <<serverVars, pageVars, origin, spent>>

Polished(c) ==
    /\ c.kind = "polish" /\ c.at # "out"
    /\ composer' = IF c.at = "done" /\ Own(c)
                   THEN [composer EXCEPT !.text = c.answer, !.long = FALSE,
                                         !.prePolish = c.text, !.polishedDraft = c.answer]
                   ELSE composer
    /\ Settle(c, {})
    /\ UNCHANGED <<serverVars, pageVars, origin, spent>>

(* Mutant: the answer is written to the cache and taken for the truth.     *)
FieldIsTruth(c) ==
    /\ c.kind \in {"resolve", "pick"} /\ c.at # "out"
    /\ screen' = IF c.at = "done" THEN [screen EXCEPT !.status = c.status] ELSE screen
    /\ Settle(c, {})
    /\ UNCHANGED <<serverVars, composer, read, origin, spent>>

(* useTicketField: the answer goes over the cached ticket, then the mark.  *)
FieldChanged(c) ==
    /\ c.kind \in {"resolve", "pick"} /\ c.at # "out"
    /\ screen' = IF c.at = "done"
                 THEN [screen EXCEPT !.status = c.status, !.marked = TRUE] ELSE screen
    /\ Settle(c, {})
    /\ UNCHANGED <<serverVars, composer, read, origin, spent>>

-----------------------------------------------------------------------------
(* The cached ticket.                                                      *)

(* An event marks the ticket; an open page reads it anew, a read under way *)
(* being given up.                                                         *)
HearEvent ==
    /\ events > 0
    /\ events' = events - 1
    /\ screen' = [screen EXCEPT !.marked = TRUE]
    /\ IF composer.mounted THEN Ask ELSE UNCHANGED read
    /\ UNCHANGED <<thread, status, composer, calls, origin, spent>>

ServerReads ==
    /\ read.at = "asked"
    /\ read' = [at |-> "read", got |-> Shown]
    /\ UNCHANGED <<serverVars, composer, calls, screen, origin, spent>>

Land ==
    /\ read.at = "read"
    /\ screen' = [messages |-> read.got.messages, status |-> read.got.status,
                  marked |-> FALSE]
    /\ read' = NoRead
    /\ UNCHANGED <<serverVars, composer, calls, origin, spent>>

(* The window gets the focus with a marked ticket on it.                   *)
Focus ==
    /\ composer.mounted /\ screen.marked /\ read.at = "none"
    /\ Ask
    /\ UNCHANGED <<serverVars, composer, calls, screen, origin, spent>>

(* The page is keyed by its path: leaving unmounts the composer, and the   *)
(* last observer of the ticket takes its read along.                       *)
Leave ==
    /\ composer.mounted
    /\ Spend("leaves", MaxLeaves)
    /\ composer' = [EMPTY_REPLY(composer.mount + 1) EXCEPT !.mounted = FALSE]
    /\ read' = NoRead
    /\ UNCHANGED <<serverVars, calls, screen, origin>>

Return ==
    /\ ~composer.mounted
    /\ composer' = [composer EXCEPT !.mounted = TRUE]
    /\ IF screen.marked THEN Ask ELSE UNCHANGED read
    /\ UNCHANGED <<serverVars, calls, screen, origin, spent>>

-----------------------------------------------------------------------------
Press ==
    \/ Types \/ runPolish \/ undoPolish \/ PressSend \/ sendAndResolve \/ PickStatus

CallStep(c) ==
    \/ TakeReply(c) \/ TakeDraft(c) \/ TakeStatus(c) \/ Fail(c)
    \/ Sent(c) \/ NotSent(c) \/ Polished(c) \/ FieldChanged(c)

PageStep == HearEvent \/ ServerReads \/ Land \/ Focus \/ Leave \/ Return

Next ==
    \/ Press
    \/ \E c \in calls : CallStep(c)
    \/ PageStep
    \/ OthersWrite

Spec == Init /\ [][Next]_vars

-----------------------------------------------------------------------------
(* Properties.                                                             *)

(* Only "Send & resolve" resolves.  The intent is local state between the  *)
(* press and the answer, and a send that fails or a page that is left must *)
(* not leave it behind for the next plain send.  A draft over the cap does:*)
(* the form refuses it after the intent is set, and nothing takes it back. *)
ResolveIsAsked ==
    \A c \in calls : c.kind = "resolve" => c.asked \/ spent.refused > 0

(* A text is on the thread, and with the customer, once for every time the *)
(* agent was told that it could not be sent, and once more.                *)
CopiesNeedFailure ==
    \A n \in 1..MaxTexts :
       Cardinality({i \in DOMAIN thread : thread[i].text = n}) <= 1 + spent.failures

(* What a reply is compared with to see how far the agent moved from the   *)
(* polished text: never a polish that was undone (the reply would be older *)
(* than it), nor one another reply was sent from.  And while there is one, *)
(* Undo gives back exactly the text it was made from.                      *)
PolishIsTraceable ==
    /\ \A i \in DOMAIN thread : thread[i].polished <= thread[i].text
    /\ \A i, j \in DOMAIN thread :
          /\ i # j
          /\ thread[i].polished # 0
          /\ thread[i].polished = thread[j].polished
          => spent.failures > 0
    /\ composer.polishedDraft # 0 =>
          composer.prePolish = origin[composer.polishedDraft]

(* Each control has one request under way at most: the composer's three    *)
(* kinds lock each other out across a send that becomes a resolve, and a   *)
(* page that was left takes its lock along.                                *)
OneCallEach ==
    \A c, d \in calls :
       c.mount = d.mount /\ (c.kind = "pick" <=> d.kind = "pick") => c = d

(* No bubble is drawn twice, although a reply reaches the cache both from  *)
(* its own answer and from any read that was quicker.                      *)
NoBubbleTwice == IsInjective(screen.messages)

(* A ticket with no mark on it, no event on its way and no read under way  *)
(* is shown as it is.  Answers that arrive late write over newer reads; it *)
(* is the mark they leave that has the page read again.                    *)
UnmarkedScreenIsTrue ==
    /\ ~screen.marked
    /\ events = 0
    /\ read.at = "none"
    => [messages |-> screen.messages, status |-> screen.status] = Shown

(* A draft is the only copy of what was typed.  The box gives it up for    *)
(* another text, for the thread that has it, or when the page is left; a   *)
(* polish keeps it for Undo.                                               *)
DraftIsKept ==
    [][composer'.text # composer.text /\ composer.text # 0 =>
          \/ Len(origin') > Len(origin)
          \/ ~composer'.mounted
          \/ composer'.prePolish = composer.text
          \/ composer.prePolish # 0 /\ composer'.text = composer.prePolish
          \/ \E i \in DOMAIN thread : thread[i].text = composer.text]_vars

(* What every reachable state satisfies, by parts: one request a control,  *)
(* copies need failures, a polish is traced, and no bubble is drawn twice. *)
ComposerInvariant ==
    /\ TypeOK /\ OneCallEach /\ CopiesNeedFailure
    /\ PolishIsTraceable /\ NoBubbleTwice
=============================================================================
