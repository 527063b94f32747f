-------------------------------- MODULE Desk --------------------------------
(***************************************************************************)
(* The tickets as agents work them, apps/api/src/routes/tickets.ts, with   *)
(* the ticket's trail (ticket-activity.ts), composed with the roster:      *)
(* whom a ticket may be given to, and what becomes of one whose owner is   *)
(* deleted.                                                                *)
(*                                                                         *)
(* A PATCH reads the ticket before the transaction that writes it, and the *)
(* trail's entries are the difference between that reading and the row.    *)
(* "Opened by the assignee" is a conditional write behind a read.          *)
(***************************************************************************)
EXTENDS Roster

CONSTANTS
    Tickets,
    TicketRequests,  \* slots for the requests to the tickets' routes
    Labels           \* bound: the statuses and categories asked for

VARIABLES
    ticket,     \* each ticket's status, category, assignee and whether it was seen
    trail,      \* TicketActivity, the entries about these three fields
    work,       \* the agents' requests under way
    inheritor,  \* whom the auto-reply is about to hand a ticket back to
    orphaned,   \* the tickets a deletion has listed
    base,       \* ghost: where the entries pruned by now left each ticket
    muted,      \* ghost: fields of tickets that moved without an entry, or of
                \* which an entry told a move that did not happen, and of
                \* which none has been written since
    overtaken,  \* ghost: tickets given to one deleted since the check
    looked,     \* ghost: tickets their assignee has opened since being given them
    unnoticed   \* ghost: tickets that reached their assignee marked as seen

deskVars == <<ticket, trail, work, inheritor, orphaned,
              base, muted, overtaken, looked, unnoticed>>
vars == <<ticket, trail, work, inheritor, orphaned,
          base, muted, overtaken, looked, unnoticed,
          account, session, cookie, signing,
          req, adminTrail, events, adminBase, swayed, overlapped, slipped>>

FIELDS == {"status", "category", "assignee"}

Status == {"Open", "Resolved"}
Category == {"none", "General"}
Name == Names \cup {"none"}

Ticket == [status : Status, category : Category,
           assignee : Accounts \cup {"none"}, seen : BOOLEAN]

TicketFields == [status : Status, category : Category, assignee : Name]

TicketEntry ==
    [field : {"status"}, from : Status, to : Status, loose : BOOLEAN]
        \cup [field : {"category"}, from : Category, to : Category, loose : BOOLEAN]
        \cup [field : {"assignee"}, from : Name, to : Name, loose : BOOLEAN]

Blank == [status |-> "Open", category |-> "none", assignee |-> "none"]

Work == [step : {"idle", "check", "read", "update", "open", "mark"},
         by : Accounts \cup {"none"},  \* where it matters: who opens a ticket
         ticket : Tickets \cup {"none"},
         field : FIELDS, to : Status \cup Category \cup Accounts,
         existing : TicketFields]

NoWork == [step |-> "idle", by |-> "none", ticket |-> "none",
           field |-> "status", to |-> "none", existing |-> Blank]

(* The type invariant of the whole: the roster and the tickets.            *)
TypeOK ==
    /\ RosterTypeOK
    /\ ticket \in [Tickets -> Ticket]
    /\ trail \in [Tickets -> Seq(TicketEntry)]
    /\ work \in [TicketRequests -> Work]
    /\ inheritor \in [Tickets -> Accounts \cup {"none", "done"}]
    /\ orphaned \in [UserRequests -> SUBSET Tickets]
    /\ base \in [Tickets -> TicketFields]
    /\ muted \in SUBSET (Tickets \X FIELDS)
    /\ {overtaken, looked, unnoticed} \subseteq SUBSET Tickets

(* The tickets are all unowned, or an agent's who has opened them.         *)
Init ==
    /\ RosterInit
    /\ \E u \in FirstAgents \cup {"none"} :
         LET entry == [field |-> "assignee", from |-> "none", to |-> NameOf[u],
                       loose |-> FALSE] IN
         /\ ticket = [t \in Tickets |-> [status |-> "Open", category |-> "none",
                                         assignee |-> u, seen |-> u # "none"]]
         /\ trail = [t \in Tickets |-> IF u = "none" THEN <<>> ELSE <<entry>>]
         /\ looked = IF u = "none" THEN {} ELSE Tickets
    /\ work = [w \in TicketRequests |-> NoWork]
    /\ inheritor = [t \in Tickets |-> "none"]
    /\ orphaned = [r \in UserRequests |-> {}]
    /\ base = [t \in Tickets |-> Blank]
    /\ muted = {} /\ overtaken = {} /\ unnoticed = {}

AssignableUser(u) == account[u].standing = "here" /\ u \notin Automated

(* The three fields as the trail stores them: an assignee by the name they *)
(* go by at the time.                                                      *)
fieldsOf(row) ==
    [status |-> row.status, category |-> row.category,
     assignee |-> IF row.assignee = "none" THEN "none" ELSE account[row.assignee].name]

ticketChanges(before, after, loose) ==
    diffToEntries(before, after, "status", loose)
        \o diffToEntries(before, after, "category", loose)
        \o diffToEntries(before, after, "assignee", loose)

Assignees(tickets) == tickets \X {"assignee"}

ghosts == <<base, muted, overtaken, looked, unnoticed>>
askVars == <<accountVars, req, adminTrail, adminBase, swayed, overlapped, slipped>>

-----------------------------------------------------------------------------
(* The agents' routes.                                                     *)

Ask(w, u, by, step, t, field, to) ==
    /\ Happens
    /\ Takes(w, work)
    /\ requireAuth(u)
    /\ work' = [work EXCEPT ![w] = [NoWork EXCEPT !.step = step, !.by = by, !.ticket = t,
                                                  !.field = field, !.to = to]]
    /\ UNCHANGED <<ticket, trail, inheritor, orphaned, ghosts, askVars>>

AsksStatus(w, u, t, s) == Ask(w, u, "none", "read", t, "status", s)
AsksCategory(w, u, t, c) == Ask(w, u, "none", "read", t, "category", c)
AsksAssignee(w, u, t, a) ==
    Ask(w, u, "none", IF a = "none" THEN "read" ELSE "check", t, "assignee", a)
OpensTicket(w, u, t) == Ask(w, u, u, "open", t, "assignee", "none")

Done(w) == work' = [work EXCEPT ![w] = NoWork]

(* PATCH /:id/assignee: whoever is named has to be assignable.             *)
CheckAssignee(w) ==
    /\ work[w].step = "check"
    /\ IF AssignableUser(work[w].to)
       THEN work' = [work EXCEPT ![w].step = "read"] ELSE Done(w)
    /\ UNCHANGED <<ticket, trail, inheritor, orphaned, ghosts, rosterVars>>

(* updateTicket reads the values it is about to replace ...                *)
ReadExisting(w) ==
    /\ work[w].step = "read"
    /\ work' = [work EXCEPT ![w].step = "update",
                            ![w].existing = fieldsOf(ticket[work[w].ticket])]
    /\ UNCHANGED <<ticket, trail, inheritor, orphaned, ghosts, rosterVars>>

(* Mutant: a new owner is written, and that the last one saw it is left.   *)
WrittenAsSeen(row, field, to) == [row EXCEPT ![field] = to]

(* A new owner is written as one who has not seen it yet.                  *)
Written(row, field, to) ==
    IF field = "assignee" THEN [row EXCEPT !.assignee = to, !.seen = FALSE]
    ELSE [row EXCEPT ![field] = to]

(* The ghosts of a ticket that is given to `to`.                           *)
IsGiven(t, to) ==
    /\ overtaken' = IF to # "none" /\ account[to].standing = "deleted"
                    THEN overtaken \cup {t} ELSE overtaken \ {t}
    /\ looked' = looked \ {t}

(* ... and writes the field and the entries in one transaction, the        *)
(* entries being the difference to that reading.  An entry is loose if the *)
(* reading no longer held, or if what the field moved by was never told.   *)
Update(w) ==
    LET q == work[w]
        t == q.ticket
        updated == Written(ticket[t], q.field, q.to)
        now == fieldsOf(ticket[t])
        new == fieldsOf(updated)
        told == {f \in FIELDS : q.existing[f] # new[f]}
        loose == {f \in FIELDS : q.existing[f] # now[f] \/ <<t, f>> \in muted}
        untold == {f \in FIELDS \ told : now[f] # new[f]} IN
    /\ q.step = "update"
    /\ ticket' = [ticket EXCEPT ![t] = updated]
    /\ trail' = [trail EXCEPT ![t] = @ \o ticketChanges(q.existing, new, loose)]
    /\ muted' = (muted \ ({t} \X told)) \cup ({t} \X untold)
    /\ UNCHANGED base
    /\ IF q.field = "assignee"
       THEN IsGiven(t, q.to) /\ unnoticed' = unnoticed \ {t}
       ELSE UNCHANGED <<overtaken, looked, unnoticed>>
    /\ Done(w)
    /\ UNCHANGED <<inheritor, orphaned, rosterVars>>

(* GET /:id reads the ticket ...                                           *)
ReadTicket(w) ==
    LET t == work[w].ticket IN
    /\ work[w].step = "open"
    /\ IF ticket[t].assignee = work[w].by
       THEN /\ work' = [work EXCEPT ![w].step = "mark"]
            /\ looked' = looked \cup {t}
       ELSE Done(w) /\ UNCHANGED looked
    /\ UNCHANGED <<ticket, trail, inheritor, orphaned,
                   base, muted, overtaken, unnoticed, rosterVars>>

(* ... and marks it seen if it is still its reader's.                      *)
MarkSeen(w) ==
    LET t == work[w].ticket
        theirs == ticket[t].assignee = work[w].by IN
    /\ work[w].step = "mark"
    /\ ticket' = IF theirs THEN [ticket EXCEPT ![t].seen = TRUE] ELSE ticket
    /\ unnoticed' = IF theirs /\ t \notin looked THEN unnoticed \cup {t} ELSE unnoticed
    /\ Done(w)
    /\ UNCHANGED <<trail, inheritor, orphaned, base, muted, overtaken, looked, rosterVars>>

-----------------------------------------------------------------------------
(* The auto-reply, handing a ticket back.                                  *)

(* resolveHandoff names somebody who is assignable.                        *)
PickInheritor(t, u) ==
    /\ inheritor[t] = "none"
    /\ ticket[t].assignee = "none"
    /\ AssignableUser(u)
    /\ Happens
    /\ inheritor' = [inheritor EXCEPT ![t] = u]
    /\ UNCHANGED <<ticket, trail, work, orphaned, ghosts, askVars>>

(* assignIfUnowned fills the owner in.  The entry that goes with it tells  *)
(* why the ticket was handed back and not to whom.                         *)
FillIn(t) ==
    LET u == inheritor[t] IN
    /\ u \in Accounts
    /\ inheritor' = [inheritor EXCEPT ![t] = "done"]
    /\ IF ticket[t].assignee = "none"
       THEN /\ ticket' = [ticket EXCEPT ![t].assignee = u]
            /\ muted' = muted \cup Assignees({t})
            /\ UNCHANGED base
            /\ IsGiven(t, u)
            /\ unnoticed' = IF ticket[t].seen THEN unnoticed \cup {t} ELSE unnoticed \ {t}
       ELSE UNCHANGED <<ticket, ghosts>>
    /\ UNCHANGED <<trail, work, orphaned, rosterVars>>

-----------------------------------------------------------------------------
(* Deleting a colleague, of which the account's part is module Roster.     *)

Owned(u) == {t \in Tickets : ticket[t].assignee = u}

(* The tickets to be unassigned are listed before the transaction ...      *)
ListOrphaned(r) ==
    /\ req[r].step = "orphans"
    /\ orphaned' = [orphaned EXCEPT ![r] = Owned(req[r].target)]
    /\ GoOn(r, "commit")
    /\ UNCHANGED <<ticket, trail, work, inheritor, ghosts, accountVars, adminTrail,
                   events, adminBase, swayed, overlapped, slipped>>

Unassigned(tickets) ==
    ticket' = [t \in Tickets |->
                 IF t \in tickets THEN [ticket[t] EXCEPT !.assignee = "none"]
                 ELSE ticket[t]]

(* The entries of a deletion, under the name the account had when the      *)
(* deletion read it.  They are loose where the ticket had changed hands,   *)
(* or its owner their name, by the time they were written.                 *)
RecordsOrphaned(r) ==
    LET q == req[r]
        u == q.target
        entry(t) == [field |-> "assignee", from |-> q.before.name, to |-> "none",
                     loose |-> \/ t \notin Owned(u) \/ <<t, "assignee">> \in muted
                               \/ q.before.name # account[u].name] IN
    trail' = [t \in Tickets |->
                IF t \in orphaned[r] THEN Append(trail[t], entry(t)) ELSE trail[t]]

(* What a deletion does to the ghosts.                                     *)
Clears(r) ==
    LET owned == Owned(req[r].target)
        elsewhere == {t \in orphaned[r] \ owned : ticket[t].assignee # "none"} IN
    /\ orphaned' = [orphaned EXCEPT ![r] = {}]
    /\ muted' = (muted \ Assignees(orphaned[r]))
                    \cup Assignees((owned \ orphaned[r]) \cup elsewhere)
    /\ overtaken' = overtaken \ owned
    /\ UNCHANGED <<work, inheritor, base, looked, unnoticed>>

(* Mutant: only what was listed is cleared.                                *)
DeleteAsListed(r) ==
    Delete(r) /\ Unassigned(orphaned[r]) /\ RecordsOrphaned(r) /\ Clears(r)

(* Mutant: the deletion leaves no word in the tickets' history.            *)
DeleteQuietly(r) ==
    Delete(r) /\ Unassigned(Owned(req[r].target)) /\ UNCHANGED trail /\ Clears(r)

(* ... which clears those the account has by then, and records those that  *)
(* were listed.                                                            *)
DeleteUser(r) ==
    Delete(r) /\ Unassigned(Owned(req[r].target)) /\ RecordsOrphaned(r) /\ Clears(r)

(* A colleague's new name is the assignee's of every ticket they own, and  *)
(* the tickets' trails do not say so.                                      *)
EditUser(r) ==
    LET u == req[r].target IN
    /\ WriteEdit(r)
    /\ muted' = IF account'[u].name # account[u].name
                THEN muted \cup Assignees(Owned(u)) ELSE muted
    /\ UNCHANGED <<ticket, trail, work, inheritor, orphaned,
                   base, overtaken, looked, unnoticed>>

-----------------------------------------------------------------------------
(* pruneTicketActivity: the oldest entry of the trail has become a year    *)
(* old and goes, whatever is under way.                                    *)
PruneTicketActivity(t) ==
    LET oldest == Head(trail[t]) IN
    /\ trail[t] # <<>>
    /\ Happens
    /\ trail' = [trail EXCEPT ![t] = Tail(@)]
    /\ base' = [base EXCEPT ![t][oldest.field] = oldest.to]
    /\ UNCHANGED <<ticket, work, inheritor, orphaned, muted, overtaken, looked,
                   unnoticed, askVars>>

WorkDies(w) ==
    /\ work[w].step # "idle"
    /\ Happens
    /\ Done(w)
    /\ UNCHANGED <<ticket, trail, inheritor, orphaned, ghosts, askVars>>

RosterStep ==
    /\ \/ \E r \in UserRequests, u \in Accounts :
            \/ \E a \in Accounts : AsksToCreate(r, u, a)
            \/ \E a \in Touched, asked \in Bodies : AsksToEdit(r, u, a, asked)
            \/ \E a \in Touched : AsksToDelete(r, u, a)
       \/ \E r \in UserRequests :
            Create(r) \/ Welcome(r) \/ ReadEdit(r) \/ RecordEdit(r) \/ ReadDelete(r)
       \/ \E u \in Accounts :
            AsksSession(u) \/ CookieExpires(u) \/ SignsIn(u) \/ PruneAdminActivity(u)
       \/ \E u \in Touched : BeginsSignIn(u)
    /\ UNCHANGED deskVars

AdminDies(r) ==
    /\ RequestDies(r)
    /\ orphaned' = [orphaned EXCEPT ![r] = {}]
    /\ UNCHANGED <<ticket, trail, work, inheritor, ghosts>>

Next ==
    \/ RosterStep
    \/ \E r \in UserRequests : EditUser(r) \/ ListOrphaned(r) \/ DeleteUser(r)
                                   \/ AdminDies(r)
    \/ \E w \in TicketRequests, u \in Accounts, t \in Tickets :
         \/ \E s \in Status \cap Labels : AsksStatus(w, u, t, s)
         \/ \E c \in Category \cap Labels : AsksCategory(w, u, t, c)
         \/ \E a \in Touched \cup {"none"} : AsksAssignee(w, u, t, a)
         \/ OpensTicket(w, u, t)
    \/ \E w \in TicketRequests :
         \/ CheckAssignee(w) \/ ReadExisting(w) \/ Update(w)
         \/ ReadTicket(w) \/ MarkSeen(w) \/ WorkDies(w)
    \/ \E t \in Tickets : \/ \E u \in Touched : PickInheritor(t, u)
                          \/ FillIn(t) \/ PruneTicketActivity(t)

Spec == Init /\ [][Next]_vars

-----------------------------------------------------------------------------
(* Safety.                                                                 *)

(* "The trail is only worth reading if it cannot disagree with the row it  *)
(* describes": of every field the entries join up and end at the value it  *)
(* has, through PATCHes, renamings, deletions and prunes interleaved in    *)
(* any way.  Only an entry written from a reading that no longer held, or  *)
(* the first after a move that was never told, need not start where the    *)
(* one before it ended; and only from such a move to the next entry does   *)
(* the trail end elsewhere than at the row.                                *)
TrailTells ==
    \A t \in Tickets, f \in FIELDS :
       /\ JoinUp(trail[t], f, base[t][f])
       /\ \/ <<t, f>> \in muted
          \/ EndAt(trail[t], f, base[t][f], fieldsOf(ticket[t])[f])

(* A ticket left with a deleted colleague is a dead end, and only one who  *)
(* was checked before the deletion committed and given the ticket after it *)
(* can leave one there: a ticket that came to them while they were being   *)
(* deleted is cleared with the rest.                                       *)
DeletedOwnsNothing ==
    \A t \in Tickets :
        ticket[t].assignee # "none" /\ account[ticket[t].assignee].standing = "deleted"
            => t \in overtaken

(* A ticket is unread from the instant it is given to somebody until they  *)
(* open it, except where it came to them already marked: handed back after *)
(* the deletion of one who had opened it, or given once more to one whose  *)
(* reading of it was under way.                                            *)
SeenWasOpened ==
    \A t \in Tickets :
        ticket[t].assignee # "none" /\ ticket[t].seen => t \in looked \cup unnoticed

(* What every reachable state satisfies, by parts: the two trails, of      *)
(* accounts and of tickets, agree with the rows as each part says.         *)
DeskInvariant == TypeOK /\ EditsAreRecorded /\ TrailTells
=============================================================================
