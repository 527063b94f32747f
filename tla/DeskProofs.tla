----------------------------- MODULE DeskProofs -----------------------------
(***************************************************************************)
(* Proofs about Desk, for any accounts, tickets and requests, any number   *)
(* of them under way and any number of sign-ins, renewals and deaths.      *)
(***************************************************************************)
EXTENDS Desk, SequenceTheorems, TLAPS

-----------------------------------------------------------------------------
(* The roster always has an admin.                                         *)

AccountsType == account \in [Accounts -> Account]

(* A request is about somebody and somebody's, and an edit asks for        *)
(* something; one that was let through was not the caller moving their own *)
(* role, as it read it.                                                    *)
RequestSound(q) ==
    /\ q \in Req
    /\ q.step # "idle" => q.by \in Accounts /\ q.target \in Accounts
    /\ q.step \in {"readEdit", "write", "record"} => q.asked \in AdminUserFields
    /\ q.step \in {"write", "record", "orphans", "commit"}
         => q.before \in AdminUserFields
    /\ q.step = "write" => ~OwnMove(q, q.before)

RosterInv ==
    /\ AccountsType
    /\ req \in [UserRequests -> Req]
    /\ \A r \in UserRequests : RequestSound(req[r])
    /\ swayed \in BOOLEAN
    /\ AdminRemains

LEMMA NoReqSound == RequestSound(NoReq)
  BY RosterAssumption DEF RequestSound, NoReq, Req

LEMMA RosterStarts == Init => RosterInv
  <1> SUFFICES ASSUME Init PROVE RosterInv
    OBVIOUS
  <1>1. PICK a \in FirstAdmins : TRUE
    BY RosterAssumption
  <1>2. AccountsType
    BY RosterAssumption DEF Init, RosterInit, AccountsType, Account, FirstRole, USER_ROLE
  <1>3. IsAdmin(a) /\ a \in Accounts
    BY <1>1, RosterAssumption DEF Init, RosterInit, IsAdmin, FirstRole
  <1>4. req = [r \in UserRequests |-> NoReq] /\ NoReq \in Req
    BY NoReqSound DEF Init, RosterInit, RequestSound
  <1>5. QED
    BY <1>2, <1>3, <1>4, NoReqSound DEF RosterInv, AdminRemains, Init, RosterInit

(* A request that is replaced by a sound one, and nothing else moves that  *)
(* the invariant is about.                                                 *)
LEMMA RequestMoves ==
  ASSUME RosterInv, NEW r \in UserRequests, NEW q,
         RequestSound(q), req' = [req EXCEPT ![r] = q]
  PROVE  /\ req' \in [UserRequests -> Req]
         /\ \A s \in UserRequests : RequestSound(req'[s])
  <1>1. q \in Req
    BY DEF RequestSound
  <1>2. QED
    BY <1>1 DEF RosterInv

LEMMA Unmoved ==
  ASSUME RosterInv, UNCHANGED <<account, swayed>>,
         req' \in [UserRequests -> Req],
         \A s \in UserRequests : RequestSound(req'[s])
  PROVE  RosterInv'
  BY DEF RosterInv, AccountsType, AdminRemains, IsAdmin, RequestSound, OwnMove

LEMMA LetInKeeps ==
  ASSUME RosterInv, NEW r \in UserRequests, NEW u \in Accounts, NEW a \in Accounts,
         NEW asked \in AdminUserFields \cup {Nothing},
         NEW step \in {"create", "readEdit", "readDelete"},
         step = "readEdit" => asked \in AdminUserFields,
         LetIn(r, step, u, a, asked)
  PROVE  RosterInv'
  <1> DEFINE q == [NoReq EXCEPT !.step = step, !.by = u, !.target = a, !.asked = asked]
  <1>1. RequestSound(q)
    BY DEF RequestSound, Req, NoReq
  <1>2. req' = [req EXCEPT ![r] = q] /\ UNCHANGED <<account, swayed>>
    BY DEF LetIn, accountVars
  <1> HIDE DEF q
  <1>3. QED
    BY <1>1, <1>2, RequestMoves, Unmoved

LEMMA AnswerKeeps ==
  ASSUME RosterInv, NEW r \in UserRequests, Answer(r), UNCHANGED <<account, swayed>>
  PROVE  RosterInv'
  BY NoReqSound, RequestMoves, Unmoved DEF Answer

LEMMA GoOnSound ==
  ASSUME RosterInv, NEW r \in UserRequests, req[r].step # "idle",
         NEW step \in {"welcome", "commit"}, GoOn(r, step),
         step = "commit" => req[r].step = "orphans"
  PROVE  /\ req' \in [UserRequests -> Req]
         /\ \A s \in UserRequests : RequestSound(req'[s])
  <1> DEFINE q == [req[r] EXCEPT !.step = step]
  <1>1. RequestSound(q)
    BY DEF RosterInv, RequestSound, Req
  <1>2. req' = [req EXCEPT ![r] = q]
    BY DEF GoOn
  <1> HIDE DEF q
  <1>3. QED
    BY <1>1, <1>2, RequestMoves

LEMMA CreateKeeps ==
  ASSUME RosterInv, NEW r \in UserRequests, Create(r)
  PROVE  RosterInv'
  <1>1. CASE requireAdmin(req[r].by) /\ account[req[r].target].standing = "absent"
    <2>1. PICK u \in Accounts : u = req[r].target
      BY DEF Create, RosterInv, RequestSound
    <2>2. account' = [account EXCEPT ![u].standing = "here"] /\ swayed' = swayed
      BY <1>1, <2>1 DEF Create
    <2>3. /\ req' \in [UserRequests -> Req]
          /\ \A s \in UserRequests : RequestSound(req'[s])
      BY <1>1, GoOnSound DEF Create
    <2>4. AccountsType' /\ AdminRemains'
      BY <1>1, <2>1, <2>2 DEF RosterInv, AccountsType, Account, AdminRemains, IsAdmin
    <2>5. QED
      BY <2>2, <2>3, <2>4 DEF RosterInv
  <1>2. CASE ~(requireAdmin(req[r].by) /\ account[req[r].target].standing = "absent")
    BY <1>2, AnswerKeeps DEF Create
  <1>3. QED
    BY <1>1, <1>2

LEMMA ReadingTyped ==
  ASSUME AccountsType, NEW u \in Accounts
  PROVE  Reading(u) \in AdminUserFields
  BY DEF AccountsType, Account, Reading, AdminUserFields

LEMMA ReadEditKeeps ==
  ASSUME RosterInv, NEW r \in UserRequests, ReadEdit(r)
  PROVE  RosterInv'
  <1> DEFINE before == Reading(req[r].target)
  <1>1. UNCHANGED <<account, swayed>>
    BY DEF ReadEdit, accountVars
  <1>2. CASE Answer(r)
    BY <1>1, <1>2, AnswerKeeps
  <1>3. CASE /\ ~OwnMove(req[r], before)
             /\ req' = [req EXCEPT ![r].step = "write", ![r].before = before]
    <2> DEFINE q == [req[r] EXCEPT !.step = "write", !.before = before]
    <2>1. before \in AdminUserFields
      BY ReadingTyped DEF ReadEdit, RosterInv, RequestSound
    <2> HIDE DEF before
    <2>2. RequestSound(q)
      BY <1>3, <2>1 DEF ReadEdit, RosterInv, RequestSound, Req, OwnMove
    <2>3. req' = [req EXCEPT ![r] = q]
      BY <1>3
    <2> HIDE DEF q
    <2>4. QED
      BY <1>1, <2>2, <2>3, RequestMoves, Unmoved
  <1>4. QED
    BY <1>2, <1>3 DEF ReadEdit

(* What an edit that is let through does to the account and the requests.  *)
LEMMA Edited ==
  ASSUME RosterInv, NEW r \in UserRequests, WriteEdit(r), requireAdmin(req[r].by),
         NEW u \in Accounts, u = req[r].target
  PROVE  /\ account' = [account EXCEPT ![u] =
                           [@ EXCEPT !.name = req[r].asked.name,
                                     !.role = req[r].asked.role]]
         /\ req' \in [UserRequests -> Req]
         /\ \A s \in UserRequests : RequestSound(req'[s])
         /\ req[r].asked \in AdminUserFields /\ req[r].before \in AdminUserFields
  <1> DEFINE alone == /\ req[r].before = Reading(u)
                      /\ {o \in UserRequests \ {r} : Recording(o, u)} = {}
             others == {o \in UserRequests \ {r} : Recording(o, u)}
  <1>1. account' = [account EXCEPT ![u] = [@ EXCEPT !.name = req[r].asked.name,
                                                    !.role = req[r].asked.role]]
    BY DEF WriteEdit
  <1>2. req' = [o \in UserRequests |->
                  IF o = r THEN [req[r] EXCEPT !.step = "record", !.alone = alone]
                  ELSE IF o \in others THEN [req[o] EXCEPT !.alone = FALSE]
                  ELSE req[o]]
    BY DEF WriteEdit
  <1>3. alone \in BOOLEAN
    OBVIOUS
  <1> HIDE DEF alone, others
  <1>4. \A s \in UserRequests : RequestSound(req[s]) /\ req[s] \in Req
    BY DEF RosterInv
  <1>5. req[r].step = "write"
    BY DEF WriteEdit
  <1>6. RequestSound([req[r] EXCEPT !.step = "record", !.alone = alone])
    BY <1>3, <1>4, <1>5 DEF RequestSound, Req
  <1>7. \A o \in UserRequests : RequestSound([req[o] EXCEPT !.alone = FALSE])
    BY <1>4 DEF RequestSound, Req, OwnMove
  <1>8. \A s \in UserRequests : RequestSound(req'[s])
    BY <1>2, <1>4, <1>6, <1>7
  <1>9. req' \in [UserRequests -> Req]
    BY <1>2, <1>8 DEF RequestSound
  <1>10. QED
    BY <1>1, <1>4, <1>5, <1>8, <1>9 DEF RequestSound

LEMMA WriteEditKeeps ==
  ASSUME RosterInv, NEW r \in UserRequests, WriteEdit(r)
  PROVE  RosterInv'
  <1>1. CASE ~requireAdmin(req[r].by)
    BY <1>1, AnswerKeeps DEF WriteEdit
  <1>2. CASE requireAdmin(req[r].by)
    <2>1. PICK u \in Accounts, b \in Accounts : u = req[r].target /\ b = req[r].by
      BY DEF WriteEdit, RosterInv, RequestSound
    <2>2. PICK asked \in AdminUserFields, before \in AdminUserFields :
            asked = req[r].asked /\ before = req[r].before
      BY <1>2, <2>1, Edited
    <2>3. /\ account' = [account EXCEPT ![u] = [@ EXCEPT !.name = asked.name,
                                                         !.role = asked.role]]
          /\ req' \in [UserRequests -> Req]
          /\ \A s \in UserRequests : RequestSound(req'[s])
      BY <1>2, <2>1, <2>2, Edited
    <2>4. swayed' = (swayed \/ ~IsAdmin(b) \/ (b = u /\ before.role # account[u].role))
      BY <1>2, <2>1, <2>2 DEF WriteEdit
    <2>5. AccountsType' /\ swayed' \in BOOLEAN
      BY <2>3, <2>4 DEF RosterInv, AccountsType, Account, AdminUserFields
    <2>6. ASSUME ~swayed' PROVE IsAdmin(b)'
      <3>1. CASE b # u
        BY <2>3, <2>4, <2>6, <3>1 DEF RosterInv, AccountsType, Account, IsAdmin
      <3>2. CASE b = u
        <4>1. asked.role = account[u].role
          BY <2>1, <2>2, <2>4, <2>6, <3>2 DEF WriteEdit, RosterInv, RequestSound, OwnMove
        <4>2. QED
          BY <2>3, <2>4, <2>6, <3>2, <4>1 DEF RosterInv, AccountsType, Account, IsAdmin
      <3>3. QED
        BY <3>1, <3>2
    <2>7. QED
      BY <2>3, <2>5, <2>6 DEF RosterInv, AdminRemains
  <1>3. QED
    BY <1>1, <1>2

LEMMA ReadDeleteKeeps ==
  ASSUME RosterInv, NEW r \in UserRequests, ReadDelete(r)
  PROVE  RosterInv'
  <1>1. UNCHANGED <<account, swayed>>
    BY DEF ReadDelete, accountVars
  <1>2. CASE Answer(r)
    BY <1>1, <1>2, AnswerKeeps
  <1>3. ASSUME NEW before \in AdminUserFields,
               req' = [req EXCEPT ![r].step = "orphans", ![r].before = before]
        PROVE  RosterInv'
    <2> DEFINE q == [req[r] EXCEPT !.step = "orphans", !.before = before]
    <2>1. RequestSound(q)
      BY DEF ReadDelete, RosterInv, RequestSound, Req
    <2>2. req' = [req EXCEPT ![r] = q]
      BY <1>3
    <2> HIDE DEF q
    <2>3. QED
      BY <1>1, <2>1, <2>2, RequestMoves, Unmoved
  <1>4. Reading(req[r].target) \in AdminUserFields
    BY ReadingTyped DEF ReadDelete, RosterInv, RequestSound
  <1>5. QED
    BY <1>2, <1>3, <1>4 DEF ReadDelete

LEMMA DeleteKeeps ==
  ASSUME RosterInv, NEW r \in UserRequests, Delete(r)
  PROVE  RosterInv'
  <1>1. PICK u \in Accounts : u = req[r].target
    BY DEF Delete, RosterInv, RequestSound
  <1>2. account' = [account EXCEPT ![u].standing = "deleted"]
    BY <1>1 DEF Delete
  <1>3. swayed' = (swayed \/ ~IsAdmin(req[r].by) \/ IsAdmin(u))
    BY <1>1 DEF Delete
  <1>4. AccountsType' /\ AdminRemains' /\ swayed' \in BOOLEAN
    BY <1>2, <1>3 DEF RosterInv, AccountsType, Account, AdminRemains, IsAdmin
  <1>5. /\ req' \in [UserRequests -> Req]
        /\ \A s \in UserRequests : RequestSound(req'[s])
    BY NoReqSound, RequestMoves DEF Delete, Answer
  <1>6. QED
    BY <1>4, <1>5 DEF RosterInv

LEMMA RosterStepKeeps ==
  ASSUME RosterInv, RosterStep
  PROVE  RosterInv'
  <1>1. ASSUME NEW r \in UserRequests, NEW u \in Accounts, NEW a \in Accounts,
               AsksToCreate(r, u, a)
        PROVE  RosterInv'
    BY <1>1, LetInKeeps DEF AsksToCreate
  <1>2. ASSUME NEW r \in UserRequests, NEW u \in Accounts, NEW a \in Touched,
               NEW asked \in Bodies, AsksToEdit(r, u, a, asked)
        PROVE  RosterInv'
    <2>1. asked \in AdminUserFields /\ a \in Accounts
      BY RosterAssumption DEF AdminUserFields, USER_ROLE
    <2>2. QED
      BY <1>2, <2>1, LetInKeeps DEF AsksToEdit
  <1>3. ASSUME NEW r \in UserRequests, NEW u \in Accounts, NEW a \in Touched,
               AsksToDelete(r, u, a)
        PROVE  RosterInv'
    BY <1>3, LetInKeeps, RosterAssumption DEF AsksToDelete
  <1>4. ASSUME NEW r \in UserRequests, Welcome(r) \/ RecordEdit(r) PROVE RosterInv'
    BY <1>4, AnswerKeeps DEF Welcome, RecordEdit, accountVars
  <1>5. ASSUME NEW u \in Accounts,
               \/ AsksSession(u) \/ CookieExpires(u) \/ BeginsSignIn(u) \/ SignsIn(u)
               \/ PruneAdminActivity(u)
        PROVE  RosterInv'
    BY <1>5, Unmoved
    DEF AsksSession, CookieExpires, BeginsSignIn, SignsIn, PruneAdminActivity,
        requestVars, accountVars, RosterInv
  <1>6. QED
    BY <1>1, <1>2, <1>3, <1>4, <1>5, RosterAssumption,
       CreateKeeps, ReadEditKeeps, ReadDeleteKeeps DEF RosterStep

LEMMA RosterIsKept == RosterInv /\ [Next]_vars => RosterInv'
  <1> SUFFICES ASSUME RosterInv, [Next]_vars PROVE RosterInv'
    OBVIOUS
  <1>1. ASSUME NEW r \in UserRequests, ListOrphaned(r) PROVE RosterInv'
    <2>1. UNCHANGED <<account, swayed>> /\ GoOn(r, "commit") /\ req[r].step = "orphans"
      BY <1>1 DEF ListOrphaned, accountVars
    <2>2. QED
      BY <2>1, GoOnSound, Unmoved
  <1>2. ASSUME NEW r \in UserRequests, DeleteUser(r) \/ EditUser(r) PROVE RosterInv'
    BY <1>2, DeleteKeeps, WriteEditKeeps DEF DeleteUser, EditUser
  <1>3. ASSUME NEW r \in UserRequests, AdminDies(r) PROVE RosterInv'
    BY <1>3, AnswerKeeps DEF AdminDies, RequestDies, accountVars
  <1>4. CASE UNCHANGED <<account, req, swayed>>
    BY <1>4, Unmoved DEF RosterInv
  <1>5. QED
    BY <1>1, <1>2, <1>3, <1>4, RosterStepKeeps
       DEF Next, vars, AsksStatus, AsksCategory, AsksAssignee, OpensTicket, Ask,
           CheckAssignee, ReadExisting, Update, ReadTicket, MarkSeen, WorkDies,
           PruneTicketActivity, PickInheritor, FillIn, rosterVars, accountVars, askVars

(* Theorem: the desk never runs out of admins, as long as what each        *)
(* request decided on still holds when it writes.                          *)
THEOREM AnAdminRemains == Spec => []AdminRemains
  <1>1. RosterInv => AdminRemains
    BY DEF RosterInv
  <1>2. QED
    BY RosterStarts, RosterIsKept, <1>1, PTL DEF Spec
-----------------------------------------------------------------------------
(* A deleted colleague owns nothing.                                       *)

Values == [status |-> Status, category |-> Category, assignee |-> Accounts \cup {"none"}]

(* A request is about a ticket, and asks for what its field can be.        *)
WorkSound(q) ==
    /\ q \in Work
    /\ q.step # "idle" => q.ticket \in Tickets /\ q.to \in Values[q.field]

TicketInv ==
    /\ RosterInv
    /\ ticket \in [Tickets -> Ticket]
    /\ work \in [TicketRequests -> Work]
    /\ \A w \in TicketRequests : WorkSound(work[w])
    /\ DeletedOwnsNothing

LEMMA NoWorkSound == WorkSound(NoWork)
  BY DEF FIELDS, WorkSound, NoWork, Work, TicketFields, Blank, Status, Category, Name

LEMMA TicketStarts == Init => TicketInv
  <1> SUFFICES ASSUME Init PROVE TicketInv
    OBVIOUS
  <1>1. ticket \in [Tickets -> Ticket]
    BY RosterAssumption DEF Init, Ticket, Status, Category
  <1>2. work = [w \in TicketRequests |-> NoWork] /\ NoWork \in Work
    BY NoWorkSound DEF Init, WorkSound
  <1>3. DeletedOwnsNothing
    BY RosterAssumption DEF Init, RosterInit, DeletedOwnsNothing
  <1>4. QED
    BY <1>1, <1>2, <1>3, NoWorkSound, RosterStarts DEF TicketInv

(* A request is replaced by a sound one.                                   *)
LEMMA WorkMoves ==
  ASSUME TicketInv, NEW w \in TicketRequests, NEW q, WorkSound(q),
         work' = [work EXCEPT ![w] = q]
  PROVE  /\ work' \in [TicketRequests -> Work]
         /\ \A v \in TicketRequests : WorkSound(work'[v])
  <1>1. q \in Work
    BY DEF WorkSound
  <1>2. QED
    BY <1>1 DEF TicketInv

LEMMA DoneSound ==
  ASSUME TicketInv, NEW w \in TicketRequests, Done(w)
  PROVE  /\ work' \in [TicketRequests -> Work]
         /\ \A v \in TicketRequests : WorkSound(work'[v])
  BY NoWorkSound, WorkMoves DEF Done

(* Only the requests to the tickets' routes move.                          *)
LEMMA TicketsUnmoved ==
  ASSUME TicketInv, RosterInv', UNCHANGED <<ticket, overtaken>>,
         \A u \in Accounts :
            account'[u].standing = "deleted" => account[u].standing = "deleted",
         work' \in [TicketRequests -> Work],
         \A v \in TicketRequests : WorkSound(work'[v])
  PROVE  TicketInv'
  BY DEF TicketInv, DeletedOwnsNothing, WorkSound, Ticket

LEMMA AskKeeps ==
  ASSUME TicketInv, RosterInv', NEW w \in TicketRequests, NEW u \in Accounts,
         NEW by \in Accounts \cup {"none"}, NEW step \in {"check", "read", "open"},
         NEW t \in Tickets, NEW f \in {"status", "category", "assignee"},
         NEW to \in Values[f], Ask(w, u, by, step, t, f, to)
  PROVE  TicketInv'
  <1> DEFINE q == [NoWork EXCEPT !.step = step, !.by = by, !.ticket = t,
                                 !.field = f, !.to = to]
  <1>1. to \in Status \cup Category \cup Accounts
    BY DEF Values, Category
  <1>2. WorkSound(q)
    <2>1. NoWork \in Work /\ f \in FIELDS
      BY NoWorkSound DEF WorkSound, FIELDS
    <2>2. q.ticket = t /\ q.field = f /\ q.to = to
      BY DEF NoWork
    <2>3. q \in Work
      BY <1>1, <2>1 DEF Work
    <2> HIDE DEF q
    <2>4. QED
      BY <2>2, <2>3 DEF WorkSound
  <1>3. work' = [work EXCEPT ![w] = q] /\ UNCHANGED <<ticket, overtaken, account>>
    BY DEF Ask, ghosts, askVars, accountVars
  <1> HIDE DEF q
  <1>4. QED
    BY <1>2, <1>3, WorkMoves, TicketsUnmoved

LEMMA ReadingKeeps ==
  ASSUME TicketInv, RosterInv', NEW w \in TicketRequests,
         CheckAssignee(w) \/ ReadExisting(w) \/ ReadTicket(w) \/ WorkDies(w)
  PROVE  TicketInv'
  <1>1. UNCHANGED <<ticket, overtaken, account>> /\ WorkSound(work[w])
    BY DEF CheckAssignee, ReadExisting, ReadTicket, WorkDies, ghosts, rosterVars,
       askVars, accountVars, TicketInv
  <1>2. CASE Done(w)
    BY <1>1, <1>2, DoneSound, TicketsUnmoved
  <1>3. ASSUME NEW step \in {"read", "mark"}, work[w].step # "idle",
               work' = [work EXCEPT ![w].step = step]
        PROVE  TicketInv'
    <2> DEFINE q == [work[w] EXCEPT !.step = step]
    <2>1. WorkSound(q)
      BY <1>1, <1>3 DEF WorkSound, Work
    <2>2. work' = [work EXCEPT ![w] = q]
      BY <1>3
    <2> HIDE DEF q
    <2>3. QED
      BY <1>1, <2>1, <2>2, WorkMoves, TicketsUnmoved
  <1>4. CASE ReadExisting(w)
    <2> DEFINE existing == fieldsOf(ticket[work[w].ticket])
               q == [work[w] EXCEPT !.step = "update", !.existing = existing]
    <2>1. ticket[work[w].ticket] \in Ticket
      BY <1>1, <1>4 DEF ReadExisting, WorkSound, TicketInv
    <2>2. existing \in TicketFields
      BY <2>1 DEF fieldsOf, Ticket, TicketFields, Name, TicketInv, RosterInv,
                  AccountsType, Account
    <2> HIDE DEF existing
    <2>3. WorkSound(q)
      BY <1>1, <1>4, <2>2 DEF ReadExisting, WorkSound, Work
    <2>4. work' = [work EXCEPT ![w] = q]
      BY <1>4 DEF ReadExisting, existing
    <2> HIDE DEF q
    <2>5. QED
      BY <1>1, <2>3, <2>4, WorkMoves, TicketsUnmoved
  <1>5. QED
    BY <1>2, <1>3, <1>4 DEF CheckAssignee, ReadTicket, WorkDies

(* A ticket is given, or keeps its assignee.                               *)
LEMMA GivenType ==
  ASSUME NEW old \in Ticket, NEW to \in Accounts \cup {"none"}
  PROVE  LET new == Written(old, "assignee", to)
         IN  new \in Ticket /\ new.assignee = to
  BY DEF Written, Ticket

LEMMA UpdateKeeps ==
  ASSUME TicketInv, RosterInv', NEW w \in TicketRequests, Update(w)
  PROVE  TicketInv'
  <1> DEFINE q == work[w]
             t == q.ticket
             updated == Written(ticket[t], q.field, q.to)
  <1>1. /\ t \in Tickets /\ q.field \in {"status", "category", "assignee"}
        /\ q.to \in Values[q.field] /\ account' = account
    BY DEF FIELDS, Update, TicketInv, WorkSound, Work, rosterVars
  <1>2. ticket' = [ticket EXCEPT ![t] = updated] /\ Done(w)
    BY DEF Update
  <1>3. CASE q.field = "assignee"
    <2>1. updated \in Ticket /\ updated.assignee = q.to
      <3>1. ticket[t] \in Ticket /\ q.to \in Accounts \cup {"none"}
        BY <1>1, <1>3 DEF Values, TicketInv
      <3>2. QED
        BY <1>3, <3>1, GivenType
    <2>2. overtaken' = IF q.to # "none" /\ account[q.to].standing = "deleted"
                       THEN overtaken \cup {t} ELSE overtaken \ {t}
      BY <1>3 DEF Update, IsGiven
    <2> HIDE DEF updated
    <2>3. DeletedOwnsNothing' /\ ticket' \in [Tickets -> Ticket]
      BY <1>1, <1>2, <2>1, <2>2 DEF TicketInv, DeletedOwnsNothing
    <2>4. QED
      BY <1>2, <2>3, DoneSound DEF TicketInv, WorkSound
  <1>4. CASE q.field # "assignee"
    <2>1. updated \in Ticket /\ updated.assignee = ticket[t].assignee
      BY <1>1, <1>4 DEF Written, Values, Ticket, TicketInv
    <2>2. overtaken' = overtaken
      BY <1>4 DEF Update
    <2> HIDE DEF updated
    <2>3. DeletedOwnsNothing' /\ ticket' \in [Tickets -> Ticket]
      BY <1>1, <1>2, <2>1, <2>2 DEF TicketInv, DeletedOwnsNothing
    <2>4. QED
      BY <1>2, <2>3, DoneSound DEF TicketInv, WorkSound
  <1>5. QED
    BY <1>3, <1>4

LEMMA MarkSeenKeeps ==
  ASSUME TicketInv, RosterInv', NEW w \in TicketRequests, MarkSeen(w)
  PROVE  TicketInv'
  <1>1. work[w].ticket \in Tickets /\ UNCHANGED <<overtaken, account>> /\ Done(w)
    BY DEF MarkSeen, TicketInv, WorkSound, rosterVars
  <1>2. /\ ticket' \in [Tickets -> Ticket]
        /\ \A t \in Tickets : ticket'[t].assignee = ticket[t].assignee
    BY <1>1 DEF MarkSeen, TicketInv, Ticket
  <1>3. QED
    BY <1>1, <1>2, DoneSound DEF TicketInv, DeletedOwnsNothing, WorkSound

LEMMA FillInKeeps ==
  ASSUME TicketInv, RosterInv', NEW t \in Tickets, FillIn(t)
  PROVE  TicketInv'
  <1>1. UNCHANGED <<work, account>>
    BY DEF FillIn, rosterVars
  <1>2. /\ ticket' \in [Tickets -> Ticket]
        /\ DeletedOwnsNothing'
    BY <1>1 DEF FillIn, IsGiven, ghosts, TicketInv, Ticket, DeletedOwnsNothing
  <1>3. QED
    BY <1>1, <1>2 DEF TicketInv, WorkSound

LEMMA DeleteUserKeeps ==
  ASSUME TicketInv, RosterInv', NEW r \in UserRequests, DeleteUser(r)
  PROVE  TicketInv'
  <1>1. PICK u \in Accounts : u = req[r].target
    BY DEF DeleteUser, Delete, TicketInv, RosterInv, RequestSound
  <1>2. /\ account' = [account EXCEPT ![u].standing = "deleted"]
        /\ ticket' = [t \in Tickets |->
                        IF t \in Owned(u) THEN [ticket[t] EXCEPT !.assignee = "none"]
                        ELSE ticket[t]]
        /\ overtaken' = overtaken \ Owned(u)
        /\ work' = work
    BY <1>1 DEF DeleteUser, Delete, Unassigned, Clears
  <1>3. ticket' \in [Tickets -> Ticket]
    BY <1>2 DEF TicketInv, Ticket
  <1>4. DeletedOwnsNothing'
    BY <1>2 DEF TicketInv, RosterInv, AccountsType, Account, Ticket, Owned,
       DeletedOwnsNothing
  <1>5. QED
    BY <1>2, <1>3, <1>4 DEF TicketInv, WorkSound

LEMMA RosterStepSpares ==
  ASSUME TicketInv, RosterInv',
         \/ RosterStep
         \/ \E r \in UserRequests : EditUser(r) \/ ListOrphaned(r) \/ AdminDies(r)
  PROVE  TicketInv'
  <1>1. UNCHANGED <<ticket, overtaken, work>>
    BY DEF RosterStep, deskVars, EditUser, ListOrphaned, AdminDies, ghosts
  <1>2. ASSUME NEW r \in UserRequests, Create(r)
        PROVE  \A u \in Accounts :
                 account'[u].standing = "deleted" => account[u].standing = "deleted"
    BY <1>2 DEF Create, TicketInv, RosterInv, AccountsType, Account
  <1>3. ASSUME NEW r \in UserRequests, WriteEdit(r)
        PROVE  \A u \in Accounts :
                 account'[u].standing = "deleted" => account[u].standing = "deleted"
    <2>1. CASE ~requireAdmin(req[r].by)
      BY <1>3, <2>1 DEF WriteEdit
    <2>2. CASE requireAdmin(req[r].by)
      <3>1. PICK v \in Accounts : v = req[r].target
        BY <1>3 DEF WriteEdit, TicketInv, RosterInv, RequestSound
      <3>2. account' = [account EXCEPT ![v] =
                          [@ EXCEPT !.name = req[r].asked.name,
                                    !.role = req[r].asked.role]]
        BY <1>3, <2>2, <3>1, Edited DEF TicketInv
      <3>3. QED
        BY <3>2 DEF TicketInv, RosterInv, AccountsType, Account
    <2>3. QED
      BY <2>1, <2>2
  <1>4. CASE UNCHANGED account
    BY <1>1, <1>4, TicketsUnmoved DEF TicketInv
  <1>5. QED
    BY <1>1, <1>2, <1>3, <1>4, TicketsUnmoved
       DEF TicketInv, RosterStep, EditUser, ListOrphaned, AdminDies, RequestDies,
           accountVars, requestVars, AsksToCreate, AsksToEdit, AsksToDelete, LetIn,
           Welcome, ReadEdit, RecordEdit, ReadDelete, AsksSession, CookieExpires,
           BeginsSignIn, SignsIn, PruneAdminActivity

LEMMA TicketsAreKept == TicketInv /\ [Next]_vars => TicketInv'
  <1> SUFFICES ASSUME TicketInv, [Next]_vars PROVE TicketInv'
    OBVIOUS
  <1>1. RosterInv'
    BY RosterIsKept DEF TicketInv
  <1>2. ASSUME NEW w \in TicketRequests, NEW u \in Accounts, NEW t \in Tickets,
               \/ \E s \in Status \cap Labels : AsksStatus(w, u, t, s)
               \/ \E c \in Category \cap Labels : AsksCategory(w, u, t, c)
               \/ \E a \in Touched \cup {"none"} : AsksAssignee(w, u, t, a)
               \/ OpensTicket(w, u, t)
        PROVE  TicketInv'
    <2>1. ASSUME NEW s \in Status, AsksStatus(w, u, t, s) PROVE TicketInv'
      BY <1>1, <2>1, AskKeeps DEF AsksStatus, Values
    <2>2. ASSUME NEW c \in Category, AsksCategory(w, u, t, c) PROVE TicketInv'
      BY <1>1, <2>2, AskKeeps DEF AsksCategory, Values
    <2>3. ASSUME NEW a \in Accounts \cup {"none"}, AsksAssignee(w, u, t, a)
          PROVE  TicketInv'
      BY <1>1, <2>3, AskKeeps DEF AsksAssignee, Values
    <2>4. CASE OpensTicket(w, u, t)
      BY <1>1, <2>4, AskKeeps DEF OpensTicket, Values
    <2>5. QED
      BY <1>2, <2>1, <2>2, <2>3, <2>4, RosterAssumption
  <1>3. ASSUME NEW t \in Tickets, NEW u \in Touched, PickInheritor(t, u)
        PROVE  TicketInv'
    BY <1>1, <1>3, TicketsUnmoved
    DEF PickInheritor, TicketInv, ghosts, askVars, accountVars
  <1>4. CASE UNCHANGED vars \/ (\E t \in Tickets : PruneTicketActivity(t))
    BY <1>1, <1>4, TicketsUnmoved
    DEF vars, PruneTicketActivity, TicketInv, askVars, accountVars
  <1>5. QED
    BY <1>1, <1>2, <1>3, <1>4, RosterStepSpares, DeleteUserKeeps, ReadingKeeps,
       UpdateKeeps, MarkSeenKeeps, FillInKeeps DEF Next

(* Theorem: only a ticket given to somebody who was deleted after the      *)
(* check is ever left with a deleted colleague, whatever overlaps.         *)
THEOREM TheDeletedOwnNothing == Spec => []DeletedOwnsNothing
  <1>1. TicketInv => DeletedOwnsNothing
    BY DEF TicketInv
  <1>2. QED
    BY TicketStarts, TicketsAreKept, <1>1, PTL DEF Spec
-----------------------------------------------------------------------------
(* Seen means opened.                                                      *)

LEMMA SeenStarts == Init => SeenWasOpened
  BY DEF Init, SeenWasOpened

LEMMA SeenIsKept == TicketInv /\ SeenWasOpened /\ [Next]_vars => SeenWasOpened'
  <1> SUFFICES ASSUME TicketInv, SeenWasOpened, [Next]_vars PROVE SeenWasOpened'
    OBVIOUS
  <1>1. ticket \in [Tickets -> Ticket]
    BY DEF TicketInv
  <1>2. CASE UNCHANGED <<ticket, looked, unnoticed>>
    BY <1>2 DEF SeenWasOpened
  <1>3. ASSUME NEW w \in TicketRequests, Update(w)
        PROVE  SeenWasOpened'
    <2>1. PICK t \in Tickets : t = work[w].ticket
      BY <1>3 DEF Update, TicketInv, WorkSound
    <2>2. CASE work[w].field = "assignee"
      <3>1. /\ ticket' = [ticket EXCEPT ![t].assignee = work[w].to, ![t].seen = FALSE]
            /\ looked' = looked \ {t} /\ unnoticed' = unnoticed \ {t}
        BY <1>1, <1>3, <2>1, <2>2 DEF Update, Written, IsGiven, Ticket
      <3>2. QED
        BY <1>1, <3>1 DEF SeenWasOpened, Ticket
    <2>3. CASE work[w].field # "assignee"
      <3>1. /\ work[w].field \in {"status", "category"}
            /\ UNCHANGED <<looked, unnoticed>>
        BY <1>3, <2>1, <2>3 DEF Update, TicketInv, WorkSound, Work, FIELDS
      <3>2. ticket' = [ticket EXCEPT ![t] = [@ EXCEPT ![work[w].field] = work[w].to]]
        BY <1>3, <2>1, <2>3 DEF Update, Written
      <3>3. \A u \in Tickets : /\ ticket'[u].assignee = ticket[u].assignee
                               /\ ticket'[u].seen = ticket[u].seen
        BY <1>1, <3>1, <3>2 DEF Ticket
      <3>4. QED
        BY <3>1, <3>3 DEF SeenWasOpened
    <2>4. QED
      BY <2>2, <2>3
  <1>4. ASSUME NEW w \in TicketRequests, ReadTicket(w)
        PROVE  SeenWasOpened'
    BY <1>4 DEF ReadTicket, SeenWasOpened
  <1>5. ASSUME NEW w \in TicketRequests, MarkSeen(w)
        PROVE  SeenWasOpened'
    <2>1. PICK t \in Tickets : t = work[w].ticket
      BY <1>5 DEF MarkSeen, TicketInv, WorkSound
    <2>2. looked' = looked
      BY <1>5 DEF MarkSeen
    <2>3. CASE ticket[t].assignee = work[w].by
      BY <1>1, <1>5, <2>1, <2>2, <2>3 DEF MarkSeen, SeenWasOpened, Ticket
    <2>4. CASE ticket[t].assignee # work[w].by
      BY <1>5, <2>1, <2>2, <2>4 DEF MarkSeen, SeenWasOpened
    <2>5. QED
      BY <2>3, <2>4
  <1>6. ASSUME NEW t \in Tickets, FillIn(t)
        PROVE  SeenWasOpened'
    <2>1. CASE ticket[t].assignee = "none"
      <3>1. /\ ticket' = [ticket EXCEPT ![t].assignee = inheritor[t]]
            /\ looked' = looked \ {t}
            /\ unnoticed' = IF ticket[t].seen THEN unnoticed \cup {t} ELSE unnoticed \ {t}
        BY <1>6, <2>1 DEF FillIn, IsGiven
      <3>2. QED
        BY <1>1, <3>1 DEF SeenWasOpened, Ticket
    <2>2. CASE ticket[t].assignee # "none"
      BY <1>2, <1>6, <2>2 DEF FillIn, ghosts
    <2>3. QED
      BY <2>1, <2>2
  <1>7. ASSUME NEW r \in UserRequests, DeleteUser(r)
        PROVE  SeenWasOpened'
    <2>1. /\ \A t \in Tickets : ticket'[t].assignee # "none" => ticket'[t] = ticket[t]
          /\ UNCHANGED <<looked, unnoticed>>
      BY <1>1, <1>7 DEF DeleteUser, Unassigned, Clears, Ticket
    <2>2. QED
      BY <2>1 DEF SeenWasOpened
  <1>8. QED
    BY <1>2, <1>3, <1>4, <1>5, <1>6, <1>7
    DEF Next, vars, AsksStatus, AsksCategory, AsksAssignee, OpensTicket, Ask,
        CheckAssignee, ReadExisting, WorkDies, PickInheritor, PruneTicketActivity,
        RosterStep, EditUser, ListOrphaned, AdminDies, deskVars, ghosts

(* Theorem: an unread mark never disappears before the assignee has opened *)
(* the ticket, but in the two ways the model names, for any numbers of     *)
(* agents, tickets and requests under way.                                 *)
THEOREM SeenOnlyIfOpened == Spec => []SeenWasOpened
  BY TicketStarts, TicketsAreKept, SeenStarts, SeenIsKept, PTL DEF Spec

-----------------------------------------------------------------------------
(* The deleted stay out: their sessions went with the account, and nobody  *)
(* who is deleted signs in or comes back, but for a sign-in that was under *)
(* way.                                                                    *)

LeftOut ==
    /\ session \in [Accounts -> BOOLEAN]
    /\ cookie \in [Accounts -> USER_ROLE \cup {"none"}]
    /\ signing \in SUBSET Accounts /\ slipped \in SUBSET Accounts
    /\ \A u \in Accounts \ slipped :
         account[u].standing = "deleted" => ~session[u] /\ u \notin signing

LEMMA LeftOutStarts == Init => LeftOut
  BY DEF Init, RosterInit, LeftOut, USER_ROLE

(* Neither a creation nor an edit deletes anybody or brings them back.     *)
LEMMA StandingKept ==
  ASSUME RosterInv, NEW r \in UserRequests, Create(r) \/ WriteEdit(r), NEW u \in Accounts
  PROVE  account'[u].standing = "deleted" <=> account[u].standing = "deleted"
  <1>1. PICK v \in Accounts : v = req[r].target
    BY DEF Create, WriteEdit, RosterInv, RequestSound
  <1>2. CASE Create(r)
    BY <1>1, <1>2 DEF Create, RosterInv, AccountsType, Account
  <1>3. CASE WriteEdit(r) /\ ~requireAdmin(req[r].by)
    BY <1>3 DEF WriteEdit
  <1>4. CASE WriteEdit(r) /\ requireAdmin(req[r].by)
    <2>1. account' = [account EXCEPT ![v] = [@ EXCEPT !.name = req[r].asked.name,
                                                      !.role = req[r].asked.role]]
      BY <1>1, <1>4, Edited
    <2>2. QED
      BY <2>1 DEF RosterInv, AccountsType, Account
  <1>5. QED
    BY <1>2, <1>3, <1>4

LEMMA LeftOutIsKept == RosterInv /\ LeftOut /\ [Next]_vars => LeftOut'
  <1> SUFFICES ASSUME RosterInv, LeftOut, [Next]_vars PROVE LeftOut'
    OBVIOUS
  <1>1. account \in [Accounts -> Account]
    BY DEF RosterInv, AccountsType
  <1>2. CASE UNCHANGED <<accountVars, slipped>>
    BY <1>2 DEF accountVars, LeftOut
  <1>3. ASSUME NEW r \in UserRequests, Create(r) \/ WriteEdit(r)
        PROVE  LeftOut'
    <2>1. UNCHANGED <<session, cookie, signing, slipped>>
      BY <1>3 DEF Create, WriteEdit
    <2>2. QED
      BY <1>3, <2>1, StandingKept DEF LeftOut
  <1>4. ASSUME NEW r \in UserRequests, Delete(r)
        PROVE  LeftOut'
    BY <1>1, <1>4 DEF Delete, LeftOut, Account
  <1>5. ASSUME NEW u \in Accounts,
               AsksSession(u) \/ CookieExpires(u) \/ BeginsSignIn(u) \/ SignsIn(u)
        PROVE  LeftOut'
    BY <1>1, <1>5
    DEF AsksSession, CookieExpires, BeginsSignIn, SignsIn, requestVars, LeftOut, Account
  <1>6. QED
    BY <1>2, <1>3, <1>4, <1>5, RosterAssumption
    DEF Next, vars, RosterStep, AsksToCreate, AsksToEdit, AsksToDelete, LetIn, Welcome,
        ReadEdit, RecordEdit, ReadDelete, PruneAdminActivity, EditUser, ListOrphaned,
        DeleteUser, AdminDies, RequestDies, AsksStatus, AsksCategory, AsksAssignee,
        OpensTicket, Ask, CheckAssignee, ReadExisting, Update, ReadTicket, MarkSeen,
        PruneTicketActivity, WorkDies, PickInheritor, FillIn, rosterVars, accountVars,
        askVars

(* Every step leaves the deleted deleted, and no request's step gives a    *)
(* browser a copy.                                                         *)
LEMMA DeletedForGood ==
  ASSUME RosterInv, [Next]_vars, NEW u \in Accounts, account[u].standing = "deleted"
  PROVE  account'[u].standing = "deleted"
  <1>1. ASSUME NEW r \in UserRequests, Delete(r)
        PROVE  account'[u].standing = "deleted"
    BY <1>1 DEF Delete, RosterInv, AccountsType, Account
  <1>2. CASE account' = account
    BY <1>2
  <1>3. QED
    BY <1>1, <1>2, StandingKept
    DEF Next, vars, RosterStep, AsksToCreate, AsksToEdit, AsksToDelete, LetIn, Welcome,
        ReadEdit, RecordEdit, ReadDelete, PruneAdminActivity, EditUser, ListOrphaned,
        DeleteUser, AdminDies, RequestDies, AsksStatus, AsksCategory, AsksAssignee,
        OpensTicket, Ask, CheckAssignee, ReadExisting, Update, ReadTicket, MarkSeen,
        PruneTicketActivity, WorkDies, PickInheritor, FillIn, rosterVars, accountVars,
        askVars, AsksSession, CookieExpires, BeginsSignIn, SignsIn, requestVars

LEMMA CopiesAreAsked ==
  ASSUME [Next]_vars
  PROVE  cookie' = cookie \/ \E v \in Accounts : AsksSession(v) \/ CookieExpires(v)
  <1>1. CASE RosterStep
    BY <1>1, RosterAssumption
    DEF RosterStep, AsksToCreate, AsksToEdit, AsksToDelete, LetIn, Welcome, Create,
        ReadEdit, RecordEdit, ReadDelete, PruneAdminActivity, accountVars, BeginsSignIn,
        SignsIn, requestVars
  <1>2. ASSUME NEW r \in UserRequests,
               EditUser(r) \/ ListOrphaned(r) \/ DeleteUser(r) \/ AdminDies(r)
        PROVE  cookie' = cookie
    BY <1>2 DEF EditUser, WriteEdit, ListOrphaned, DeleteUser, Delete, AdminDies,
       RequestDies, accountVars
  <1>3. CASE ~RosterStep
    BY <1>2, <1>3
    DEF Next, vars, AsksStatus, AsksCategory, AsksAssignee, OpensTicket, Ask,
        CheckAssignee, ReadExisting, Update, ReadTicket, MarkSeen, PruneTicketActivity,
        WorkDies, PickInheritor, FillIn, rosterVars, accountVars, askVars
  <1>4. QED
    BY <1>1, <1>3

LEMMA OutStaysOut ==
  RosterInv /\ LeftOut /\ LeftOut' /\ [Next]_vars =>
     \A u \in Accounts \ slipped :
        account[u].standing = "deleted" /\ cookie[u] = "none"
           => ~requireAuth(u) /\ ~requireAuth(u)'
  <1> SUFFICES ASSUME RosterInv, LeftOut, LeftOut', [Next]_vars,
                      NEW u \in Accounts \ slipped,
                      account[u].standing = "deleted", cookie[u] = "none"
               PROVE  ~requireAuth(u) /\ ~requireAuth(u)'
    OBVIOUS
  <1>1. ~session[u] /\ u \notin signing /\ account'[u].standing = "deleted"
    BY DeletedForGood DEF LeftOut
  <1>2. ~session'[u]
    <2>1. ASSUME NEW v \in Accounts, SignsIn(v)
          PROVE  ~session'[u]
      BY <1>1, <2>1 DEF SignsIn, LeftOut
    <2>2. ASSUME NEW r \in UserRequests, Delete(r)
          PROVE  ~session'[u]
      BY <1>1, <2>2 DEF Delete, LeftOut
    <2>3. CASE session' = session
      BY <1>1, <2>3
    <2>4. QED
      BY <2>1, <2>2, <2>3, RosterAssumption
      DEF Next, vars, RosterStep, AsksToCreate, AsksToEdit, AsksToDelete, LetIn, Welcome,
          Create, WriteEdit, ReadEdit, RecordEdit, ReadDelete, PruneAdminActivity,
          EditUser, ListOrphaned, DeleteUser, AdminDies, RequestDies, AsksStatus,
          AsksCategory, AsksAssignee, OpensTicket, Ask, CheckAssignee, ReadExisting,
          Update, ReadTicket, MarkSeen, PruneTicketActivity, WorkDies, PickInheritor,
          FillIn, rosterVars, accountVars, askVars, AsksSession, CookieExpires,
          BeginsSignIn, requestVars
  <1>3. cookie'[u] = "none"
    <2>1. ASSUME NEW v \in Accounts, AsksSession(v) \/ CookieExpires(v)
          PROVE  cookie'[u] = "none"
      BY <1>1, <2>1 DEF AsksSession, CookieExpires, LeftOut
    <2>2. QED
      BY <2>1, CopiesAreAsked
  <1>4. QED
    BY <1>1, <1>2, <1>3 DEF requireAuth, RoleOf

(* Theorem: once the cookie they had has run out, a deleted colleague is   *)
(* let in no more, whatever their colleagues do meanwhile, unless they     *)
(* were signing in when they were deleted.                                 *)
THEOREM TheDeletedStayOut == Spec => DeletedStaysOut
  <1>1. RosterInv /\ LeftOut /\ LeftOut' /\ [Next]_vars =>
          [\A u \in Accounts \ slipped :
             account[u].standing = "deleted" /\ cookie[u] = "none"
                => ~requireAuth(u) /\ ~requireAuth(u)']_rosterVars
    BY OutStaysOut
  <1>2. QED
    BY RosterStarts, RosterIsKept, LeftOutStarts, LeftOutIsKept, <1>1, PTL
    DEF Spec, DeletedStaysOut
-----------------------------------------------------------------------------
(* Trails that tell: what appending, and dropping the oldest, does to      *)
(* entries that join up.                                                   *)

(* One trail extends another.                                              *)
Extends(longer, entries) ==
    /\ Len(entries) <= Len(longer)
    /\ \A i \in 1..Len(entries) : longer[i] = entries[i]

(* One entry at the end, and none.                                         *)
LEMMA OneMore ==
  ASSUME NEW S, NEW entries \in Seq(S), NEW e \in S
  PROVE  /\ entries \o <<e>> \in Seq(S)
         /\ Len(entries \o <<e>>) = Len(entries) + 1
         /\ (entries \o <<e>>)[Len(entries) + 1] = e
         /\ Extends(entries \o <<e>>, entries)
  <1>1. <<e>> \in Seq(S) /\ Len(<<e>>) = 1 /\ <<e>>[1] = e
    OBVIOUS
  <1>2. Len(entries) \in Nat
    BY LenProperties
  <1>3. /\ entries \o <<e>> \in Seq(S)
        /\ Len(entries \o <<e>>) = Len(entries) + 1
        /\ \A i \in 1..Len(entries) + 1 : (entries \o <<e>>)[i] =
              IF i <= Len(entries) THEN entries[i] ELSE <<e>>[i - Len(entries)]
    BY <1>1, ConcatProperties
  <1>4. QED
    BY <1>1, <1>2, <1>3 DEF Extends

LEMMA AppendIsOneMore ==
  ASSUME NEW S, NEW entries \in Seq(S), NEW e \in S
  PROVE  Append(entries, e) = entries \o <<e>>
  OBVIOUS

LEMMA LeaveKept ==
  ASSUME NEW S, NEW entries \in Seq(S), NEW longer \in Seq(S),
         Extends(longer, entries),
         NEW mine \in SUBSET (1..Len(entries)), NEW first, NEW value
  PROVE  Leave(longer, mine, first, value) <=> Leave(entries, mine, first, value)
  BY DEF Extends, Leave

(* A step of a trail that is nothing to f.                                 *)
Spares(entries, longer, f, first) ==
    /\ JoinUp(entries, f, first) => JoinUp(longer, f, first)
    /\ \A value : EndAt(entries, f, first, value) => EndAt(longer, f, first, value)

LEMMA OtherEntry ==
  ASSUME NEW S, NEW entries \in Seq(S), NEW e \in S, NEW f, e.field # f, NEW first
  PROVE  Spares(entries, entries \o <<e>>, f, first)
  <1> DEFINE longer == entries \o <<e>>
             mine == EntriesOf(entries, f)
  <1>1. /\ longer \in Seq(S) /\ Len(longer) = Len(entries) + 1
        /\ longer[Len(entries) + 1] = e /\ Extends(longer, entries)
    BY OneMore
  <1> HIDE DEF longer
  <1>2. EntriesOf(longer, f) = mine /\ mine \in SUBSET (1..Len(entries))
    BY <1>1, LenProperties DEF EntriesOf, Extends
  <1>3. \A i \in mine : longer[i] = entries[i] /\ {j \in mine : j < i} \in SUBSET mine
    BY <1>1, <1>2 DEF Extends
  <1> HIDE DEF mine
  <1>4. \A some \in SUBSET mine : \A v :
          Leave(longer, some, first, v) <=> Leave(entries, some, first, v)
    BY <1>1, <1>2, LeaveKept
  <1>5. JoinUp(entries, f, first) => JoinUp(longer, f, first)
    BY <1>2, <1>3, <1>4 DEF JoinUp, mine
  <1>6. \A v : EndAt(entries, f, first, v) => EndAt(longer, f, first, v)
    BY <1>2, <1>4 DEF EndAt, mine
  <1>7. QED
    BY <1>5, <1>6 DEF Spares, longer

(* An entry of f: the trail ends where it says, and joins up if it is      *)
(* loose or starts where the trail ended.                                  *)
LEMMA OwnEntry ==
  ASSUME NEW S, NEW entries \in Seq(S), NEW e \in S, NEW f, e.field = f, NEW first
  PROVE  /\ EndAt(entries \o <<e>>, f, first, e.to)
         /\ JoinUp(entries, f, first) /\ (e.loose \/ EndAt(entries, f, first, e.from))
              => JoinUp(entries \o <<e>>, f, first)
  <1> DEFINE longer == entries \o <<e>>
             mine == EntriesOf(entries, f)
             n == Len(entries) + 1
  <1>1. /\ longer \in Seq(S) /\ Len(longer) = n
        /\ longer[n] = e /\ Extends(longer, entries)
    BY OneMore
  <1> HIDE DEF longer
  <1>2. EntriesOf(longer, f) = mine \cup {n} /\ mine \in SUBSET (1..Len(entries))
    BY <1>1, LenProperties DEF EntriesOf, Extends
  <1>3. n \in Nat /\ \A i \in mine : i \in Nat /\ i < n /\ longer[i] = entries[i]
    BY <1>1, <1>2, LenProperties DEF Extends
  <1> HIDE DEF mine, n
  <1>4. EndAt(longer, f, first, e.to)
    <2>1. \A i \in mine \cup {n} : n <= i => i = n
      BY <1>3
    <2>2. \A i \in mine \cup {n} :
            (\A j \in mine \cup {n} : j <= i) => e.to = longer[i].to
      BY <1>1, <2>1
    <2>3. QED
      BY <1>2, <2>2 DEF EndAt, Leave
  <1>5. \A some \in SUBSET mine : \A v :
          Leave(longer, some, first, v) <=> Leave(entries, some, first, v)
    BY <1>1, <1>2, LeaveKept
  <1>6. {j \in mine \cup {n} : j < n} = mine
    <2>1. ~(n < n)
      BY <1>3
    <2>2. QED
      BY <1>3, <2>1
  <1>7. \A i \in mine : /\ {j \in mine \cup {n} : j < i} = {j \in mine : j < i}
                        /\ {j \in mine : j < i} \in SUBSET mine
    <2>1. \A i \in mine : ~(n < i)
      BY <1>3
    <2>2. QED
      BY <2>1
  <1>8. ASSUME JoinUp(entries, f, first), e.loose \/ EndAt(entries, f, first, e.from)
        PROVE  JoinUp(longer, f, first)
    <2>1. ASSUME NEW i \in mine
          PROVE  longer[i].loose
                   \/ Leave(longer, {j \in mine \cup {n} : j < i}, first, longer[i].from)
      <3>1. entries[i].loose \/ Leave(entries, {j \in mine : j < i}, first, entries[i].from)
        BY <1>8 DEF JoinUp, mine
      <3>2. QED
        BY <1>3, <1>5, <1>7, <3>1
    <2>2. longer[n].loose
             \/ Leave(longer, {j \in mine \cup {n} : j < n}, first, longer[n].from)
      BY <1>1, <1>5, <1>6, <1>8 DEF EndAt, mine
    <2>3. QED
      BY <1>2, <2>1, <2>2 DEF JoinUp
  <1>9. QED
    BY <1>4, <1>8 DEF longer

(* The oldest entry goes, and what it left is where the rest starts from.  *)
LEMMA OldestGoes ==
  ASSUME NEW S, NEW entries \in Seq(S), entries # <<>>, NEW f, NEW first
  PROVE  LET from == IF Head(entries).field = f THEN Head(entries).to ELSE first
         IN  /\ JoinUp(entries, f, first) => JoinUp(Tail(entries), f, from)
             /\ \A value : EndAt(entries, f, first, value)
                              => EndAt(Tail(entries), f, from, value)
  <1> DEFINE from == IF Head(entries).field = f THEN Head(entries).to ELSE first
             rest == Tail(entries)
             mine == EntriesOf(entries, f)
             left == EntriesOf(rest, f)
  <1>1. /\ Len(entries) \in Nat /\ Len(entries) >= 1 /\ Head(entries) = entries[1]
        /\ rest \in Seq(S) /\ Len(rest) = Len(entries) - 1
        /\ \A i \in 1..Len(rest) : rest[i] = entries[i + 1]
    BY HeadTailProperties, LenProperties, EmptySeq
  <1>2. from = IF 1 \in mine THEN entries[1].to ELSE first
    BY <1>1, LenProperties DEF EntriesOf
  <1> HIDE DEF from, rest
  <1>3. /\ mine \subseteq 1..Len(entries) /\ left \subseteq 1..Len(rest)
        /\ \A i \in 1..Len(rest) : i \in left <=> i + 1 \in mine
    BY <1>1, LenProperties DEF EntriesOf
  <1>4. /\ \A i \in mine : i \in Int /\ i >= 1 /\ i <= Len(entries)
        /\ \A i \in left : /\ i \in Int /\ i >= 1 /\ i + 1 \in mine
                           /\ rest[i] = entries[i + 1]
        /\ \A i \in mine : i # 1 => i - 1 \in left
    BY <1>1, <1>3
  <1> HIDE DEF mine, left
  <1>5. ASSUME NEW k \in Int, k >= 1, NEW value,
               Leave(entries, {j \in mine : j < k + 1}, first, value)
        PROVE  Leave(rest, {j \in left : j < k}, from, value)
    <2> DEFINE some == {j \in mine : j < k + 1}
               few == {j \in left : j < k}
    <2>1. \A j \in few : j + 1 \in some
      BY <1>4, <1>5
    <2>2. \A j \in some : j # 1 => j - 1 \in few
      BY <1>4, <1>5
    <2>3. ASSUME few = {} PROVE value = from
      <3>1. \A j \in some : j = 1
        BY <2>2, <2>3
      <3>2. CASE 1 \in mine
        <4>1. 1 \in some
          BY <1>5, <3>2
        <4>2. \A j \in some : j <= 1
          BY <3>1
        <4>3. QED
          BY <1>2, <1>5, <3>2, <4>1, <4>2 DEF Leave
      <3>3. CASE 1 \notin mine
        <4>1. some = {}
          BY <3>1, <3>3
        <4>2. QED
          BY <1>2, <1>5, <3>3, <4>1 DEF Leave
      <3>4. QED
        BY <3>2, <3>3
    <2>4. ASSUME NEW i \in few, \A j \in few : j <= i
          PROVE  value = rest[i].to
      <3>1. i + 1 \in some /\ i \in Int /\ i >= 1 /\ rest[i] = entries[i + 1]
        BY <1>4, <2>1, <2>4
      <3>2. ASSUME NEW j \in some PROVE j <= i + 1
        <4>1. j \in Int
          BY <1>4
        <4>2. CASE j = 1
          BY <3>1, <4>2
        <4>3. CASE j # 1
          BY <2>2, <2>4, <3>1, <4>1, <4>3
        <4>4. QED
          BY <4>2, <4>3
      <3>3. QED
        BY <1>5, <3>1, <3>2 DEF Leave
    <2>5. QED
      BY <2>3, <2>4 DEF Leave
  <1>6. ASSUME JoinUp(entries, f, first) PROVE JoinUp(rest, f, from)
    <2>1. ASSUME NEW i \in left
          PROVE  rest[i].loose \/ Leave(rest, {j \in left : j < i}, from, rest[i].from)
      <3>1. i + 1 \in mine /\ i \in Int /\ i >= 1 /\ rest[i] = entries[i + 1]
        BY <1>4
      <3>2. entries[i + 1].loose
              \/ Leave(entries, {j \in mine : j < i + 1}, first, entries[i + 1].from)
        BY <1>6, <3>1 DEF JoinUp, mine
      <3>3. QED
        BY <1>5, <3>1, <3>2
    <2>2. QED
      BY <2>1 DEF JoinUp, left
  <1>7. ASSUME NEW value, EndAt(entries, f, first, value)
        PROVE  EndAt(rest, f, from, value)
    <2>1. Len(entries) \in Int /\ Len(entries) >= 1
      BY <1>1
    <2>2. {j \in mine : j < Len(entries) + 1} = mine
      BY <1>4, <2>1
    <2>3. \A j \in left : j < Len(entries)
      BY <1>1, <1>3 DEF mine, left
    <2>4. {j \in left : j < Len(entries)} = left
      BY <2>3
    <2>5. Leave(rest, {j \in left : j < Len(entries)}, from, value)
      BY <1>5, <1>7, <2>1, <2>2 DEF EndAt, mine
    <2>6. QED
      BY <2>4, <2>5 DEF EndAt, left
  <1>8. QED
    BY <1>6, <1>7 DEF from, rest

(* The difference of two readings in one field is appended.                *)
Tells(entries, longer, f, before, after, loose, first) ==
    /\ before[f] # after[f] => EndAt(longer, f, first, after[f])
    /\ before[f] = after[f] => \A value : EndAt(entries, f, first, value)
                                            => EndAt(longer, f, first, value)
    /\ (/\ JoinUp(entries, f, first)
        /\ before[f] = after[f] \/ f \in loose \/ EndAt(entries, f, first, before[f]))
       => JoinUp(longer, f, first)

Moved(f, before, after, loose) ==
    [field |-> f, from |-> before[f], to |-> after[f], loose |-> f \in loose]

LEMMA OneField ==
  ASSUME NEW S, NEW entries \in Seq(S), NEW f, NEW before, NEW after, NEW loose,
         Moved(f, before, after, loose) \in S
  PROVE  LET longer == entries \o diffToEntries(before, after, f, loose)
         IN  /\ longer \in Seq(S)
             /\ \A first : Tells(entries, longer, f, before, after, loose, first)
             /\ \A g, first : g # f => Spares(entries, longer, g, first)
  <1> DEFINE longer == entries \o diffToEntries(before, after, f, loose)
             e == Moved(f, before, after, loose)
  <1>1. CASE before[f] = after[f]
    <2>1. longer = entries
      BY <1>1, ConcatEmptySeq DEF diffToEntries
    <2> HIDE DEF longer
    <2>2. \A first : Tells(entries, entries, f, before, after, loose, first)
      BY <1>1, Zenon DEF Tells
    <2>3. \A g, first : Spares(entries, entries, g, first)
      BY Zenon DEF Spares
    <2>4. QED
      BY <2>1, <2>2, <2>3 DEF longer
  <1>2. CASE before[f] # after[f]
    <2>1. longer = entries \o <<e>>
      BY <1>2 DEF diffToEntries, Moved
    <2>2. /\ e.field = f /\ e.to = after[f] /\ e.from = before[f]
          /\ e.loose = (f \in loose) /\ e \in S
      BY DEF Moved
    <2> HIDE DEF e, longer
    <2>3. longer \in Seq(S)
      BY <2>1, <2>2, OneMore
    <2>4. ASSUME NEW first
          PROVE  Tells(entries, longer, f, before, after, loose, first)
      <3>1. EndAt(longer, f, first, after[f])
        BY <2>1, <2>2, OwnEntry
      <3>2. JoinUp(entries, f, first) /\ (f \in loose \/ EndAt(entries, f, first, before[f]))
              => JoinUp(longer, f, first)
        BY <2>1, <2>2, OwnEntry
      <3>3. QED
        BY <1>2, <3>1, <3>2, Zenon DEF Tells
    <2>5. ASSUME NEW g, NEW first, g # f
          PROVE  Spares(entries, longer, g, first)
      BY <2>1, <2>2, <2>5, OtherEntry
    <2>6. QED
      BY <2>3, <2>4, <2>5 DEF longer
  <1>3. QED
    BY <1>1, <1>2

LEMMA SparesThenTells ==
  ASSUME NEW one, NEW two, NEW three, NEW f, NEW before, NEW after, NEW loose, NEW first,
         \/ /\ Spares(one, two, f, first)
            /\ Tells(two, three, f, before, after, loose, first)
         \/ /\ Tells(one, two, f, before, after, loose, first)
            /\ Spares(two, three, f, first)
  PROVE  Tells(one, three, f, before, after, loose, first)
  <1>1. CASE /\ Spares(one, two, f, first)
             /\ Tells(two, three, f, before, after, loose, first)
    BY <1>1, Zenon DEF Spares, Tells
  <1>2. CASE /\ Tells(one, two, f, before, after, loose, first)
             /\ Spares(two, three, f, first)
    BY <1>2, Zenon DEF Spares, Tells
  <1>3. QED
    BY <1>1, <1>2

LEMMA DiffTyped ==
  ASSUME NEW S, NEW f, NEW before, NEW after, NEW loose,
         Moved(f, before, after, loose) \in S
  PROVE  diffToEntries(before, after, f, loose) \in Seq(S)
  BY DEF diffToEntries, Moved

-----------------------------------------------------------------------------
(* The accounts' trail.                                                    *)

TrailTyped ==
    /\ adminTrail \in [Accounts -> Seq(Entry)]
    /\ adminBase \in [Accounts -> AdminUserFields]

(* A field of an account, its trail, and the edits that are written and    *)
(* not yet recorded.                                                       *)
EditTold(u, f) ==
    /\ JoinUp(adminTrail[u], f, adminBase[u][f])
    /\ \A r \in UserRequests : Recording(r, u) =>
         \/ <<u, f>> \in overlapped
         \/ /\ req[r].alone
            /\ EndAt(adminTrail[u], f, adminBase[u][f], req[r].before[f])
    /\ \A r \in UserRequests : Recording(r, u) /\ req[r].alone =>
         /\ account[u][f] = req[r].asked[f]
         /\ \A o \in UserRequests : Recording(o, u) => o = r
    /\ \/ <<u, f>> \in overlapped
       \/ \E r \in UserRequests : Recording(r, u)
       \/ EndAt(adminTrail[u], f, adminBase[u][f], account[u][f])

EditsInv == \A u \in Accounts, f \in USER_FIELDS : EditTold(u, f)

LEMMA EditsTell ==
  ASSUME EditsInv
  PROVE  EditsAreRecorded
  BY DEF EditsInv, EditTold, EditsAreRecorded

LEMMA EditsStart == Init => TrailTyped /\ EditsInv
  <1> SUFFICES ASSUME Init PROVE TrailTyped /\ EditsInv
    OBVIOUS
  <1>1. /\ adminTrail = [u \in Accounts |-> <<>>]
        /\ adminBase = [u \in Accounts |-> [name |-> NameOf[u], role |-> FirstRole(u)]]
        /\ \A r \in UserRequests : req[r].step = "idle"
        /\ \A u \in Accounts, f \in USER_FIELDS : account[u][f] = adminBase[u][f]
    BY DEF Init, RosterInit, NoReq, USER_FIELDS
  <1>2. TrailTyped
    <2>1. \A u \in Accounts : NameOf[u] \in Names /\ FirstRole(u) \in USER_ROLE
      BY RosterAssumption DEF FirstRole, USER_ROLE
    <2>2. QED
      BY <1>1, <2>1 DEF TrailTyped, AdminUserFields
  <1>3. \A f, first : JoinUp(<<>>, f, first) /\ EndAt(<<>>, f, first, first)
    BY DEF JoinUp, EndAt, Leave, EntriesOf
  <1>4. ASSUME NEW u \in Accounts, NEW f \in USER_FIELDS
        PROVE  EditTold(u, f)
    <2>1. adminTrail[u] = <<>> /\ \A r \in UserRequests : ~Recording(r, u)
      BY <1>1 DEF Recording
    <2>2. QED
      BY <1>1, <1>3, <2>1 DEF EditTold
  <1>5. QED
    BY <1>2, <1>4 DEF EditsInv

(* A field no edit of which is written or recorded by the step.            *)
LEMMA EditKept ==
  ASSUME NEW u, NEW f, EditTold(u, f), account'[u][f] = account[u][f],
         JoinUp(adminTrail[u], f, adminBase[u][f])
            => JoinUp(adminTrail'[u], f, adminBase'[u][f]),
         \A value : EndAt(adminTrail[u], f, adminBase[u][f], value)
                       => EndAt(adminTrail'[u], f, adminBase'[u][f], value),
         <<u, f>> \in overlapped => <<u, f>> \in overlapped',
         \A r \in UserRequests :
            \/ ~Recording(r, u) /\ ~(Recording(r, u))'
            \/ req'[r] = req[r]
  PROVE  EditTold(u, f)'
  <1>1. \A r \in UserRequests :
          /\ (Recording(r, u))' <=> Recording(r, u)
          /\ Recording(r, u) => req'[r] = req[r]
    BY DEF Recording
  <1>2. QED
    BY <1>1, Zenon DEF EditTold

(* Steps of one request that neither writes nor records an edit.           *)
LEMMA OtherRequests ==
  ASSUME EditsInv, overlapped' = overlapped, adminBase' = adminBase,
         NEW r \in UserRequests,
         \A s \in UserRequests : s # r => req'[s] = req[s],
         req[r].step # "record", req'[r].step # "record",
         \A u \in Accounts, f \in USER_FIELDS : account'[u][f] = account[u][f],
         \A u \in Accounts, f \in USER_FIELDS :
            Spares(adminTrail[u], adminTrail'[u], f, adminBase[u][f])
  PROVE  EditsInv'
  <1>1. \A u \in Accounts : \A s \in UserRequests :
            \/ ~Recording(s, u) /\ ~(Recording(s, u))'
            \/ req'[s] = req[s]
    BY DEF Recording
  <1>2. ASSUME NEW u \in Accounts, NEW f \in USER_FIELDS
        PROVE  EditTold(u, f)'
    <2>1. EditTold(u, f) /\ Spares(adminTrail[u], adminTrail'[u], f, adminBase[u][f])
      BY DEF EditsInv
    <2>2. QED
      BY <1>1, <2>1, EditKept DEF Spares
  <1>3. QED
    BY <1>2 DEF EditsInv

LEMMA SameSpares == \A entries, f, first : Spares(entries, entries, f, first)
  BY Zenon DEF Spares

LEMMA AnswerMoves ==
  ASSUME RosterInv, NEW r \in UserRequests, Answer(r)
  PROVE  /\ \A s \in UserRequests : s # r => req'[s] = req[s]
         /\ req'[r].step = "idle"
  BY DEF Answer, RosterInv, NoReq

LEMMA GoOnMoves ==
  ASSUME RosterInv, NEW r \in UserRequests, NEW step, GoOn(r, step)
  PROVE  /\ \A s \in UserRequests : s # r => req'[s] = req[s]
         /\ req'[r].step = step
  BY DEF GoOn, RosterInv, Req

LEMMA WriteEditTold ==
  ASSUME RosterInv, EditsInv, NEW r \in UserRequests, WriteEdit(r)
  PROVE  EditsInv'
  <1>1. /\ UNCHANGED <<adminTrail, adminBase>> /\ req[r].step = "write"
        /\ account \in [Accounts -> Account]
    BY DEF WriteEdit, RosterInv, AccountsType
  <1>2. CASE ~requireAdmin(req[r].by)
    <2>1. account' = account /\ overlapped' = overlapped /\ Answer(r)
      BY <1>2 DEF WriteEdit
    <2>2. QED
      BY <1>1, <2>1, AnswerMoves, SameSpares, OtherRequests
  <1>3. CASE requireAdmin(req[r].by)
    <2>1. PICK t \in Accounts : t = req[r].target
      BY DEF WriteEdit, RosterInv, RequestSound
    <2> DEFINE others == {o \in UserRequests \ {r} : Recording(o, t)}
               alone == req[r].before = Reading(t) /\ others = {}
    <2>2. /\ account' = [account EXCEPT ![t] = [@ EXCEPT !.name = req[r].asked.name,
                                                        !.role = req[r].asked.role]]
          /\ req[r].asked \in AdminUserFields
      BY <1>3, <2>1, Edited
    <2>3. /\ overlapped' = IF alone THEN overlapped
                           ELSE overlapped \cup ({t} \X USER_FIELDS)
          /\ req' = [o \in UserRequests |->
                       IF o = r THEN [req[r] EXCEPT !.step = "record", !.alone = alone]
                       ELSE IF o \in others THEN [req[o] EXCEPT !.alone = FALSE]
                       ELSE req[o]]
      BY <1>3, <2>1 DEF WriteEdit
    <2>4. /\ req \in [UserRequests -> Req]
          /\ \A o \in UserRequests : o \in others <=> o # r /\ Recording(o, t)
      BY DEF RosterInv
    <2>5. alone => others = {} /\ req[r].before = Reading(t)
      OBVIOUS
    <2> HIDE DEF others, alone
    <2>6. /\ req'[r].step = "record" /\ req'[r].target = t
          /\ req'[r].asked = req[r].asked /\ req'[r].before = req[r].before
          /\ req'[r].alone <=> alone
      BY <2>1, <2>3, <2>4 DEF Req
    <2>7. \A o \in UserRequests \ {r} :
            /\ o \in others => /\ req'[o].target = t
                              /\ ~req'[o].alone
            /\ o \notin others => req'[o] = req[o]
      BY <2>3, <2>4 DEF Req, Recording
    <2>8. ASSUME NEW u \in Accounts, u # t, NEW f \in USER_FIELDS
          PROVE  EditTold(u, f)'
      <3>1. account'[u] = account[u] /\ (<<u, f>> \in overlapped => <<u, f>> \in overlapped')
        BY <1>1, <2>2, <2>3, <2>8
      <3>2. \A o \in UserRequests : \/ ~Recording(o, u) /\ ~(Recording(o, u))'
                                    \/ req'[o] = req[o]
        BY <1>1, <2>4, <2>6, <2>7, <2>8 DEF Recording
      <3>3. EditTold(u, f)
        BY DEF EditsInv
      <3>4. QED
        BY <1>1, <3>1, <3>2, <3>3, EditKept
    <2>9. ASSUME NEW f \in USER_FIELDS
          PROVE  EditTold(t, f)'
      <3>1. EditTold(t, f)
        BY DEF EditsInv
      <3>2. (Recording(r, t))'
        BY <2>6 DEF Recording
      <3>3. CASE alone
        <4>1. \A o \in UserRequests : ~Recording(o, t)
          BY <1>1, <2>4, <2>5, <3>3 DEF Recording
        <4>2. req[r].before[f] = account[t][f]
          BY <2>5, <3>3 DEF Reading, USER_FIELDS
        <4>3. \/ <<t, f>> \in overlapped
              \/ EndAt(adminTrail[t], f, adminBase[t][f], req[r].before[f])
          BY <3>1, <4>1, <4>2 DEF EditTold
        <4>4. \A o \in UserRequests : (Recording(o, t))' => o = r
          BY <2>5, <2>7, <3>3, <4>1 DEF Recording
        <4>5. account'[t][f] = req[r].asked[f]
          BY <1>1, <2>2 DEF Account, AdminUserFields, USER_FIELDS
        <4>6. overlapped' = overlapped
          BY <2>3, <3>3
        <4>7. QED
          BY <1>1, <2>6, <3>1, <3>2, <3>3, <4>3, <4>4, <4>5, <4>6 DEF EditTold
      <3>4. CASE ~alone
        <4>1. <<t, f>> \in overlapped'
          BY <2>3, <3>4
        <4>2. \A o \in UserRequests : (Recording(o, t))' => ~req'[o].alone
          BY <2>4, <2>6, <2>7, <3>4 DEF Recording
        <4>3. JoinUp(adminTrail'[t], f, adminBase'[t][f])
          BY <1>1, <3>1 DEF EditTold
        <4>4. QED
          BY <4>1, <4>2, <4>3, Zenon DEF EditTold
      <3>5. QED
        BY <3>3, <3>4
    <2>10. QED
      BY <2>8, <2>9 DEF EditsInv
  <1>4. QED
    BY <1>2, <1>3

(* What an edit moved is appended, field by field.                         *)
LEMMA EditTells ==
  ASSUME NEW entries \in Seq(Entry), NEW before \in AdminUserFields,
         NEW after \in AdminUserFields, NEW loose
  PROVE  LET longer == entries \o userEditChanges(before, after, loose)
         IN  /\ longer \in Seq(Entry)
             /\ \A f \in USER_FIELDS : \A first :
                  Tells(entries, longer, f, before, after, loose, first)
  <1> DEFINE names == diffToEntries(before, after, "name", loose)
             roles == diffToEntries(before, after, "role", loose)
             two == entries \o names
             three == two \o roles
  <1>1. /\ Moved("name", before, after, loose) \in Entry
        /\ Moved("role", before, after, loose) \in Entry
    BY DEF Moved, Entry, AdminUserFields
  <1>2. names \in Seq(Entry) /\ roles \in Seq(Entry)
    BY <1>1, DiffTyped
  <1>3. /\ two \in Seq(Entry)
        /\ \A first : Tells(entries, two, "name", before, after, loose, first)
        /\ \A first : Spares(entries, two, "role", first)
    BY <1>1, OneField
  <1> HIDE DEF names, two
  <1>4. /\ three \in Seq(Entry)
        /\ \A first : Tells(two, three, "role", before, after, loose, first)
        /\ \A first : Spares(two, three, "name", first)
    BY <1>1, <1>3, OneField
  <1> HIDE DEF roles, three
  <1>5. /\ \A first : Tells(entries, three, "name", before, after, loose, first)
        /\ \A first : Tells(entries, three, "role", before, after, loose, first)
    BY <1>3, <1>4, SparesThenTells
  <1>6. three = entries \o userEditChanges(before, after, loose)
    BY <1>2, ConcatAssociative DEF two, three, names, roles, userEditChanges
  <1>7. QED
    BY <1>4, <1>5, <1>6 DEF USER_FIELDS

LEMMA RecordEditTold ==
  ASSUME RosterInv, TrailTyped, EditsInv, NEW r \in UserRequests, RecordEdit(r)
  PROVE  TrailTyped' /\ EditsInv'
  <1>1. PICK t \in Accounts, asked \in AdminUserFields, before \in AdminUserFields :
          /\ t = req[r].target /\ asked = req[r].asked /\ before = req[r].before
          /\ Recording(r, t)
    BY DEF RecordEdit, RosterInv, RequestSound, Recording
  <1>2. PICK behind : behind = {f \in USER_FIELDS : <<t, f>> \in overlapped}
    OBVIOUS
  <1>3. PICK es \in Seq(Entry) : es = adminTrail[t]
    BY DEF TrailTyped
  <1>4. PICK longer : longer = es \o userEditChanges(before, asked, behind)
    OBVIOUS
  <1>5. /\ adminTrail' = [adminTrail EXCEPT ![t] = longer]
        /\ UNCHANGED <<account, adminBase>> /\ Answer(r)
        /\ overlapped' = IF req[r].alone THEN overlapped \ ({t} \X MovedFields(req[r]))
                         ELSE overlapped
    BY <1>1, <1>2, <1>3, <1>4 DEF RecordEdit, Records, accountVars
  <1>6. /\ longer \in Seq(Entry)
        /\ \A f \in USER_FIELDS : \A first :
              Tells(es, longer, f, before, asked, behind, first)
    BY <1>4, EditTells
  <1>7. /\ \A s \in UserRequests : s # r => req'[s] = req[s]
        /\ req'[r].step = "idle"
    BY <1>5, AnswerMoves
  <1>8. TrailTyped'
    BY <1>5, <1>6 DEF TrailTyped
  <1>9. ASSUME NEW u \in Accounts, u # t, NEW f \in USER_FIELDS
        PROVE  EditTold(u, f)'
    <2>1. \A s \in UserRequests : \/ ~Recording(s, u) /\ ~(Recording(s, u))'
                                  \/ req'[s] = req[s]
      BY <1>1, <1>7, <1>9 DEF Recording
    <2>2. /\ adminTrail'[u] = adminTrail[u]
          /\ <<u, f>> \in overlapped => <<u, f>> \in overlapped'
      BY <1>5, <1>9 DEF TrailTyped
    <2>3. EditTold(u, f)
      BY DEF EditsInv
    <2>4. QED
      BY <1>5, <2>1, <2>2, <2>3, EditKept
  <1>10. ASSUME NEW f \in USER_FIELDS
         PROVE  EditTold(t, f)'
    <2>1. /\ EditTold(t, f) /\ (f \in behind <=> <<t, f>> \in overlapped)
          /\ f \in MovedFields(req[r]) <=> before[f] # asked[f]
      BY <1>1, <1>2 DEF EditsInv, MovedFields
    <2>2. adminTrail'[t] = longer
      BY <1>5 DEF TrailTyped
    <2>3. Tells(es, longer, f, before, asked, behind, adminBase[t][f])
      BY <1>6
    <2>4. \/ f \in behind
          \/ EndAt(es, f, adminBase[t][f], before[f])
      BY <1>1, <1>3, <2>1 DEF EditTold
    <2>5. JoinUp(longer, f, adminBase[t][f])
      <3>1. JoinUp(es, f, adminBase[t][f])
        BY <1>3, <2>1 DEF EditTold
      <3>2. QED
        BY <2>3, <2>4, <3>1, Zenon DEF Tells
    <2>6. CASE req[r].alone
      <3>1. account[t][f] = asked[f] /\ \A o \in UserRequests : Recording(o, t) => o = r
        BY <1>1, <2>1, <2>6 DEF EditTold
      <3>2. \A o \in UserRequests : ~(Recording(o, t))'
        BY <1>7, <3>1 DEF Recording
      <3>3. <<t, f>> \in overlapped' \/ EndAt(longer, f, adminBase[t][f], asked[f])
        <4>1. CASE before[f] # asked[f]
          BY <2>3, <4>1, Zenon DEF Tells
        <4>2. CASE before[f] = asked[f] /\ f \in behind
          BY <1>5, <2>1, <2>6, <4>2
        <4>3. CASE before[f] = asked[f] /\ f \notin behind
          BY <2>3, <2>4, <4>3, Zenon DEF Tells
        <4>4. QED
          BY <4>1, <4>2, <4>3
      <3>4. QED
        BY <1>5, <2>2, <2>5, <3>1, <3>2, <3>3 DEF EditTold
    <2>7. CASE ~req[r].alone
      <3>1. <<t, f>> \in overlapped'
        BY <1>1, <1>5, <2>1, <2>7 DEF EditTold
      <3>2. \A o \in UserRequests : (Recording(o, t))' => Recording(o, t) /\ req'[o] = req[o]
        BY <1>7 DEF Recording
      <3>3. \A o \in UserRequests : (Recording(o, t))' => ~req'[o].alone
        BY <1>1, <2>1, <2>7, <3>2 DEF EditTold
      <3>4. JoinUp(adminTrail'[t], f, adminBase'[t][f])
        BY <1>5, <2>2, <2>5
      <3>5. QED
        BY <3>1, <3>3, <3>4, Zenon DEF EditTold
    <2>8. QED
      BY <2>6, <2>7
  <1>11. QED
    BY <1>8, <1>9, <1>10 DEF EditsInv

LEMMA Pair ==
  ASSUME NEW S, NEW a \in S, NEW b \in S
  PROVE  <<a>> \o <<b>> = <<a, b>>
  <1>1. /\ <<a>> \in Seq(S) /\ <<b>> \in Seq(S) /\ <<a, b>> \in Seq(S)
        /\ Len(<<a>>) = 1 /\ Len(<<b>>) = 1 /\ Len(<<a, b>>) = 2
        /\ <<a>>[1] = a /\ <<b>>[1] = b /\ <<a, b>>[1] = a /\ <<a, b>>[2] = b
    OBVIOUS
  <1>2. PICK both : both = <<a>> \o <<b>>
    OBVIOUS
  <1>3. /\ both \in Seq(S) /\ Len(both) = 2
        /\ \A i \in 1..2 : both[i] = IF i <= 1 THEN <<a>>[i] ELSE <<b>>[i - 1]
    BY <1>1, <1>2, ConcatProperties
  <1>4. \A i \in 1..2 : both[i] = <<a, b>>[i]
    BY <1>1, <1>3
  <1>5. QED
    BY <1>1, <1>2, <1>3, <1>4, SeqEqual

(* A record of something else than a field.                                *)
LEMMA ToldOtherwise ==
  ASSUME TrailTyped, NEW t \in Accounts, adminBase' = adminBase,
         \/ Records(t, <<Told("user_deleted")>>)
         \/ Records(t, <<Told("user_created"), Told("user_invited")>>)
  PROVE  /\ TrailTyped'
         /\ \A u \in Accounts, f \in USER_FIELDS :
              Spares(adminTrail[u], adminTrail'[u], f, adminBase[u][f])
  <1>1. \A action \in {"user_created", "user_invited", "user_deleted"} :
          Told(action) \in Entry /\ Told(action).field \notin USER_FIELDS
    BY DEF Told, Entry, USER_FIELDS
  <1>2. PICK es \in Seq(Entry) : es = adminTrail[t]
    BY DEF TrailTyped
  <1>3. ASSUME NEW more \in Seq(Entry), adminTrail' = [adminTrail EXCEPT ![t] = more],
               \A f \in USER_FIELDS : \A first : Spares(es, more, f, first)
        PROVE  /\ TrailTyped'
               /\ \A u \in Accounts, f \in USER_FIELDS :
                    Spares(adminTrail[u], adminTrail'[u], f, adminBase[u][f])
    <2>1. /\ adminTrail'[t] = more
          /\ \A u \in Accounts : u # t => adminTrail'[u] = adminTrail[u]
      BY <1>3 DEF TrailTyped
    <2>2. TrailTyped'
      BY <1>3 DEF TrailTyped
    <2>3. QED
      BY <1>2, <1>3, <2>1, <2>2, SameSpares
  <1>4. CASE Records(t, <<Told("user_deleted")>>)
    <2>1. PICK e \in Entry : e = Told("user_deleted") /\ e.field \notin USER_FIELDS
      BY <1>1
    <2>2. PICK more \in Seq(Entry) : more = es \o <<e>>
      BY OneMore
    <2>3. \A f \in USER_FIELDS : \A first : Spares(es, more, f, first)
      BY <2>1, <2>2, OtherEntry
    <2>4. adminTrail' = [adminTrail EXCEPT ![t] = more]
      BY <1>2, <1>4, <2>1, <2>2 DEF Records
    <2>5. QED
      BY <1>3, <2>3, <2>4
  <1>5. CASE Records(t, <<Told("user_created"), Told("user_invited")>>)
    <2>1. PICK a \in Entry, b \in Entry :
            /\ a = Told("user_created") /\ a.field \notin USER_FIELDS
            /\ b = Told("user_invited") /\ b.field \notin USER_FIELDS
      BY <1>1
    <2>2. PICK one \in Seq(Entry) : one = es \o <<a>>
      BY OneMore
    <2>3. PICK two \in Seq(Entry) : two = one \o <<b>>
      BY OneMore
    <2>4. \A f \in USER_FIELDS : \A first : Spares(es, one, f, first)
      BY <2>1, <2>2, OtherEntry
    <2>5. \A f \in USER_FIELDS : \A first : Spares(one, two, f, first)
      BY <2>1, <2>3, OtherEntry
    <2>6. \A f \in USER_FIELDS : \A first : Spares(es, two, f, first)
      BY <2>4, <2>5, Zenon DEF Spares
    <2>7. two = es \o <<a, b>>
      <3>1. <<a>> \in Seq(Entry) /\ <<b>> \in Seq(Entry)
        OBVIOUS
      <3>2. <<a>> \o <<b>> = <<a, b>>
        BY Pair
      <3>3. QED
        BY <2>2, <2>3, <3>1, <3>2, ConcatAssociative
    <2>8. adminTrail' = [adminTrail EXCEPT ![t] = two]
      BY <1>2, <1>5, <2>1, <2>7 DEF Records
    <2>9. QED
      BY <1>3, <2>6, <2>8
  <1>6. QED
    BY <1>4, <1>5

LEMMA PruneKeeps ==
  ASSUME TrailTyped, EditsInv, NEW t \in Accounts, PruneAdminActivity(t)
  PROVE  TrailTyped' /\ EditsInv'
  <1>1. PICK es \in Seq(Entry) : es = adminTrail[t] /\ es # <<>>
    BY DEF PruneAdminActivity, TrailTyped
  <1>2. PICK e \in Entry : e = Head(es)
    BY <1>1, HeadTailProperties
  <1>3. /\ adminTrail' = [adminTrail EXCEPT ![t] = Tail(es)]
        /\ adminBase' = IF e.field \in USER_FIELDS
                        THEN [adminBase EXCEPT ![t][e.field] = e.to] ELSE adminBase
        /\ UNCHANGED <<account, req, overlapped>>
    BY <1>1, <1>2 DEF PruneAdminActivity, accountVars
  <1>4. TrailTyped'
    <2>1. Tail(es) \in Seq(Entry)
      BY <1>1, HeadTailProperties
    <2>2. /\ e.field = "name" => e.to \in Names
          /\ e.field = "role" => e.to \in USER_ROLE
      BY DEF Entry
    <2>3. adminBase' \in [Accounts -> AdminUserFields]
      BY <1>3, <2>2 DEF TrailTyped, AdminUserFields, USER_FIELDS
    <2>4. QED
      BY <1>3, <2>1, <2>3 DEF TrailTyped
  <1>5. ASSUME NEW u \in Accounts, NEW f \in USER_FIELDS
        PROVE  /\ JoinUp(adminTrail[u], f, adminBase[u][f])
                    => JoinUp(adminTrail'[u], f, adminBase'[u][f])
               /\ \A value : EndAt(adminTrail[u], f, adminBase[u][f], value)
                               => EndAt(adminTrail'[u], f, adminBase'[u][f], value)
    <2>1. CASE u # t
      <3>1. adminTrail'[u] = adminTrail[u] /\ adminBase'[u] = adminBase[u]
        BY <1>3, <2>1 DEF TrailTyped
      <3>2. QED
        BY <3>1
    <2>2. CASE u = t
      <3>1. /\ adminTrail'[u] = Tail(es)
            /\ adminBase'[u][f] = IF e.field = f THEN e.to ELSE adminBase[u][f]
        BY <1>3, <2>2 DEF TrailTyped, AdminUserFields, USER_FIELDS
      <3>2. QED
        BY <1>1, <1>2, <2>2, <3>1, OldestGoes
    <2>3. QED
      BY <2>1, <2>2
  <1>6. ASSUME NEW u \in Accounts, NEW f \in USER_FIELDS
        PROVE  EditTold(u, f)'
    <2>1. EditTold(u, f)
      BY DEF EditsInv
    <2>2. QED
      BY <1>3, <1>5, <2>1, EditKept
  <1>7. QED
    BY <1>4, <1>6 DEF EditsInv

(* A request that dies once its edit is written leaves the fields it moved *)
(* behind.                                                                 *)
LEMMA DyingTold ==
  ASSUME RosterInv, TrailTyped, EditsInv, NEW r \in UserRequests, RequestDies(r)
  PROVE  TrailTyped' /\ EditsInv'
  <1>1. /\ UNCHANGED <<account, adminTrail, adminBase>> /\ Answer(r)
        /\ overlapped' = IF req[r].step = "record"
                         THEN overlapped \cup ({req[r].target} \X MovedFields(req[r]))
                         ELSE overlapped
    BY DEF RequestDies, accountVars
  <1>2. /\ \A s \in UserRequests : s # r => req'[s] = req[s]
        /\ req'[r].step = "idle"
    BY <1>1, AnswerMoves
  <1>3. ASSUME NEW u \in Accounts, NEW f \in USER_FIELDS
        PROVE  EditTold(u, f)'
    <2>1. EditTold(u, f) /\ (<<u, f>> \in overlapped => <<u, f>> \in overlapped')
      BY <1>1 DEF EditsInv
    <2>2. CASE ~Recording(r, u)
      <3>1. \A s \in UserRequests : \/ ~Recording(s, u) /\ ~(Recording(s, u))'
                                    \/ req'[s] = req[s]
        BY <1>2, <2>2 DEF Recording
      <3>2. QED
        BY <1>1, <2>1, <3>1, EditKept
    <2>3. CASE Recording(r, u)
      <3>1. \A s \in UserRequests : (Recording(s, u))' =>
               /\ s # r /\ Recording(s, u) /\ req'[s] = req[s]
        BY <1>2 DEF Recording
      <3>2. JoinUp(adminTrail'[u], f, adminBase'[u][f])
        BY <1>1, <2>1 DEF EditTold
      <3>3. CASE req[r].alone
        <4>1. \A s \in UserRequests : ~(Recording(s, u))'
          BY <2>1, <2>3, <3>1, <3>3 DEF EditTold
        <4>2. \/ <<u, f>> \in overlapped
              \/ EndAt(adminTrail[u], f, adminBase[u][f], req[r].before[f])
          BY <2>1, <2>3 DEF EditTold
        <4>3. account[u][f] = req[r].asked[f]
          BY <2>1, <2>3, <3>3 DEF EditTold
        <4>4. req[r].before[f] # req[r].asked[f] => <<u, f>> \in overlapped'
          BY <1>1, <2>3 DEF Recording, MovedFields
        <4>5. QED
          BY <1>1, <2>1, <3>2, <4>1, <4>2, <4>3, <4>4 DEF EditTold
      <3>4. CASE ~req[r].alone
        <4>1. <<u, f>> \in overlapped'
          BY <2>1, <2>3, <3>4 DEF EditTold
        <4>2. \A s \in UserRequests : (Recording(s, u))' => ~req'[s].alone
          BY <2>1, <2>3, <3>1 DEF EditTold
        <4>3. QED
          BY <3>2, <4>1, <4>2, Zenon DEF EditTold
      <3>5. QED
        BY <3>3, <3>4
    <2>4. QED
      BY <2>2, <2>3
  <1>4. QED
    BY <1>1, <1>3 DEF EditsInv, TrailTyped

LEMMA EditsAreKept ==
  RosterInv /\ TrailTyped /\ EditsInv /\ [Next]_vars => TrailTyped' /\ EditsInv'
  <1> SUFFICES ASSUME RosterInv, TrailTyped, EditsInv, [Next]_vars
               PROVE  TrailTyped' /\ EditsInv'
    OBVIOUS
  <1>1. account \in [Accounts -> Account] /\ req \in [UserRequests -> Req]
    BY DEF RosterInv, AccountsType
  <1>2. ASSUME NEW r \in UserRequests, UNCHANGED <<adminTrail, adminBase, overlapped>>,
               \A s \in UserRequests : s # r => req'[s] = req[s],
               req[r].step # "record", req'[r].step # "record",
               \A u \in Accounts, f \in USER_FIELDS : account'[u][f] = account[u][f]
        PROVE  TrailTyped' /\ EditsInv'
    <2>1. TrailTyped'
      BY <1>2 DEF TrailTyped
    <2>2. QED
      BY <1>2, <2>1, SameSpares, OtherRequests
  <1>3. ASSUME NEW r \in UserRequests,
               UNCHANGED <<account, adminTrail, adminBase, overlapped>>,
               req[r].step # "record",
               Answer(r) \/ GoOn(r, "commit")
        PROVE  TrailTyped' /\ EditsInv'
    BY <1>2, <1>3, AnswerMoves, GoOnMoves
  <1>4. ASSUME NEW r \in UserRequests, NEW u \in Accounts, NEW a \in Accounts,
               NEW asked, NEW step \in {"create", "readEdit", "readDelete"},
               LetIn(r, step, u, a, asked)
        PROVE  TrailTyped' /\ EditsInv'
    <2>1. UNCHANGED <<account, adminTrail, adminBase, overlapped>>
      BY <1>4 DEF LetIn, accountVars
    <2>2. req[r].step = "idle"
      BY <1>1, <1>4 DEF LetIn, Takes
    <2>3. PICK q : q = [NoReq EXCEPT !.step = step, !.by = u,
                                     !.target = a, !.asked = asked]
      OBVIOUS
    <2>4. q.step # "record"
      BY <2>3 DEF NoReq
    <2>5. req' = [req EXCEPT ![r] = q]
      BY <1>4, <2>3 DEF LetIn
    <2>6. /\ \A s \in UserRequests : s # r => req'[s] = req[s]
          /\ req'[r].step # "record"
      BY <1>1, <2>4, <2>5
    <2>7. QED
      BY <1>2, <2>1, <2>2, <2>6
  <1>5. ASSUME NEW r \in UserRequests, Create(r)
        PROVE  TrailTyped' /\ EditsInv'
    <2>1. /\ UNCHANGED <<adminTrail, adminBase, overlapped>> /\ req[r].step = "create"
          /\ Answer(r) \/ GoOn(r, "welcome")
      BY <1>5 DEF Create
    <2>2. \A u \in Accounts, f \in USER_FIELDS : account'[u][f] = account[u][f]
      BY <1>1, <1>5 DEF Create, Account, USER_FIELDS
    <2>3. /\ \A s \in UserRequests : s # r => req'[s] = req[s]
          /\ req'[r].step # "record"
      BY <2>1, AnswerMoves, GoOnMoves
    <2>4. QED
      BY <1>2, <2>1, <2>2, <2>3
  <1>6. ASSUME NEW r \in UserRequests, Welcome(r) \/ Delete(r)
        PROVE  TrailTyped' /\ EditsInv'
    <2>1. PICK t \in Accounts : t = req[r].target
      BY <1>6 DEF Welcome, Delete, RosterInv, RequestSound
    <2>2. /\ Answer(r) /\ req[r].step # "record"
          /\ UNCHANGED <<overlapped, adminBase>>
          /\ \/ Records(t, <<Told("user_deleted")>>)
             \/ Records(t, <<Told("user_created"), Told("user_invited")>>)
      BY <1>6, <2>1 DEF Welcome, Delete
    <2>3. \A u \in Accounts, f \in USER_FIELDS : account'[u][f] = account[u][f]
      BY <1>1, <1>6 DEF Welcome, Delete, accountVars, Account, USER_FIELDS
    <2>4. /\ TrailTyped'
          /\ \A u \in Accounts, f \in USER_FIELDS :
               Spares(adminTrail[u], adminTrail'[u], f, adminBase[u][f])
      BY <2>2, ToldOtherwise
    <2>5. /\ \A s \in UserRequests : s # r => req'[s] = req[s]
          /\ req'[r].step # "record"
      BY <2>2, AnswerMoves
    <2>6. QED
      BY <2>2, <2>3, <2>4, <2>5, OtherRequests
  <1>7. ASSUME NEW r \in UserRequests, ReadEdit(r)
        PROVE  TrailTyped' /\ EditsInv'
    <2>1. /\ UNCHANGED <<account, adminTrail, adminBase, overlapped>>
          /\ req[r].step = "readEdit"
      BY <1>7 DEF ReadEdit, accountVars
    <2>2. CASE Answer(r)
      BY <1>3, <2>1, <2>2
    <2>3. ASSUME NEW before,
                 req' = [req EXCEPT ![r].step = "write", ![r].before = before]
          PROVE  TrailTyped' /\ EditsInv'
      <3>1. /\ \A s \in UserRequests : s # r => req'[s] = req[s]
            /\ req'[r].step # "record"
        BY <1>1, <2>3 DEF Req
      <3>2. QED
        BY <1>2, <2>1, <3>1
    <2>4. QED
      BY <1>7, <2>2, <2>3 DEF ReadEdit
  <1>8. ASSUME NEW r \in UserRequests, ReadDelete(r)
        PROVE  TrailTyped' /\ EditsInv'
    <2>1. /\ UNCHANGED <<account, adminTrail, adminBase, overlapped>>
          /\ req[r].step = "readDelete"
      BY <1>8 DEF ReadDelete, accountVars
    <2>2. CASE Answer(r)
      BY <1>3, <2>1, <2>2
    <2>3. ASSUME NEW before,
                 req' = [req EXCEPT ![r].step = "orphans", ![r].before = before]
          PROVE  TrailTyped' /\ EditsInv'
      <3>1. /\ \A s \in UserRequests : s # r => req'[s] = req[s]
            /\ req'[r].step # "record"
        BY <1>1, <2>3 DEF Req
      <3>2. QED
        BY <1>2, <2>1, <3>1
    <2>4. QED
      BY <1>8, <2>2, <2>3 DEF ReadDelete
  <1>9. CASE UNCHANGED <<account, req, adminTrail, adminBase, overlapped>>
    BY <1>9 DEF TrailTyped, EditsInv, EditTold, Recording
  <1>10. ASSUME NEW r \in UserRequests, WriteEdit(r)
         PROVE  TrailTyped' /\ EditsInv'
    BY <1>10, WriteEditTold DEF WriteEdit, TrailTyped
  <1>11. CASE RosterStep
    <2>1. ASSUME NEW r \in UserRequests, NEW u \in Accounts,
                 \/ \E a \in Accounts : AsksToCreate(r, u, a)
                 \/ \E a \in Touched, asked \in Bodies : AsksToEdit(r, u, a, asked)
                 \/ \E a \in Touched : AsksToDelete(r, u, a)
          PROVE  TrailTyped' /\ EditsInv'
      BY <1>4, <2>1, RosterAssumption DEF AsksToCreate, AsksToEdit, AsksToDelete
    <2>2. ASSUME NEW u \in Accounts,
                 \/ AsksSession(u) \/ CookieExpires(u) \/ BeginsSignIn(u) \/ SignsIn(u)
          PROVE  TrailTyped' /\ EditsInv'
      BY <1>9, <2>2 DEF AsksSession, CookieExpires, BeginsSignIn, SignsIn, requestVars
    <2>3. QED
      BY <1>5, <1>6, <1>7, <1>8, <1>11, <2>1, <2>2, RosterAssumption,
         RecordEditTold, PruneKeeps
      DEF RosterStep
  <1>12. ASSUME NEW r \in UserRequests,
                ListOrphaned(r) \/ DeleteUser(r) \/ EditUser(r) \/ AdminDies(r)
         PROVE  TrailTyped' /\ EditsInv'
    <2>1. CASE ListOrphaned(r)
      BY <1>3, <2>1 DEF ListOrphaned, accountVars
    <2>2. CASE DeleteUser(r) \/ EditUser(r) \/ AdminDies(r)
      BY <1>6, <1>10, <2>2, DyingTold DEF DeleteUser, EditUser, AdminDies
    <2>3. QED
      BY <1>12, <2>1, <2>2
  <1>13. QED
    BY <1>9, <1>11, <1>12
    DEF Next, vars, AsksStatus, AsksCategory, AsksAssignee, OpensTicket, Ask,
        CheckAssignee, ReadExisting, Update, ReadTicket, MarkSeen, WorkDies,
        PickInheritor, FillIn, PruneTicketActivity, rosterVars, accountVars, askVars

-----------------------------------------------------------------------------
(* The tickets' trail.                                                     *)

TicketTrailTyped ==
    /\ trail \in [Tickets -> Seq(TicketEntry)]
    /\ base \in [Tickets -> TicketFields]

FieldTold(t, f) ==
    /\ JoinUp(trail[t], f, base[t][f])
    /\ \/ <<t, f>> \in muted
       \/ EndAt(trail[t], f, base[t][f], fieldsOf(ticket[t])[f])

LEMMA FieldsTell == TrailTells <=> \A t \in Tickets, f \in FIELDS : FieldTold(t, f)
  BY DEF TrailTells, FieldTold

LEMMA FieldsTellNext ==
  ASSUME \A t \in Tickets, f \in FIELDS : FieldTold(t, f)'
  PROVE  TrailTells'
  BY DEF TrailTells, FieldTold

LEMMA FieldKept ==
  ASSUME NEW t, NEW f, FieldTold(t, f),
         JoinUp(trail[t], f, base[t][f]) => JoinUp(trail'[t], f, base'[t][f]),
         \A value : EndAt(trail[t], f, base[t][f], value)
                       => EndAt(trail'[t], f, base'[t][f], value),
         <<t, f>> \in muted => <<t, f>> \in muted',
         \/ <<t, f>> \in muted'
         \/ (fieldsOf(ticket[t])[f])' = fieldsOf(ticket[t])[f]
  PROVE  FieldTold(t, f)'
  BY Zenon DEF FieldTold

LEMMA FieldsKept ==
  ASSUME TicketInv, NEW t \in Tickets, NEW f \in FIELDS,
         \/ f = "assignee"
         \/ /\ ticket'[t].status = ticket[t].status
            /\ ticket'[t].category = ticket[t].category,
         \/ f # "assignee"
         \/ /\ ticket'[t].assignee = ticket[t].assignee
            /\ \A u \in Accounts :
                 ticket[t].assignee = u => account'[u].name = account[u].name
  PROVE  (fieldsOf(ticket[t])[f])' = fieldsOf(ticket[t])[f]
  <1>1. ticket[t].assignee \in Accounts \cup {"none"}
    BY DEF TicketInv, Ticket
  <1>2. CASE f = "assignee"
    BY <1>1, <1>2 DEF fieldsOf
  <1>3. CASE f = "status" \/ f = "category"
    BY <1>3 DEF fieldsOf
  <1>4. QED
    BY <1>2, <1>3 DEF FIELDS

LEMMA FieldsTyped ==
  ASSUME AccountsType, NEW row \in Ticket
  PROVE  fieldsOf(row) \in TicketFields
  BY DEF AccountsType, Account, fieldsOf, Ticket, TicketFields, Name

LEMMA WrittenTyped ==
  ASSUME NEW row \in Ticket, NEW f \in FIELDS, NEW to \in Values[f]
  PROVE  Written(row, f, to) \in Ticket
  <1>1. CASE f = "assignee"
    BY <1>1, GivenType DEF Values
  <1>2. CASE f = "status"
    BY <1>2 DEF Written, Ticket, Values
  <1>3. CASE f = "category"
    BY <1>3 DEF Written, Ticket, Values
  <1>4. QED
    BY <1>1, <1>2, <1>3 DEF FIELDS

LEMMA Reassociated ==
  ASSUME NEW S, NEW x \in Seq(S), NEW y \in Seq(S), NEW z \in Seq(S),
         NEW xy, xy = x \o y, NEW yz, yz = y \o z
  PROVE  xy \o z = x \o yz
  BY ConcatAssociative

(* What two readings differ in is appended, field by field.                *)
LEMMA ChangesTell ==
  ASSUME NEW entries \in Seq(TicketEntry), NEW before \in TicketFields,
         NEW after \in TicketFields, NEW loose
  PROVE  LET longer == entries \o ticketChanges(before, after, loose)
         IN  /\ longer \in Seq(TicketEntry)
             /\ \A f \in FIELDS : \A first :
                  Tells(entries, longer, f, before, after, loose, first)
  <1> DEFINE statuses == diffToEntries(before, after, "status", loose)
             categories == diffToEntries(before, after, "category", loose)
             assignees == diffToEntries(before, after, "assignee", loose)
             two == entries \o statuses
             three == two \o categories
             four == three \o assignees
  <1>1. /\ Moved("status", before, after, loose) \in TicketEntry
        /\ Moved("category", before, after, loose) \in TicketEntry
        /\ Moved("assignee", before, after, loose) \in TicketEntry
    BY DEF Moved, TicketEntry, TicketFields
  <1>2. /\ statuses \in Seq(TicketEntry) /\ categories \in Seq(TicketEntry)
        /\ assignees \in Seq(TicketEntry)
    BY <1>1, DiffTyped
  <1>3. /\ two \in Seq(TicketEntry)
        /\ \A first : Tells(entries, two, "status", before, after, loose, first)
        /\ \A first : Spares(entries, two, "category", first)
        /\ \A first : Spares(entries, two, "assignee", first)
    BY <1>1, OneField
  <1> HIDE DEF statuses, two
  <1>4. /\ three \in Seq(TicketEntry)
        /\ \A first : Tells(two, three, "category", before, after, loose, first)
        /\ \A first : Spares(two, three, "status", first)
        /\ \A first : Spares(two, three, "assignee", first)
    BY <1>1, <1>3, OneField
  <1> HIDE DEF categories, three
  <1>5. /\ four \in Seq(TicketEntry)
        /\ \A first : Tells(three, four, "assignee", before, after, loose, first)
        /\ \A first : Spares(three, four, "status", first)
        /\ \A first : Spares(three, four, "category", first)
    BY <1>1, <1>4, OneField
  <1> HIDE DEF assignees, four
  <1>6. ASSUME NEW first
        PROVE  /\ Tells(entries, four, "status", before, after, loose, first)
               /\ Tells(entries, four, "category", before, after, loose, first)
               /\ Tells(entries, four, "assignee", before, after, loose, first)
    <2>1. /\ Tells(entries, three, "status", before, after, loose, first)
          /\ Tells(entries, three, "category", before, after, loose, first)
          /\ Tells(two, four, "assignee", before, after, loose, first)
      BY <1>3, <1>4, <1>5, SparesThenTells
    <2>2. QED
      BY <1>3, <1>5, <2>1, SparesThenTells
  <1>7. four = entries \o ticketChanges(before, after, loose)
    <2>1. PICK both, all : /\ both = statuses \o categories
                          /\ all = both \o assignees
      OBVIOUS
    <2>2. two = entries \o statuses /\ three = two \o categories
          /\ four = three \o assignees
      BY DEF two, three, four
    <2>3. three = entries \o both
      BY <1>2, <2>1, <2>2, Reassociated
    <2>4. four = entries \o all
      <3>1. both \in Seq(TicketEntry)
        BY <1>2, <2>1, ConcatProperties
      <3>2. assignees \in Seq(TicketEntry) /\ all = both \o assignees
            /\ four = three \o assignees
        BY <1>2, <2>1, <2>2
      <3>3. QED
        BY <2>3, <3>1, <3>2, Reassociated
    <2>5. QED
      BY <2>1, <2>4 DEF statuses, categories, assignees, ticketChanges
  <1>8. QED
    BY <1>5, <1>6, <1>7 DEF FIELDS

LEMMA UpdateTold ==
  ASSUME TicketInv, TicketTrailTyped, TrailTells, NEW w \in TicketRequests, Update(w)
  PROVE  TicketTrailTyped' /\ TrailTells'
  <1>1. PICK t \in Tickets, f \in FIELDS, was \in TicketFields,
             to \in Values[work[w].field] :
           /\ t = work[w].ticket /\ f = work[w].field
           /\ to = work[w].to /\ was = work[w].existing
    BY DEF Update, TicketInv, WorkSound, Work
  <1>2. PICK old \in Ticket : old = ticket[t]
    BY DEF TicketInv
  <1>3. PICK new \in Ticket : new = Written(old, f, to)
    BY <1>1, WrittenTyped
  <1>4. PICK now \in TicketFields, after \in TicketFields :
          now = fieldsOf(old) /\ after = fieldsOf(new)
    BY FieldsTyped DEF TicketInv, RosterInv
  <1>5. PICK es \in Seq(TicketEntry) : es = trail[t]
    BY DEF TicketTrailTyped
  <1>6. PICK loose : loose = {g \in FIELDS : was[g] # now[g] \/ <<t, g>> \in muted}
    OBVIOUS
  <1>7. PICK longer : longer = es \o ticketChanges(was, after, loose)
    OBVIOUS
  <1> DEFINE told == {g \in FIELDS : was[g] # after[g]}
             untold == {g \in FIELDS \ told : now[g] # after[g]}
  <1>8. /\ ticket' = [ticket EXCEPT ![t] = new]
        /\ trail' = [trail EXCEPT ![t] = longer]
        /\ muted' = (muted \ ({t} \X told)) \cup ({t} \X untold)
        /\ UNCHANGED <<account, base>>
    BY <1>1, <1>2, <1>3, <1>4, <1>5, <1>6, <1>7 DEF Update, rosterVars
  <1>9. /\ longer \in Seq(TicketEntry)
        /\ \A g \in FIELDS : \A first : Tells(es, longer, g, was, after, loose, first)
    BY <1>7, ChangesTell
  <1>10. TicketTrailTyped'
    BY <1>8, <1>9 DEF TicketTrailTyped
  <1>11. ASSUME NEW s \in Tickets, NEW g \in FIELDS, s # t
         PROVE  FieldTold(s, g)'
    <2>1. /\ trail'[s] = trail[s] /\ ticket'[s] = ticket[s]
          /\ <<s, g>> \in muted => <<s, g>> \in muted'
      BY <1>8, <1>11 DEF TicketInv, TicketTrailTyped
    <2>2. (fieldsOf(ticket[s])[g])' = fieldsOf(ticket[s])[g]
      BY <1>8, <2>1, FieldsKept
    <2>3. FieldTold(s, g)
      BY FieldsTell
    <2>4. QED
      BY <1>8, <2>1, <2>2, <2>3, FieldKept
  <1>12. ASSUME NEW g \in FIELDS
         PROVE  FieldTold(t, g)'
    <2>1. /\ trail'[t] = longer /\ ticket'[t] = new /\ base' = base
          /\ fieldsOf(new) = after /\ account' = account
      BY <1>4, <1>8 DEF TicketInv, TicketTrailTyped
    <2>2. (fieldsOf(ticket[t])[g])' = after[g]
      BY <2>1 DEF fieldsOf
    <2>3. /\ JoinUp(es, g, base[t][g])
          /\ <<t, g>> \in muted \/ EndAt(es, g, base[t][g], now[g])
      BY <1>2, <1>4, <1>5, FieldsTell DEF FieldTold
    <2>4. Tells(es, longer, g, was, after, loose, base[t][g])
      BY <1>9
    <2>5. g \notin loose => was[g] = now[g] /\ <<t, g>> \notin muted
      BY <1>6
    <2>6. JoinUp(longer, g, base[t][g])
      BY <2>3, <2>4, <2>5, Zenon DEF Tells
    <2>7. <<t, g>> \in muted' \/ EndAt(longer, g, base[t][g], after[g])
      <3>1. CASE was[g] # after[g]
        BY <2>4, <3>1, Zenon DEF Tells
      <3>2. CASE was[g] = after[g] /\ now[g] # after[g]
        BY <1>8, <3>2
      <3>3. CASE was[g] = after[g] /\ now[g] = after[g] /\ <<t, g>> \in muted
        BY <1>8, <3>3
      <3>4. CASE was[g] = after[g] /\ now[g] = after[g] /\ <<t, g>> \notin muted
        BY <2>3, <2>4, <3>4, Zenon DEF Tells
      <3>5. QED
        BY <3>1, <3>2, <3>3, <3>4
    <2>8. QED
      BY <2>1, <2>2, <2>6, <2>7 DEF FieldTold
  <1>13. QED
    BY <1>10, <1>11, <1>12, FieldsTellNext

(* The deletion of a colleague records each ticket it has listed.          *)
LEMMA DeleteTold ==
  ASSUME TicketInv, TicketTrailTyped, TrailTells, NEW r \in UserRequests, DeleteUser(r)
  PROVE  TicketTrailTyped' /\ TrailTells'
  <1>1. PICK u \in Accounts : u = req[r].target
    BY DEF DeleteUser, Delete, TicketInv, RosterInv, RequestSound
  <1>2. PICK name \in Names : name = req[r].before.name
    BY DEF DeleteUser, Delete, TicketInv, RosterInv, RequestSound, AdminUserFields
  <1> DEFINE loose(t) == \/ t \notin Owned(u) \/ <<t, "assignee">> \in muted
                         \/ name # account[u].name
             entry(t) == [field |-> "assignee", from |-> name, to |-> "none",
                          loose |-> loose(t)]
             owned == Owned(u)
             elsewhere == {t \in orphaned[r] \ owned : ticket[t].assignee # "none"}
  <1>3. /\ ticket' = [t \in Tickets |->
                        IF t \in owned THEN [ticket[t] EXCEPT !.assignee = "none"]
                        ELSE ticket[t]]
        /\ trail' = [t \in Tickets |->
                       IF t \in orphaned[r] THEN Append(trail[t], entry(t)) ELSE trail[t]]
        /\ muted' = (muted \ Assignees(orphaned[r]))
                        \cup Assignees((owned \ orphaned[r]) \cup elsewhere)
        /\ base' = base
    BY <1>1, <1>2 DEF DeleteUser, Unassigned, RecordsOrphaned, Clears
  <1>4. account' = [account EXCEPT ![u].standing = "deleted"]
    BY <1>1 DEF DeleteUser, Delete
  <1>5. \A t \in Tickets : entry(t) \in TicketEntry
    BY DEF TicketEntry, Name
  <1>6. \A v \in Accounts : account'[v].name = account[v].name
    BY <1>4 DEF TicketInv, RosterInv, AccountsType, Account
  <1>7. TicketTrailTyped'
    BY <1>3, <1>5 DEF TicketTrailTyped
  <1>8. ASSUME NEW t \in Tickets, NEW f \in FIELDS
        PROVE  FieldTold(t, f)'
    <2>1. FieldTold(t, f) /\ ticket[t] \in Ticket
      BY FieldsTell DEF TicketInv
    <2>2. /\ ticket'[t].status = ticket[t].status
          /\ ticket'[t].category = ticket[t].category
          /\ t \notin owned => ticket'[t].assignee = ticket[t].assignee
          /\ t \in owned => ticket'[t].assignee = "none" /\ ticket[t].assignee = u
      BY <1>3, <2>1 DEF Ticket, Owned
    <2>3. PICK es \in Seq(TicketEntry) : es = trail[t]
      BY DEF TicketTrailTyped
    <2>4. PICK e \in TicketEntry : e = entry(t)
      BY <1>5
    <2>5. /\ e.field = "assignee" /\ e.from = name /\ e.to = "none"
          /\ e.loose <=> loose(t)
      BY <2>4
    <2>6. trail'[t] = IF t \in orphaned[r] THEN es \o <<e>> ELSE es
      BY <1>3, <2>3, <2>4, AppendIsOneMore
    <2>7. /\ f # "assignee" => (<<t, f>> \in muted <=> <<t, f>> \in muted')
          /\ t \notin orphaned[r] => (<<t, f>> \in muted => <<t, f>> \in muted')
          /\ t \in owned \ orphaned[r] => <<t, "assignee">> \in muted'
          /\ t \in elsewhere => <<t, "assignee">> \in muted'
      BY <1>3 DEF Assignees
    <2>8. t \in elsewhere <=> /\ t \in orphaned[r] /\ t \notin owned
                            /\ ticket[t].assignee # "none"
      OBVIOUS
    <2> HIDE DEF entry, owned, elsewhere
    <2>9. CASE t \notin orphaned[r]
      <3>1. <<t, f>> \in muted' \/ (fieldsOf(ticket[t])[f])' = fieldsOf(ticket[t])[f]
        BY <1>6, <2>2, <2>7, <2>9, FieldsKept
      <3>2. trail'[t] = trail[t]
        BY <2>3, <2>6, <2>9
      <3>3. <<t, f>> \in muted => <<t, f>> \in muted'
        BY <2>7, <2>9
      <3>4. QED
        BY <1>3, <2>1, <3>1, <3>2, <3>3, FieldKept
    <2>10. CASE t \in orphaned[r] /\ f # "assignee"
      <3>1. Spares(es, es \o <<e>>, f, base[t][f])
        BY <2>5, <2>10, OtherEntry
      <3>2. (fieldsOf(ticket[t])[f])' = fieldsOf(ticket[t])[f]
        BY <2>2, <2>10, FieldsKept
      <3>3. trail'[t] = es \o <<e>>
        BY <2>6, <2>10
      <3>4. QED
        BY <1>3, <2>1, <2>3, <2>7, <2>10, <3>1, <3>2, <3>3, FieldKept DEF Spares
    <2>11. CASE t \in orphaned[r] /\ f = "assignee"
      <3>1. EndAt(es \o <<e>>, f, base[t][f], "none")
        BY <2>5, <2>11, OwnEntry
      <3>2. JoinUp(es \o <<e>>, f, base[t][f])
        <4>1. JoinUp(es, f, base[t][f])
          BY <2>1, <2>3 DEF FieldTold
        <4>2. e.loose \/ EndAt(es, f, base[t][f], name)
          <5>1. CASE loose(t)
            BY <2>5, <5>1
          <5>2. CASE ~loose(t)
            <6>1. /\ t \in owned /\ <<t, f>> \notin muted /\ name = account[u].name
              BY <2>11, <5>2 DEF owned
            <6>2. fieldsOf(ticket[t])[f] = name
              BY <2>2, <2>11, <6>1, RosterAssumption DEF fieldsOf
            <6>3. QED
              BY <2>1, <2>3, <6>1, <6>2 DEF FieldTold
          <5>3. QED
            BY <5>1, <5>2
        <4>3. QED
          BY <2>5, <2>11, <4>1, <4>2, OwnEntry
      <3>3. <<t, f>> \in muted' \/ (fieldsOf(ticket[t])[f])' = "none"
        <4>1. CASE ticket'[t].assignee = "none"
          BY <2>11, <4>1 DEF fieldsOf
        <4>2. CASE ticket'[t].assignee # "none"
          BY <2>2, <2>7, <2>8, <2>11, <4>2
        <4>3. QED
          BY <4>1, <4>2
      <3>4. trail'[t] = es \o <<e>> /\ base' = base
        BY <1>3, <2>6, <2>11
      <3>5. QED
        BY <3>1, <3>2, <3>3, <3>4 DEF FieldTold
    <2>12. QED
      BY <2>9, <2>10, <2>11
  <1>9. QED
    BY <1>7, <1>8, FieldsTellNext

LEMMA TrailsStart == Init => TicketTrailTyped /\ TrailTells
  <1> SUFFICES ASSUME Init PROVE TicketTrailTyped /\ TrailTells
    OBVIOUS
  <1>1. PICK u \in FirstAgents \cup {"none"}, seen \in BOOLEAN :
          /\ ticket = [t \in Tickets |-> [status |-> "Open", category |-> "none",
                                         assignee |-> u, seen |-> seen]]
          /\ trail = [t \in Tickets |->
                        IF u = "none" THEN <<>>
                        ELSE <<[field |-> "assignee", from |-> "none", to |-> NameOf[u],
                                loose |-> FALSE]>>]
    BY DEF Init
  <1>2. /\ base = [t \in Tickets |-> Blank] /\ Blank \in TicketFields
        /\ \A f, first : JoinUp(<<>>, f, first) /\ EndAt(<<>>, f, first, first)
    BY DEF Init, Blank, TicketFields, Status, Category, Name,
           JoinUp, EndAt, Leave, EntriesOf
  <1>3. CASE u = "none"
    <2>1. \A t \in Tickets : trail[t] = <<>> /\ fieldsOf(ticket[t]) = Blank
      BY <1>1, <1>3 DEF fieldsOf, Blank
    <2>2. TicketTrailTyped
      BY <1>1, <1>2, <1>3 DEF TicketTrailTyped
    <2>3. \A t \in Tickets, f \in FIELDS : FieldTold(t, f)
      BY <1>2, <2>1 DEF FieldTold
    <2>4. QED
      BY <2>2, <2>3, FieldsTell
  <1>4. CASE u # "none"
    <2>1. u \in Accounts /\ NameOf[u] \in Names /\ account[u].name = NameOf[u]
      BY <1>4, RosterAssumption DEF Init, RosterInit
    <2>2. PICK e \in TicketEntry :
            /\ e = [field |-> "assignee", from |-> "none", to |-> NameOf[u],
                    loose |-> FALSE]
            /\ e.field = "assignee" /\ e.from = "none" /\ e.to = NameOf[u]
      <3>1. [field |-> "assignee", from |-> "none", to |-> NameOf[u], loose |-> FALSE]
               \in TicketEntry
        BY <2>1 DEF TicketEntry, Name
      <3>2. QED
        BY <3>1
    <2>3. \A t \in Tickets : trail[t] = <<e>>
      BY <1>1, <1>4, <2>2
    <2>4. TicketTrailTyped
      BY <1>1, <1>2, <1>4, <2>2 DEF TicketTrailTyped
    <2>5. <<>> \in Seq(TicketEntry) /\ <<>> \o <<e>> = <<e>>
      <3>1. <<e>> \in Seq(TicketEntry) /\ <<>> \in Seq(TicketEntry)
        OBVIOUS
      <3>2. QED
        BY <3>1, ConcatEmptySeq
    <2>6. ASSUME NEW t \in Tickets, NEW f \in FIELDS
          PROVE  FieldTold(t, f)
      <3>1. base[t][f] = Blank[f] /\ trail[t] = <<e>>
        BY <1>2, <2>3
      <3>2. CASE f = "assignee"
        <4>1. Blank[f] = "none" /\ fieldsOf(ticket[t])[f] = NameOf[u]
          BY <1>1, <1>4, <2>1, <3>2 DEF Blank, fieldsOf
        <4>2. EndAt(<<>>, f, "none", e.from) /\ JoinUp(<<>>, f, "none")
          BY <1>2, <2>2
        <4>3. EndAt(<<>> \o <<e>>, f, "none", NameOf[u])
          BY <2>2, <2>5, <3>2, OwnEntry
        <4>4. JoinUp(<<>> \o <<e>>, f, "none")
          BY <2>2, <2>5, <3>2, <4>2, OwnEntry
        <4>5. QED
          BY <2>5, <3>1, <4>1, <4>3, <4>4 DEF FieldTold
      <3>3. CASE f # "assignee"
        <4>1. fieldsOf(ticket[t])[f] = Blank[f]
          BY <1>1, <3>3 DEF Blank, fieldsOf, FIELDS
        <4>2. Spares(<<>>, <<>> \o <<e>>, f, Blank[f])
          BY <2>2, <2>5, <3>3, OtherEntry
        <4>3. JoinUp(<<e>>, f, Blank[f]) /\ EndAt(<<e>>, f, Blank[f], Blank[f])
          BY <1>2, <2>5, <4>2 DEF Spares
        <4>4. QED
          BY <3>1, <4>1, <4>3 DEF FieldTold
      <3>4. QED
        BY <3>2, <3>3
    <2>7. QED
      BY <2>4, <2>6, FieldsTell
  <1>5. QED
    BY <1>3, <1>4

(* The trails are left, and so are the fields they tell of except some     *)
(* that are muted.                                                         *)
LEMMA TrailsKept ==
  ASSUME TicketInv, TicketTrailTyped, TrailTells, UNCHANGED <<trail, base>>,
         muted \subseteq muted',
         \A t \in Tickets :
            /\ ticket'[t].status = ticket[t].status
            /\ ticket'[t].category = ticket[t].category
            /\ \/ <<t, "assignee">> \in muted'
               \/ /\ ticket'[t].assignee = ticket[t].assignee
                  /\ \A u \in Accounts :
                       ticket[t].assignee = u => account'[u].name = account[u].name
  PROVE  TicketTrailTyped' /\ TrailTells'
  <1>1. TicketTrailTyped'
    BY DEF TicketTrailTyped
  <1>2. ASSUME NEW t \in Tickets, NEW f \in FIELDS
        PROVE  FieldTold(t, f)'
    <2>1. <<t, f>> \in muted' \/ (fieldsOf(ticket[t])[f])' = fieldsOf(ticket[t])[f]
      BY FieldsKept
    <2>2. FieldTold(t, f)
      BY FieldsTell
    <2>3. QED
      BY <2>1, <2>2, FieldKept
  <1>3. QED
    BY <1>1, <1>2, FieldsTellNext

LEMMA EditUserTold ==
  ASSUME TicketInv, TicketTrailTyped, TrailTells, NEW r \in UserRequests, EditUser(r)
  PROVE  TicketTrailTyped' /\ TrailTells'
  <1>1. PICK u \in Accounts : u = req[r].target
    BY DEF EditUser, WriteEdit, TicketInv, RosterInv, RequestSound
  <1>2. /\ UNCHANGED <<ticket, trail, base>>
        /\ muted' = IF account'[u].name # account[u].name
                    THEN muted \cup Assignees(Owned(u)) ELSE muted
    BY <1>1 DEF EditUser
  <1>3. \A v \in Accounts : v # u => account'[v].name = account[v].name
    <2>1. CASE requireAdmin(req[r].by)
      <3>1. RosterInv /\ WriteEdit(r) /\ account \in [Accounts -> Account]
        BY DEF EditUser, TicketInv, RosterInv, AccountsType
      <3>2. account' = [account EXCEPT ![u] = [@ EXCEPT !.name = req[r].asked.name,
                                                        !.role = req[r].asked.role]]
        BY <1>1, <2>1, <3>1, Edited
      <3>3. QED
        BY <3>1, <3>2
    <2>2. CASE ~requireAdmin(req[r].by)
      BY <2>2 DEF EditUser, WriteEdit
    <2>3. QED
      BY <2>1, <2>2
  <1>4. \A t \in Tickets :
          \/ <<t, "assignee">> \in muted'
          \/ \A v \in Accounts :
               ticket[t].assignee = v => account'[v].name = account[v].name
    BY <1>2, <1>3 DEF Owned, Assignees
  <1>5. QED
    BY <1>2, <1>4, TrailsKept

LEMMA TicketPruneKeeps ==
  ASSUME TicketInv, TicketTrailTyped, TrailTells, NEW t \in Tickets, PruneTicketActivity(t)
  PROVE  TicketTrailTyped' /\ TrailTells'
  <1>1. PICK es \in Seq(TicketEntry) : es = trail[t] /\ es # <<>>
    BY DEF PruneTicketActivity, TicketTrailTyped
  <1>2. PICK e \in TicketEntry : e = Head(es)
    BY <1>1, HeadTailProperties
  <1>3. /\ trail' = [trail EXCEPT ![t] = Tail(es)]
        /\ base' = [base EXCEPT ![t][e.field] = e.to]
        /\ UNCHANGED <<account, ticket, muted>>
    BY <1>1, <1>2 DEF PruneTicketActivity, askVars, accountVars
  <1>4. /\ e.field \in FIELDS
        /\ e.field = "status" => e.to \in Status
        /\ e.field = "category" => e.to \in Category
        /\ e.field = "assignee" => e.to \in Name
    BY DEF TicketEntry, FIELDS
  <1>5. TicketTrailTyped'
    <2>1. Tail(es) \in Seq(TicketEntry)
      BY <1>1, HeadTailProperties
    <2>2. base' \in [Tickets -> TicketFields]
      BY <1>3, <1>4 DEF TicketTrailTyped, TicketFields, FIELDS
    <2>3. QED
      BY <1>3, <2>1, <2>2 DEF TicketTrailTyped
  <1>6. ASSUME NEW s \in Tickets, NEW f \in FIELDS
        PROVE  /\ JoinUp(trail[s], f, base[s][f]) => JoinUp(trail'[s], f, base'[s][f])
               /\ \A value : EndAt(trail[s], f, base[s][f], value)
                               => EndAt(trail'[s], f, base'[s][f], value)
    <2>1. CASE s # t
      <3>1. trail'[s] = trail[s] /\ base'[s] = base[s]
        BY <1>3, <2>1 DEF TicketTrailTyped
      <3>2. QED
        BY <3>1
    <2>2. CASE s = t
      <3>1. /\ trail'[s] = Tail(es)
            /\ base'[s][f] = IF e.field = f THEN e.to ELSE base[s][f]
        BY <1>3, <1>4, <2>2 DEF TicketTrailTyped, TicketFields, FIELDS
      <3>2. QED
        BY <1>1, <1>2, <2>2, <3>1, OldestGoes
    <2>3. QED
      BY <2>1, <2>2
  <1>7. ASSUME NEW s \in Tickets, NEW f \in FIELDS
        PROVE  FieldTold(s, f)'
    <2>1. (fieldsOf(ticket[s])[f])' = fieldsOf(ticket[s])[f]
      BY <1>3, FieldsKept
    <2>2. FieldTold(s, f)
      BY FieldsTell
    <2>3. QED
      BY <1>3, <1>6, <2>1, <2>2, FieldKept
  <1>8. QED
    BY <1>5, <1>7, FieldsTellNext

LEMMA TrailsAreKept ==
  TicketInv /\ TicketTrailTyped /\ TrailTells /\ [Next]_vars
     => TicketTrailTyped' /\ TrailTells'
  <1> SUFFICES ASSUME TicketInv, TicketTrailTyped, TrailTells, [Next]_vars
               PROVE  TicketTrailTyped' /\ TrailTells'
    OBVIOUS
  <1>1. /\ ticket \in [Tickets -> Ticket] /\ account \in [Accounts -> Account]
        /\ req \in [UserRequests -> Req]
    BY DEF TicketInv, RosterInv, AccountsType
  <1>2. CASE /\ UNCHANGED <<ticket, trail, base, muted>>
             /\ \A u \in Accounts : account'[u].name = account[u].name
    BY <1>2, TrailsKept
  <1>3. CASE RosterStep
    <2>1. UNCHANGED <<ticket, trail, base, muted>>
      BY <1>3 DEF RosterStep, deskVars
    <2>2. ASSUME NEW r \in UserRequests, Create(r)
          PROVE  \A u \in Accounts : account'[u].name = account[u].name
      BY <1>1, <2>2 DEF Create, Account
    <2>3. \A u \in Accounts : account'[u].name = account[u].name
      BY <1>3, <2>2
      DEF RosterStep, AsksToCreate, AsksToEdit, AsksToDelete, LetIn, Welcome, ReadEdit,
          RecordEdit, ReadDelete, AsksSession, CookieExpires, BeginsSignIn, SignsIn,
          PruneAdminActivity, accountVars
    <2>4. QED
      BY <1>2, <2>1, <2>3
  <1>4. ASSUME NEW w \in TicketRequests, MarkSeen(w)
        PROVE  TicketTrailTyped' /\ TrailTells'
    <2>1. UNCHANGED <<trail, base, muted, account>>
      BY <1>4 DEF MarkSeen, rosterVars
    <2>2. \A t \in Tickets : /\ ticket'[t].status = ticket[t].status
                            /\ ticket'[t].category = ticket[t].category
                            /\ ticket'[t].assignee = ticket[t].assignee
      BY <1>1, <1>4 DEF MarkSeen, Ticket
    <2>3. QED
      BY <2>1, <2>2, TrailsKept
  <1>5. ASSUME NEW t \in Tickets, FillIn(t)
        PROVE  TicketTrailTyped' /\ TrailTells'
    <2>1. UNCHANGED <<trail, base, account>>
      BY <1>5 DEF FillIn, rosterVars, ghosts
    <2>2. CASE ticket[t].assignee = "none"
      <3>1. /\ muted' = muted \cup Assignees({t})
            /\ ticket' = [ticket EXCEPT ![t].assignee = inheritor[t]]
        BY <1>5, <2>2 DEF FillIn
      <3>2. \A s \in Tickets : s # t => ticket'[s] = ticket[s]
        BY <1>1, <3>1
      <3>3. <<t, "assignee">> \in muted'
        BY <3>1 DEF Assignees
      <3>4. muted \subseteq muted'
        BY <3>1
      <3>5. \A s \in Tickets :
               \/ <<s, "assignee">> \in muted'
               \/ /\ ticket'[s].assignee = ticket[s].assignee
                  /\ \A u \in Accounts :
                       ticket[s].assignee = u => account'[u].name = account[u].name
        <4>1. account' = account
          BY <2>1
        <4>2. QED
          BY <3>2, <3>3, <4>1, Zenon
      <3>6. \A s \in Tickets : /\ ticket'[s].status = ticket[s].status
                              /\ ticket'[s].category = ticket[s].category
        BY <1>1, <3>1 DEF Ticket
      <3>7. QED
        BY <2>1, <3>4, <3>5, <3>6, TrailsKept
    <2>3. CASE ticket[t].assignee # "none"
      BY <1>2, <1>5, <2>1, <2>3 DEF FillIn, ghosts
    <2>4. QED
      BY <2>2, <2>3
  <1>6. QED
    BY <1>2, <1>3, <1>4, <1>5, UpdateTold, DeleteTold, EditUserTold, TicketPruneKeeps
    DEF Next, vars, AsksStatus, AsksCategory, AsksAssignee, OpensTicket, Ask,
        CheckAssignee, ReadExisting, ReadTicket, WorkDies, PickInheritor,
        ListOrphaned, AdminDies, RequestDies, ghosts, rosterVars, accountVars, askVars

-----------------------------------------------------------------------------
(* The rest of the types.                                                  *)

RestTyped ==
    /\ events \in 0..MaxEvents
    /\ overlapped \in SUBSET (Accounts \X USER_FIELDS)
    /\ inheritor \in [Tickets -> Accounts \cup {"none", "done"}]
    /\ orphaned \in [UserRequests -> SUBSET Tickets]
    /\ muted \in SUBSET (Tickets \X FIELDS) /\ overtaken \in SUBSET Tickets
    /\ looked \in SUBSET Tickets /\ unnoticed \in SUBSET Tickets

LEMMA RestStarts == Init => RestTyped
  BY RosterAssumption DEF Init, RosterInit, RestTyped

LEMMA HappensTyped ==
  ASSUME events \in 0..MaxEvents, Happens
  PROVE  events' \in 0..MaxEvents
  BY RosterAssumption DEF Happens

LEMMA RestIsKept == TicketInv /\ RestTyped /\ [Next]_vars => RestTyped'
  <1> SUFFICES ASSUME TicketInv, RestTyped, [Next]_vars PROVE RestTyped'
    OBVIOUS
  <1> USE DEF ghosts
  <1>1. ASSUME UNCHANGED <<overlapped, inheritor, orphaned, muted, overtaken, looked,
                           unnoticed>>,
               Happens \/ events' = events
        PROVE  RestTyped'
    BY <1>1, HappensTyped DEF RestTyped
  <1>2. CASE UNCHANGED vars
    BY <1>1, <1>2 DEF vars
  <1>3. CASE RosterStep
    <2>1. UNCHANGED <<inheritor, orphaned, ghosts>>
      BY <1>3 DEF RosterStep, deskVars
    <2>2. ASSUME NEW r \in UserRequests, RecordEdit(r)
          PROVE  RestTyped'
      <3>1. events' = events /\ overlapped' \subseteq overlapped
        BY <2>2 DEF RecordEdit
      <3>2. QED
        BY <2>1, <3>1 DEF RestTyped
    <2>3. QED
      BY <1>1, <1>3, <2>1, <2>2
      DEF RosterStep, AsksToCreate, AsksToEdit, AsksToDelete, LetIn, Create, Welcome,
          ReadEdit, ReadDelete, AsksSession, CookieExpires, BeginsSignIn, SignsIn,
          PruneAdminActivity, requestVars
  <1>4. ASSUME NEW w \in TicketRequests,
               \/ \E u \in Accounts, t \in Tickets :
                    \/ \E s \in Status \cap Labels : AsksStatus(w, u, t, s)
                    \/ \E c \in Category \cap Labels : AsksCategory(w, u, t, c)
                    \/ \E a \in Touched \cup {"none"} : AsksAssignee(w, u, t, a)
                    \/ OpensTicket(w, u, t)
               \/ CheckAssignee(w) \/ ReadExisting(w) \/ WorkDies(w)
        PROVE  RestTyped'
    BY <1>1, <1>4
    DEF AsksStatus, AsksCategory, AsksAssignee, OpensTicket, Ask, CheckAssignee,
        ReadExisting, WorkDies, rosterVars, askVars
  <1>5. ASSUME NEW w \in TicketRequests, Update(w) \/ ReadTicket(w) \/ MarkSeen(w)
        PROVE  RestTyped'
    <2>1. work[w].ticket \in Tickets
      BY <1>5 DEF Update, ReadTicket, MarkSeen, TicketInv, WorkSound
    <2>2. UNCHANGED <<events, overlapped, inheritor, orphaned>>
      BY <1>5 DEF Update, ReadTicket, MarkSeen, rosterVars
    <2>3. CASE Update(w)
      <3>1. muted' \in SUBSET (Tickets \X FIELDS)
        BY <2>1, <2>3 DEF Update, RestTyped
      <3>2. overtaken' \in SUBSET Tickets /\ looked' \in SUBSET Tickets
            /\ unnoticed' \in SUBSET Tickets
        BY <2>1, <2>3 DEF Update, IsGiven, RestTyped
      <3>3. QED
        BY <2>2, <3>1, <3>2 DEF RestTyped
    <2>4. CASE ReadTicket(w) \/ MarkSeen(w)
      BY <2>1, <2>2, <2>4 DEF ReadTicket, MarkSeen, RestTyped
    <2>5. QED
      BY <1>5, <2>3, <2>4
  <1>6. ASSUME NEW t \in Tickets, NEW u \in Touched, PickInheritor(t, u)
        PROVE  RestTyped'
    BY <1>6, HappensTyped, RosterAssumption DEF PickInheritor, RestTyped, askVars
  <1>7. ASSUME NEW t \in Tickets, FillIn(t)
        PROVE  RestTyped'
    <2>1. UNCHANGED <<events, overlapped, orphaned>>
      BY <1>7 DEF FillIn, rosterVars
    <2>2. inheritor' \in [Tickets -> Accounts \cup {"none", "done"}]
      BY <1>7 DEF FillIn, RestTyped
    <2>3. muted' \in SUBSET (Tickets \X FIELDS)
      BY <1>7 DEF FillIn, RestTyped, Assignees, FIELDS
    <2>4. overtaken' \in SUBSET Tickets /\ looked' \in SUBSET Tickets
          /\ unnoticed' \in SUBSET Tickets
      BY <1>7 DEF FillIn, IsGiven, RestTyped
    <2>5. QED
      BY <2>1, <2>2, <2>3, <2>4 DEF RestTyped
  <1>8. ASSUME NEW r \in UserRequests,
               ListOrphaned(r) \/ DeleteUser(r) \/ EditUser(r) \/ AdminDies(r)
        PROVE  RestTyped'
    <2>1. CASE ListOrphaned(r)
      BY <2>1 DEF ListOrphaned, RestTyped, Owned
    <2>2. CASE DeleteUser(r)
      <3>1. UNCHANGED <<events, overlapped, inheritor, looked, unnoticed>>
        BY <2>2 DEF DeleteUser, Delete, Clears
      <3>2. orphaned' \in [UserRequests -> SUBSET Tickets]
            /\ overtaken' \in SUBSET Tickets
        BY <2>2 DEF DeleteUser, Clears, RestTyped
      <3>3. orphaned[r] \in SUBSET Tickets
        BY DEF RestTyped
      <3>4. muted' \in SUBSET (Tickets \X FIELDS)
        BY <2>2, <3>3 DEF DeleteUser, Clears, RestTyped, Owned, Assignees, FIELDS
      <3>5. QED
        BY <3>1, <3>2, <3>4 DEF RestTyped
    <2>3. CASE EditUser(r)
      <3>1. req[r].target \in Accounts /\ events' = events
        BY <2>3 DEF EditUser, WriteEdit, TicketInv, RosterInv, RequestSound
      <3>2. overlapped' \in SUBSET (Accounts \X USER_FIELDS)
        <4>1. \/ overlapped' = overlapped
              \/ overlapped' = overlapped \cup ({req[r].target} \X USER_FIELDS)
          BY <2>3 DEF EditUser, WriteEdit
        <4>2. QED
          BY <3>1, <4>1 DEF RestTyped
      <3>3. muted' \in SUBSET (Tickets \X FIELDS)
        BY <2>3 DEF EditUser, RestTyped, Owned, Assignees, FIELDS
      <3>4. UNCHANGED <<inheritor, orphaned, overtaken, looked, unnoticed>>
        BY <2>3 DEF EditUser
      <3>5. QED
        BY <3>1, <3>2, <3>3, <3>4 DEF RestTyped
    <2>4. CASE AdminDies(r)
      <3>1. req[r].target \in Accounts
        BY <2>4 DEF AdminDies, RequestDies, TicketInv, RosterInv, RequestSound
      <3>2. overlapped' \in SUBSET (Accounts \X USER_FIELDS)
        BY <2>4, <3>1 DEF AdminDies, RequestDies, RestTyped, MovedFields
      <3>3. QED
        BY <2>4, <3>2, HappensTyped DEF AdminDies, RequestDies, RestTyped
    <2>5. QED
      BY <1>8, <2>1, <2>2, <2>3, <2>4
  <1>9. ASSUME NEW t \in Tickets, PruneTicketActivity(t)
        PROVE  RestTyped'
    BY <1>1, <1>9 DEF PruneTicketActivity, askVars
  <1>10. QED
    BY <1>2, <1>3, <1>4, <1>5, <1>6, <1>7, <1>8, <1>9 DEF Next

DeskInductive ==
    TicketInv /\ LeftOut /\ TrailTyped /\ EditsInv /\ TicketTrailTyped /\ TrailTells
    /\ RestTyped

LEMMA DeskParts == DeskInductive => DeskInvariant
  <1> SUFFICES ASSUME DeskInductive PROVE DeskInvariant
    OBVIOUS
  <1>1. RosterTypeOK
    BY DEF DeskInductive, TicketInv, RosterInv, AccountsType, LeftOut, TrailTyped,
           RestTyped, RosterTypeOK
  <1>2. TypeOK
    BY <1>1 DEF DeskInductive, TicketInv, TicketTrailTyped, RestTyped, TypeOK
  <1>3. QED
    BY <1>2, EditsTell DEF DeskInductive, DeskInvariant

(* Theorem: of each field of each account and ticket the trail's entries   *)
(* join up and end at the row, but for a loose entry, a muted field and a  *)
(* field behind, and everything has its type, for any numbers of requests  *)
(* interleaved and dying at any point, and however the trails are pruned.  *)
THEOREM DeskIsSound == Spec => []DeskInvariant
  <1>1. Init => DeskInductive
    BY TicketStarts, LeftOutStarts, EditsStart, TrailsStart, RestStarts DEF DeskInductive
  <1>2. DeskInductive /\ [Next]_vars => DeskInductive'
    BY TicketsAreKept, LeftOutIsKept, EditsAreKept, TrailsAreKept, RestIsKept
    DEF DeskInductive, TicketInv
  <1>3. QED
    BY <1>1, <1>2, DeskParts, PTL DEF Spec
=============================================================================
