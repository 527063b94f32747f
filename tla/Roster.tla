------------------------------- MODULE Roster -------------------------------
(***************************************************************************)
(* Who is on the desk: the accounts and their roles, the admins' routes    *)
(* over them (apps/api/src/routes/users.ts), the guard in front of every   *)
(* route (middleware/auth.ts) and the sessions it asks about, with their   *)
(* copy in a cookie (auth.ts).                                             *)
(*                                                                         *)
(* A route is let in, reads the account it is about, decides, writes, and  *)
(* on an edit records what moved in a further write.  Each is a step, and  *)
(* the routes of two admins interleave between them.  Of what an edit      *)
(* carries, the name and the role are followed; the address is not, being  *)
(* read nowhere else.  The trail loses its oldest entries after a year     *)
(* (prune-activity-trails.ts).  The roster is shared with the agents'      *)
(* routes: module Desk.                                                    *)
(***************************************************************************)
EXTENDS Naturals, Sequences

CONSTANTS
    Accounts,      \* rows of the user table, there or yet to be created
    FirstAdmins,   \* the admins the deployment starts with
    FirstAgents,   \* its agents
    Automated,     \* the assistant's account
    Names,         \* what they may be called
    NameOf,        \* what each is called at first
    UserRequests,  \* slots for the requests to the users' routes
    Touched,       \* bound: the accounts requests are about, but for creations
    Bodies,        \* bound: the names and roles an edit asks for
    MaxEvents      \* bound: requests let in, sign-ins, cookies renewed,
                   \* processes killed, entries pruned

ASSUME RosterAssumption ==
    /\ FirstAdmins # {}
    /\ FirstAdmins \cup FirstAgents \cup Automated \cup Touched \subseteq Accounts
    /\ FirstAdmins \cap FirstAgents = {}
    /\ (FirstAdmins \cup FirstAgents) \cap Automated = {}
    /\ "none" \notin Accounts \cup Names
    /\ NameOf \in [Accounts -> Names]
    /\ Bodies \subseteq [name : Names, role : {"admin", "agent"}]
    /\ MaxEvents \in Nat

VARIABLES
    account,     \* each row: absent, here or deleted; its name and its role
    session,     \* whether an account has a row in the sessions table
    cookie,      \* the role in the cached copy its browser carries, or "none"
    signing,     \* accounts of which a sign-in is past the check for a ban
    req,         \* the admins' requests under way
    adminTrail,  \* AdminActivity, by target
    events,      \* how much of MaxEvents has been used
    adminBase,   \* ghost: where the entries pruned by now left each account
    swayed,      \* ghost: an account was changed by one who was no admin any
                 \* more, or was their own or deleted after its role had moved
    overlapped,  \* ghost: fields of accounts whose trail has fallen behind: two
                 \* edits were under way at once, or one died before it was
                 \* recorded, and no entry of the field has caught up since
    slipped      \* ghost: accounts deleted while a sign-in of theirs was under way

accountVars == <<account, session, cookie, signing>>
requestVars == <<req, adminTrail, events, adminBase, swayed, overlapped, slipped>>
rosterVars == <<account, session, cookie, signing,
                req, adminTrail, events, adminBase, swayed, overlapped, slipped>>

USER_ROLE == {"admin", "agent"}

USER_FIELDS == {"name", "role"}

AdminUserFields == [name : Names, role : USER_ROLE]

Account == [standing : {"absent", "here", "deleted"}, name : Names, role : USER_ROLE]

(* An entry tells of one field that moved, or of what was done to the      *)
(* account.  `loose` is a ghost: nothing is claimed of where it starts.    *)
Entry ==
    [field : {"name"}, from : Names, to : Names, loose : BOOLEAN]
        \cup [field : {"role"}, from : USER_ROLE, to : USER_ROLE, loose : BOOLEAN]
        \cup [field : {"user_created", "user_invited", "user_deleted"},
              from : {"none"}, to : {"none"}, loose : BOOLEAN]

Told(action) == [field |-> action, from |-> "none", to |-> "none", loose |-> FALSE]

Nothing == [name |-> "none", role |-> "none"]

Req == [step : {"idle", "create", "welcome", "readEdit", "write", "record",
                "readDelete", "orphans", "commit"},
        by : Accounts \cup {"none"}, target : Accounts \cup {"none"},
        asked : AdminUserFields \cup {Nothing},   \* what the body asks for
        before : AdminUserFields \cup {Nothing},  \* what the row said when read
        alone : BOOLEAN]  \* ghost: a written edit that no other one overlaps

NoReq == [step |-> "idle", by |-> "none", target |-> "none",
          asked |-> Nothing, before |-> Nothing, alone |-> FALSE]

RosterTypeOK ==
    /\ account \in [Accounts -> Account]
    /\ session \in [Accounts -> BOOLEAN]
    /\ cookie \in [Accounts -> USER_ROLE \cup {"none"}]
    /\ signing \in SUBSET Accounts
    /\ req \in [UserRequests -> Req]
    /\ adminTrail \in [Accounts -> Seq(Entry)]
    /\ events \in 0..MaxEvents
    /\ adminBase \in [Accounts -> AdminUserFields]
    /\ swayed \in BOOLEAN
    /\ overlapped \in SUBSET (Accounts \X USER_FIELDS)
    /\ slipped \in SUBSET Accounts

FirstRole(u) == IF u \in FirstAdmins THEN "admin" ELSE "agent"

(* Everybody who can sign in has, some admins with a copy in the cookie;   *)
(* no request is under way.                                                *)
RosterInit ==
    /\ account = [u \in Accounts |->
                    [standing |-> IF u \in FirstAdmins \cup FirstAgents \cup Automated
                                  THEN "here" ELSE "absent",
                     name |-> NameOf[u], role |-> FirstRole(u)]]
    /\ session = [u \in Accounts |-> u \in FirstAdmins \cup FirstAgents]
    /\ \E fresh \in SUBSET FirstAdmins :
         cookie = [u \in Accounts |-> IF u \in fresh THEN "admin" ELSE "none"]
    /\ signing = {}
    /\ req = [r \in UserRequests |-> NoReq]
    /\ adminTrail = [u \in Accounts |-> <<>>]
    /\ events = 0
    /\ adminBase = [u \in Accounts |-> [name |-> NameOf[u], role |-> FirstRole(u)]]
    /\ swayed = FALSE
    /\ overlapped = {}
    /\ slipped = {}

IsAdmin(u) == account[u].standing = "here" /\ account[u].role = "admin"

Happens == events < MaxEvents /\ events' = events + 1

-----------------------------------------------------------------------------
(* Sessions.                                                               *)

(* lookupSession: the cookie answers while it is fresh, and only then is   *)
(* the sessions table read.                                                *)
RoleOf(u) ==
    IF cookie[u] # "none" THEN cookie[u]
    ELSE IF session[u] THEN account[u].role ELSE "none"

requireAuth(u) == RoleOf(u) # "none"
requireAdmin(u) == RoleOf(u) = "admin"

(* The page asks who is signed in, which leaves the answer in the cookie;  *)
(* the guards, which ask from inside the API, leave the cookie alone.      *)
AsksSession(u) ==
    /\ cookie[u] = "none"
    /\ session[u]
    /\ Happens
    /\ cookie' = [cookie EXCEPT ![u] = account[u].role]
    /\ UNCHANGED <<account, session, signing, req, adminTrail, adminBase, swayed,
                   overlapped, slipped>>

(* maxAge: the copy in the cookie is good for a minute.                    *)
CookieExpires(u) ==
    /\ cookie[u] # "none"
    /\ cookie' = [cookie EXCEPT ![u] = "none"]
    /\ UNCHANGED <<account, session, signing, requestVars>>

(* A colleague signs in, in one more browser perhaps.  Better Auth refuses *)
(* one who is banned, which a deleted one is, ...                          *)
BeginsSignIn(u) ==
    /\ account[u].standing = "here"
    /\ u \notin Automated \cup signing
    /\ Happens
    /\ signing' = signing \cup {u}
    /\ UNCHANGED <<account, session, cookie, req, adminTrail, adminBase, swayed,
                   overlapped, slipped>>

(* ... and the row comes after the hook that reads the user once more, for *)
(* whether it is a demo's and for nothing else.                            *)
SignsIn(u) ==
    /\ u \in signing
    /\ session' = [session EXCEPT ![u] = TRUE]
    /\ signing' = signing \ {u}
    /\ UNCHANGED <<account, cookie, requestVars>>

-----------------------------------------------------------------------------
(* The admins' routes.                                                     *)

(* Slots are alike: a request takes the first that is free.                *)
Takes(r, pending) ==
    LET free == {s \in DOMAIN pending : pending[s].step = "idle"} IN
    free # {} /\ r = CHOOSE s \in free : TRUE

(* The guard, and a body that parses.                                      *)
LetIn(r, step, u, target, asked) ==
    /\ Happens
    /\ Takes(r, req)
    /\ requireAdmin(u)
    /\ req' = [req EXCEPT ![r] = [NoReq EXCEPT !.step = step, !.by = u,
                                               !.target = target, !.asked = asked]]
    /\ UNCHANGED <<accountVars, adminTrail, adminBase, swayed, overlapped, slipped>>

AsksToCreate(r, u, target) ==
    account[target].standing = "absent" /\ LetIn(r, "create", u, target, Nothing)
AsksToEdit(r, u, target, asked) ==
    account[target].standing # "absent" /\ LetIn(r, "readEdit", u, target, asked)
AsksToDelete(r, u, target) ==
    account[target].standing # "absent" /\ LetIn(r, "readDelete", u, target, Nothing)

GoOn(r, step) == req' = [req EXCEPT ![r].step = step]
Answer(r) == req' = [req EXCEPT ![r] = NoReq]

Records(u, entries) == adminTrail' = [adminTrail EXCEPT ![u] = @ \o entries]

(* POST /: an account without a password, always an agent's.  Better Auth  *)
(* asks once more who is calling, and takes an address once.               *)
Create(r) ==
    LET u == req[r].target
        allowed == requireAdmin(req[r].by) /\ account[u].standing = "absent" IN
    /\ req[r].step = "create"
    /\ IF allowed THEN GoOn(r, "welcome") ELSE Answer(r)
    /\ account' = IF allowed THEN [account EXCEPT ![u].standing = "here"] ELSE account
    /\ UNCHANGED <<session, cookie, signing, adminTrail, events, adminBase, swayed,
                   overlapped, slipped>>

Welcome(r) ==
    /\ req[r].step = "welcome"
    /\ Records(req[r].target, <<Told("user_created"), Told("user_invited")>>)
    /\ Answer(r)
    /\ UNCHANGED <<accountVars, events, adminBase, swayed, overlapped, slipped>>

(* What a route reads of an account, for its guards and for the trail.     *)
Reading(u) == [name |-> account[u].name, role |-> account[u].role]

(* Mutant: the account is the caller's own, and may be moved.              *)
OwnMoveAllowed(q, before) == FALSE

(* Nobody moves their own role, and the assistant is left alone.           *)
OwnMove(q, before) == q.target = q.by /\ q.asked.role # before.role

(* PATCH /:id reads the account: one read for the guard and for the trail. *)
ReadEdit(r) ==
    LET q == req[r]
        before == Reading(q.target) IN
    /\ q.step = "readEdit"
    /\ IF q.target \in Automated \/ OwnMove(q, before)
       THEN Answer(r)
       ELSE req' = [req EXCEPT ![r].step = "write", ![r].before = before]
    /\ UNCHANGED <<accountVars, adminTrail, events, adminBase, swayed, overlapped,
                   slipped>>

(* The entry of one field, if it differs between two readings.             *)
diffToEntries(before, after, f, loose) ==
    IF before[f] = after[f] THEN <<>>
    ELSE <<[field |-> f, from |-> before[f], to |-> after[f], loose |-> f \in loose]>>

userEditChanges(before, after, loose) ==
    diffToEntries(before, after, "name", loose)
        \o diffToEntries(before, after, "role", loose)

(* An edit of u has been written and not yet recorded.                     *)
Recording(r, u) == req[r].step = "record" /\ req[r].target = u

MovedFields(q) == {f \in USER_FIELDS : q.before[f] # q.asked[f]}

(* ... writes it through Better Auth, all of it in one call, which asks    *)
(* once more who is calling and not what the account says by now ...       *)
WriteEdit(r) ==
    LET q == req[r]
        u == q.target
        others == {o \in UserRequests \ {r} : Recording(o, u)}
        alone == q.before = Reading(u) /\ others = {} IN
    /\ q.step = "write"
    /\ IF requireAdmin(q.by)
       THEN /\ account' = [account EXCEPT ![u].name = q.asked.name,
                                          ![u].role = q.asked.role]
            /\ swayed' = (swayed \/ ~IsAdmin(q.by)
                          \/ (q.by = u /\ q.before.role # account[u].role))
            /\ overlapped' = IF alone THEN overlapped
                             ELSE overlapped \cup ({u} \X USER_FIELDS)
            /\ req' = [o \in UserRequests |->
                         IF o = r THEN [q EXCEPT !.step = "record", !.alone = alone]
                         ELSE IF o \in others THEN [req[o] EXCEPT !.alone = FALSE]
                         ELSE req[o]]
       ELSE Answer(r) /\ UNCHANGED <<account, swayed, overlapped>>
    /\ UNCHANGED <<session, cookie, signing, adminTrail, events, adminBase, slipped>>

(* ... and records what moved since it read it, in a write of its own.     *)
RecordEdit(r) ==
    LET q == req[r]
        behind == {f \in USER_FIELDS : <<q.target, f>> \in overlapped} IN
    /\ q.step = "record"
    /\ Records(q.target, userEditChanges(q.before, q.asked, behind))
    /\ overlapped' = IF q.alone THEN overlapped \ ({q.target} \X MovedFields(q))
                     ELSE overlapped
    /\ Answer(r)
    /\ UNCHANGED <<accountVars, events, adminBase, swayed, slipped>>

(* DELETE /:id reads the account, and refuses an admin's and the           *)
(* assistant's.                                                            *)
ReadDelete(r) ==
    LET u == req[r].target IN
    /\ req[r].step = "readDelete"
    /\ IF account[u].standing = "deleted" \/ account[u].role = "admin" \/ u \in Automated
       THEN Answer(r)
       ELSE req' = [req EXCEPT ![r].step = "orphans", ![r].before = Reading(u)]
    /\ UNCHANGED <<accountVars, adminTrail, events, adminBase, swayed, overlapped,
                   slipped>>

(* Mutant: the soft delete is thought to end the sessions.                 *)
DeleteSoftly(r) ==
    LET u == req[r].target IN
    /\ req[r].step = "commit"
    /\ account' = [account EXCEPT ![u].standing = "deleted"]
    /\ Records(u, <<Told("user_deleted")>>)
    /\ swayed' = (swayed \/ ~IsAdmin(req[r].by) \/ IsAdmin(u))
    /\ slipped' = slipped \cup ({u} \cap signing)
    /\ Answer(r)
    /\ UNCHANGED <<session, cookie, signing, events, adminBase, overlapped>>

(* The account's part of the transaction that deletes it.  Between the     *)
(* read and this, its tickets are listed: module Desk.                     *)
Delete(r) ==
    LET u == req[r].target IN
    /\ req[r].step = "commit"
    /\ account' = [account EXCEPT ![u].standing = "deleted"]
    /\ session' = [session EXCEPT ![u] = FALSE]
    /\ Records(u, <<Told("user_deleted")>>)
    /\ swayed' = (swayed \/ ~IsAdmin(req[r].by) \/ IsAdmin(u))
    /\ slipped' = slipped \cup ({u} \cap signing)
    /\ Answer(r)
    /\ UNCHANGED <<cookie, signing, events, adminBase, overlapped>>

(* The process dies under a request.                                       *)
RequestDies(r) ==
    LET q == req[r] IN
    /\ q.step # "idle"
    /\ Happens
    /\ overlapped' = IF q.step = "record"
                     THEN overlapped \cup ({q.target} \X MovedFields(q))
                     ELSE overlapped
    /\ Answer(r)
    /\ UNCHANGED <<accountVars, adminTrail, adminBase, swayed, slipped>>

(* pruneAdminActivity: the oldest entry of the trail has become a year     *)
(* old and goes, whatever is under way.                                    *)
PruneAdminActivity(u) ==
    LET oldest == Head(adminTrail[u]) IN
    /\ adminTrail[u] # <<>>
    /\ Happens
    /\ adminTrail' = [adminTrail EXCEPT ![u] = Tail(@)]
    /\ adminBase' = IF oldest.field \in USER_FIELDS
                    THEN [adminBase EXCEPT ![u][oldest.field] = oldest.to]
                    ELSE adminBase
    /\ UNCHANGED <<accountVars, req, swayed, overlapped, slipped>>
-----------------------------------------------------------------------------
(* Safety.                                                                 *)

(* "This is the whole of the protection against a desk with no admins      *)
(* left": an account is only ever demoted by another admin and an admin's  *)
(* is never deleted, so one remains, through creates, edits and deletes    *)
(* interleaved in any way; as long as what each request decided on, its    *)
(* caller's role and an account's of its own, still holds when it writes.  *)
AdminRemains == ~swayed => \E u \in Accounts : IsAdmin(u)

(* `value` is what the entries of a trail at `mine` leave behind, having   *)
(* started from `first`.                                                   *)
Leave(entries, mine, first, value) ==
    /\ mine = {} => value = first
    /\ \A i \in mine : (\A j \in mine : j <= i) => value = entries[i].to

EntriesOf(entries, f) == {i \in DOMAIN entries : entries[i].field = f}

(* The entries of a field start from what those before them left ...       *)
JoinUp(entries, f, first) ==
    \A i \in EntriesOf(entries, f) :
       entries[i].loose
          \/ Leave(entries, {j \in EntriesOf(entries, f) : j < i}, first, entries[i].from)

(* ... and the last of them ends at `value`.                               *)
EndAt(entries, f, first, value) == Leave(entries, EntriesOf(entries, f), first, value)

(* The entries of an account join up, each starting from what the one      *)
(* before it left, be that one pruned by now, and end at the name and the  *)
(* role it has: nothing moves without an entry and no entry tells a move   *)
(* that did not happen.  Where two edits were under way at once, or one    *)
(* died before it was recorded, that fails of their own entries and until  *)
(* the next edit of the field is recorded, and of nothing else.            *)
EditsAreRecorded ==
    \A u \in Accounts, f \in USER_FIELDS :
       /\ JoinUp(adminTrail[u], f, adminBase[u][f])
       /\ \/ <<u, f>> \in overlapped
          \/ \E r \in UserRequests : Recording(r, u)
          \/ EndAt(adminTrail[u], f, adminBase[u][f], account[u][f])

(* A deleted colleague is let in for as long as the cookie they had is     *)
(* good, and once it has run out never again: the sessions went with the   *)
(* account, so nothing renews it.  Only a sign-in that was under way when  *)
(* the account was deleted leaves one.                                     *)
DeletedStaysOut ==
    [][\A u \in Accounts \ slipped :
         account[u].standing = "deleted" /\ cookie[u] = "none"
            => ~requireAuth(u) /\ ~requireAuth(u)']_rosterVars
=============================================================================
