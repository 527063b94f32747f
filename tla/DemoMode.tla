------------------------------ MODULE DemoMode ------------------------------
(***************************************************************************)
(* Demo mode (apps/api/src/demo, jobs/demo-reset.ts, the hooks of auth.ts, *)
(* and the budget routes/ai.ts asks): strangers who are let in without a   *)
(* credential for two hours, at most so many an hour from an address, on a *)
(* daily allowance of AI, and a reset at midnight that removes those whose *)
(* time is up and puts the showcase back.                                  *)
(*                                                                         *)
(* The clock counts in ticks of which an hour has Hour, a demo session     *)
(* Life and a day Day.  Starts, requests, AI calls and resets interleave,  *)
(* each let in by what it read a step earlier; a restart ends what is      *)
(* under way, forgets what is in memory and may flip the switch.           *)
(***************************************************************************)
EXTENDS Naturals, FiniteSets

CONSTANTS
    Hour, Life, Day,  \* lengths, in ticks
    MaxStarts,        \* DEMO_SESSIONS_PER_IP_PER_HOUR
    Limit,            \* DEMO_AI_DAILY_USD, in calls
    MaxVisitors,      \* bound: identities minted
    MaxCalls,         \* bound: AI calls under way together
    MaxClock,         \* bound: how long it is watched
    MaxRestarts,      \* bound: restarts
    MaxTickets        \* bound: rows the showcase's ticket ever has

ASSUME DemoAssumption ==
    /\ {Hour, Life, Day, MaxStarts, MaxVisitors, MaxTickets} \subseteq (Nat \ {0})
    /\ {Limit, MaxCalls, MaxClock, MaxRestarts} \subseteq Nat

VARIABLES
    clock, on,   \* the time, and DEMO_MODE_ENABLED
    user,        \* each identity: not minted yet, here, removed
    signIn,      \* how far its start has got
    row,         \* its row in the sessions table
    cookie,      \* the cached copy of the session in its browser
    admissions,  \* the window of the one address they all come from
    started,     \* ghost: every admission since the last restart
    restarts,    \* how often the process was restarted
    refused,     \* ghost: who an identity's session was refused to, if it was
    swept,       \* ghost: when the last reset removed identities
    calling,     \* AI calls past the check, not answered yet
    answered,    \* AI calls answered, not charged yet
    spent,       \* today's row of demo_ai_spend
    reset,       \* each reset under way, and the tickets it has read
    tickets      \* the ids of the rows of one ticket of the showcase

clockVars == <<clock, on, restarts>>
visitVars == <<user, signIn, row, cookie, admissions, started, refused, swept>>
aiVars == <<calling, answered, spent>>
showVars == <<reset, tickets>>
vars == <<clockVars, visitVars, aiVars, showVars>>

Visitors == 1..MaxVisitors
Resets == {"nightly", "command"}

(* Who asks whether a session is one: the visitor's page over HTTP, whose  *)
(* answer carries cookies to the browser, and the routes' guards, which    *)
(* make the call themselves and keep nothing of the answer but who it is.  *)
Askers == {"page", "guard"}

Session == [there : BOOLEAN, startedAt : 0..MaxClock, expiresAt : 0..(MaxClock + Life)]
NoSession == [there |-> FALSE, startedAt |-> 0, expiresAt |-> 0]

(* Of the times kept for an address nothing is asked but which of them     *)
(* still count and how many those are: a set of them, each with whose.     *)
Admission == [at : 0..MaxClock, by : Visitors]

Reset == [step : {"idle", "visitors", "read", "commit"}, doomed : SUBSET (1..MaxTickets)]
NoReset == [step |-> "idle", doomed |-> {}]

TypeOK ==
    /\ clock \in 0..MaxClock /\ on \in BOOLEAN /\ restarts \in 0..MaxRestarts
    /\ user \in [Visitors -> {"none", "here", "gone"}]
    /\ signIn \in [Visitors -> {"none", "admitted", "minted", "in", "failed"}]
    /\ row \in [Visitors -> Session]
    /\ cookie \in [Visitors -> Session]
    /\ {admissions, started} \subseteq SUBSET Admission
    /\ refused \in [Visitors -> {"no"} \cup Askers]
    /\ swept \in 0..MaxClock
    /\ {calling, answered} \subseteq 0..MaxCalls
    /\ spent \in Nat
    /\ reset \in [Resets -> Reset]
    /\ tickets \in SUBSET (1..MaxTickets)

Init ==
    /\ clock = 0 /\ on \in BOOLEAN /\ restarts = 0
    /\ user = [v \in Visitors |-> "none"]
    /\ signIn = [v \in Visitors |-> "none"]
    /\ row = [v \in Visitors |-> NoSession]
    /\ cookie = [v \in Visitors |-> NoSession]
    /\ admissions = {} /\ started = {}
    /\ refused = [v \in Visitors |-> "no"] /\ swept = 0
    /\ calling = 0 /\ answered = 0 /\ spent = 0
    /\ reset = [p \in Resets |-> NoReset]
    /\ tickets = {1}

-----------------------------------------------------------------------------
(* The start of a visit.                                                   *)

(* Mutant: the window is the hour of the clock.                            *)
RecentByTheClock(times) == {a \in times : a.at \div Hour = clock \div Hour}

(* slidingWindow: what of an address's admissions still counts.            *)
Recent(times) == {a \in times : clock - a.at < Hour}

(* The hook before /sign-in/anonymous, and the first identity not used.    *)
StartVisit(v) ==
    /\ user[v] = "none" /\ signIn[v] = "none"
    /\ \A w \in Visitors : w < v => signIn[w] # "none"
    /\ on
    /\ IF Cardinality(Recent(admissions)) < MaxStarts
       THEN /\ admissions' = Recent(admissions) \cup {[at |-> clock, by |-> v]}
            /\ started' = started \cup {[at |-> clock, by |-> v]}
            /\ signIn' = [signIn EXCEPT ![v] = "admitted"]
       ELSE /\ admissions' = Recent(admissions)
            /\ UNCHANGED <<started, signIn>>
    /\ UNCHANGED <<clockVars, user, row, cookie, refused, swept, aiVars, showVars>>

(* The plugin creates the user ...                                         *)
Mint(v) ==
    /\ signIn[v] = "admitted"
    /\ user' = [user EXCEPT ![v] = "here"]
    /\ signIn' = [signIn EXCEPT ![v] = "minted"]
    /\ UNCHANGED <<clockVars, row, cookie, admissions, started, refused, swept,
                   aiVars, showVars>>

demoSessionEndsAt(startedAt) == startedAt + Life

NewSession == [there |-> TRUE, startedAt |-> clock, expiresAt |-> demoSessionEndsAt(clock)]

(* ... and its session, which the foreign key turns down if a reset has    *)
(* removed the user meanwhile.  The answer has a copy of it in a cookie.   *)
CreateSession(v) ==
    /\ signIn[v] = "minted"
    /\ IF user[v] = "here"
       THEN /\ row' = [row EXCEPT ![v] = NewSession]
            /\ cookie' = [cookie EXCEPT ![v] = NewSession]
            /\ signIn' = [signIn EXCEPT ![v] = "in"]
       ELSE signIn' = [signIn EXCEPT ![v] = "failed"] /\ UNCHANGED <<row, cookie>>
    /\ UNCHANGED <<clockVars, user, admissions, started, refused, swept, aiVars, showVars>>

-----------------------------------------------------------------------------
(* /get-session, which the page asks and every guard.                      *)

Current(s) == s.there /\ clock < s.expiresAt

(* demoSessionRefused, on whatever the handler has answered.               *)
Refused(s) == ~on \/ clock >= demoSessionEndsAt(s.startedAt)

(* Mutant: the refresh gives a demo session the week it gives everybody.   *)
RefreshedForAWeek(s) == [s EXCEPT !.expiresAt = clock + 7 * Day]

(* The update hook: the refresh leaves a demo session the end it has.      *)
Refreshed(s) == [s EXCEPT !.expiresAt = demoSessionEndsAt(s.startedAt)]

(* What the browser is left with after an answer: cookies reach it with a  *)
(* page's answer only.                                                     *)
SetsCookie(v, asker, s) ==
    cookie' = IF asker = "page" THEN [cookie EXCEPT ![v] = s] ELSE cookie

(* Mutant: the cookie is taken back, the row left for its two hours.       *)
ForgetCookie(v, asker) ==
    /\ SetsCookie(v, asker, NoSession)
    /\ UNCHANGED row

(* A refusal deletes the row, and expires the cookies on an answer that    *)
(* the guards throw away: the copy a guard was refused on stays where it   *)
(* is for the rest of its sixty seconds.                                   *)
Forget(v, asker) ==
    /\ row' = [row EXCEPT ![v] = NoSession]
    /\ SetsCookie(v, asker, NoSession)

(* The cookie answers while its copy is good, and the row after that.      *)
Found(v) == IF Current(cookie[v]) THEN cookie[v] ELSE row[v]

(* The hook after the handler sees what was found either way.  Reading the *)
(* row refreshes it, and fills the cookie where that reaches a browser.    *)
GetSession(v, asker) ==
    /\ Found(v).there
    /\ \/ /\ Current(Found(v)) /\ Refused(Found(v))
          /\ Forget(v, asker)
          /\ refused' = [refused EXCEPT ![v] = asker]
       \/ /\ ~Current(Found(v))
          /\ Forget(v, asker)
          /\ UNCHANGED refused
       \/ /\ ~Current(cookie[v]) /\ Current(row[v]) /\ ~Refused(row[v])
          /\ row' = [row EXCEPT ![v] = Refreshed(@)]
          /\ SetsCookie(v, asker, Refreshed(row[v]))
          /\ UNCHANGED refused
    /\ UNCHANGED <<clockVars, user, signIn, admissions, started, swept, aiVars, showVars>>

(* The copy's sixty seconds are over.                                      *)
Lapse(v) ==
    /\ cookie' = [cookie EXCEPT ![v] = NoSession]
    /\ UNCHANGED <<clockVars, user, signIn, row, admissions, started, refused, swept,
                   aiVars, showVars>>

Served(v) == Current(Found(v)) /\ ~Refused(Found(v))

-----------------------------------------------------------------------------
(* AI on request.                                                          *)

(* Mutant: at the limit there is one more.                                 *)
LimitPassed == spent > Limit

(* "At the limit counts as spent."                                         *)
demoAiLimitReached == spent >= Limit

(* refuseSpentDemo: asked before the call, and nothing is set aside.       *)
AskAi ==
    /\ \E v \in Visitors : Served(v)
    /\ calling + answered < MaxCalls
    /\ ~demoAiLimitReached
    /\ calling' = calling + 1
    /\ UNCHANGED <<clockVars, visitVars, answered, spent, showVars>>

(* The provider answers, or fails without having used anything.            *)
ProviderAnswers ==
    /\ calling > 0
    /\ calling' = calling - 1
    /\ answered' \in {answered, answered + 1}
    /\ UNCHANGED <<clockVars, visitVars, spent, showVars>>

(* chargeDemoCall, to the day it finishes on; a write that fails is        *)
(* swallowed.                                                              *)
chargeDemoCall ==
    /\ answered > 0
    /\ answered' = answered - 1
    /\ spent' \in {spent, spent + 1}
    /\ UNCHANGED <<clockVars, visitVars, calling, showVars>>

-----------------------------------------------------------------------------
(* The reset: the nightly, and db:seed:tickets --reset run by hand.        *)

(* At midnight, while demo mode is on; one that was killed is not retried, *)
(* but may be sent again.                                                  *)
BeginReset(p) ==
    /\ reset[p].step = "idle"
    /\ p = "nightly" => clock % Day = 0 /\ clock # swept /\ on
    /\ reset' = [reset EXCEPT ![p].step = IF p = "nightly" THEN "visitors" ELSE "read"]
    /\ UNCHANGED <<clockVars, visitVars, aiVars, tickets>>

(* Without a session that is live.                                         *)
Over(v) == user[v] = "here" /\ ~Current(row[v])

RemoveVisitors ==
    /\ reset["nightly"].step = "visitors"
    /\ user' = [v \in Visitors |-> IF Over(v) THEN "gone" ELSE user[v]]
    /\ row' = [v \in Visitors |-> IF Over(v) THEN NoSession ELSE row[v]]
    /\ swept' = clock
    /\ reset' = [reset EXCEPT !["nightly"].step = "read"]
    /\ UNCHANGED <<clockVars, signIn, cookie, admissions, started, refused, aiVars,
                   tickets>>

(* seedShowcase: which tickets there are ...                               *)
ReadShowcase(p) ==
    /\ reset[p].step = "read"
    /\ reset' = [reset EXCEPT ![p] = [step |-> "commit", doomed |-> tickets]]
    /\ UNCHANGED <<clockVars, visitVars, aiVars, tickets>>

(* An id that is nobody's, nor among the ids read; the first of them.      *)
Fresh(i) == i \notin tickets \cup UNION {reset[p].doomed : p \in Resets}
NextTicket == {i \in 1..MaxTickets : Fresh(i) /\ \A j \in 1..(i - 1) : ~Fresh(j)}

(* ... and in one transaction out with them and in with new ones.  Their   *)
(* Message-IDs are the same ones, so if a ticket is left the unique index  *)
(* turns the whole transaction down.                                       *)
WriteShowcase(p) ==
    LET left == tickets \ reset[p].doomed IN
    /\ reset[p].step = "commit"
    /\ \E new \in NextTicket : tickets' = IF left = {} THEN {new} ELSE tickets
    /\ reset' = [reset EXCEPT ![p] = NoReset]
    /\ UNCHANGED <<clockVars, visitVars, aiVars>>

-----------------------------------------------------------------------------
(* demo_ai_spend has a row per day; a copy in a cookie is old by now.      *)
Tick ==
    /\ clock < MaxClock
    /\ clock' = clock + 1
    /\ spent' = IF (clock + 1) % Day = 0 THEN 0 ELSE spent
    /\ cookie' = [v \in Visitors |-> NoSession]
    /\ UNCHANGED <<on, restarts, user, signIn, row, admissions, started, refused, swept,
                   calling, answered, showVars>>

Restart ==
    /\ restarts < MaxRestarts
    /\ restarts' = restarts + 1
    /\ on' \in BOOLEAN
    /\ admissions' = {} /\ started' = {}
    /\ signIn' = [v \in Visitors |->
                    IF signIn[v] \in {"admitted", "minted"} THEN "failed" ELSE signIn[v]]
    /\ calling' = 0 /\ answered' = 0
    /\ reset' = [reset EXCEPT !["nightly"] = NoReset]
    /\ UNCHANGED <<clock, user, row, cookie, refused, swept, spent, tickets>>

Next ==
    \/ \E v \in Visitors :
         \/ StartVisit(v) \/ Mint(v) \/ CreateSession(v)
         \/ \E asker \in Askers : GetSession(v, asker)
         \/ Lapse(v)
    \/ AskAi \/ ProviderAnswers \/ chargeDemoCall
    \/ RemoveVisitors
    \/ \E p \in Resets : BeginReset(p) \/ ReadShowcase(p) \/ WriteShowcase(p)
    \/ Tick \/ Restart

Spec == Init /\ [][Next]_vars

-----------------------------------------------------------------------------
(* Safety.                                                                 *)

(* Between two restarts no hour, wherever it begins, sees more starts from *)
(* an address than it may have, however refused attempts fall between.     *)
NoHourIsOverfull ==
    \A t \in 0..MaxClock :
        Cardinality({a \in started : t <= a.at /\ a.at < t + Hour}) <= MaxStarts

(* "So switching demo mode back on does not revive it": a session refused  *)
(* once has no row from then on, and after a refusal its page has seen no  *)
(* copy either.  What a guard's refusal leaves is the copy it was refused  *)
(* on: nothing renews it, and with its sixty seconds it is over for good.  *)
RefusedIsNotRevived ==
    [][\A v \in Visitors :
         /\ refused'[v] # "no" => ~row'[v].there
         /\ refused'[v] = "page" => ~cookie'[v].there
         /\ refused[v] = "guard" => cookie'[v] \in {cookie[v], NoSession}]_vars

(* No identity outlives its two hours past a midnight: what a visitor's    *)
(* own requests make of the row does not keep them from the reset.         *)
NobodyLingers ==
    \A v \in Visitors :
        user[v] = "here" /\ row[v].there => demoSessionEndsAt(row[v].startedAt) > swept

(* A visitor mid-demo is not removed from under their session: whom the    *)
(* reset has removed is answered no more, from the cookie either, but from *)
(* a copy that a guard's refusal has left.                                 *)
GoneIsOut ==
    \A v \in Visitors : user[v] = "gone" /\ refused[v] # "guard" => ~Served(v)

(* "A day can overshoot by the cost of whatever was running at that        *)
(* moment", and by no more: the call that reaches the limit and the ones   *)
(* that were under way beside it.                                          *)
BudgetHolds == Limit > 0 => spent + calling + answered <= Limit - 1 + MaxCalls

(* Each ticket of the showcase is on the desk once, at every moment: no    *)
(* visitor finds it empty while a reset runs, and two resets at once do    *)
(* not leave it double.                                                    *)
ShowcaseStands == Cardinality(tickets) = 1

(* What every reachable state satisfies, by parts: the start limit holds,  *)
(* nobody is removed mid-demo, and the showcase is whole.                  *)
DemoInvariant == TypeOK /\ NoHourIsOverfull /\ GoneIsOut /\ ShowcaseStands
=============================================================================
