--------------------------- MODULE DemoEvalProofs ---------------------------
(***************************************************************************)
(* Proofs about the two parts of the system that spend on their own: the   *)
(* demo (DemoMode), for sessions, hours and days of any length, any number *)
(* of visitors, calls and restarts and any limits; and the eval screen     *)
(* (EvalPlans with the EvalRuns it composes), for any number of plans,     *)
(* runs, cases, workers and mishaps and any retry limit.                   *)
(***************************************************************************)
EXTENDS DemoMode, EvalPlans, FiniteSetTheorems, TLAPS

-----------------------------------------------------------------------------
(* The daily budget.                                                       *)

BudgetInv ==
    /\ calling \in Nat /\ answered \in Nat /\ spent \in Nat
    /\ calling + answered <= MaxCalls
    /\ BudgetHolds

LEMMA BudgetInit == Init => BudgetInv
  BY DemoAssumption DEF Init, BudgetInv, BudgetHolds

LEMMA BudgetStep == BudgetInv /\ [Next]_vars => BudgetInv'
  <1> SUFFICES ASSUME BudgetInv, [Next]_vars PROVE BudgetInv'
    OBVIOUS
  <1> USE DemoAssumption DEF BudgetInv, BudgetHolds
  <1>1. CASE AskAi
    BY <1>1 DEF AskAi, demoAiLimitReached
  <1>2. CASE ProviderAnswers
    BY <1>2 DEF ProviderAnswers
  <1>3. CASE chargeDemoCall
    BY <1>3 DEF chargeDemoCall
  <1>4. CASE Tick
    BY <1>4 DEF Tick
  <1>5. CASE Restart
    BY <1>5 DEF Restart
  <1>6. CASE UNCHANGED aiVars
    BY <1>6 DEF aiVars
  <1>7. QED
    BY <1>1, <1>2, <1>3, <1>4, <1>5, <1>6
       DEF Next, vars, StartVisit, Mint, CreateSession, GetSession, RemoveVisitors,
           Lapse, BeginReset, ReadShowcase, WriteShowcase

(* Theorem: however the calls of a day overlap, it overshoots its budget   *)
(* by no more than the calls under way when the limit was reached.         *)
THEOREM BudgetIsKept == Spec => []BudgetHolds
  <1>1. BudgetInv => BudgetHolds
    BY DEF BudgetInv
  <1>2. QED
    BY BudgetInit, BudgetStep, <1>1, PTL DEF Spec

-----------------------------------------------------------------------------
(* Sessions.                                                               *)

Instant == [there : BOOLEAN, startedAt : Nat, expiresAt : Nat]

VisitType ==
    /\ clock \in Nat /\ swept \in Nat /\ swept <= clock
    /\ refused \in [Visitors -> {"no"} \cup Askers]
    /\ user \in [Visitors -> {"none", "here", "gone"}]
    /\ signIn \in [Visitors -> {"none", "admitted", "minted", "in", "failed"}]
    /\ row \in [Visitors -> Instant]
    /\ cookie \in [Visitors -> Instant]

(* A row ends when its session does, which is after the last sweep.        *)
RowSound(v) ==
    row[v].there =>
        /\ row[v].expiresAt = row[v].startedAt + Life
        /\ row[v].expiresAt > swept
        /\ signIn[v] = "in" /\ user[v] = "here"

(* A cookie is a copy of the row, or of one that is over, or was left by a *)
(* guard's refusal.                                                        *)
CookieSound(v) ==
    cookie[v].there =>
        /\ signIn[v] = "in"
        /\ \/ cookie[v].expiresAt <= clock
           \/ refused[v] = "guard"
           \/ row[v].there /\ cookie[v].expiresAt = row[v].expiresAt

RefusedSound(v) ==
    /\ refused[v] # "no" => signIn[v] = "in" /\ ~row[v].there
    /\ refused[v] = "page" => ~cookie[v].there

VisitInv ==
    /\ VisitType
    /\ \A v \in Visitors : RowSound(v) /\ CookieSound(v) /\ RefusedSound(v)

LEMMA VisitInit == Init => VisitInv
  BY DemoAssumption DEF Init, VisitInv, VisitType, RowSound, CookieSound, RefusedSound,
     NoSession, Instant, Askers

LEMMA CreateSessionKeeps ==
  ASSUME VisitInv, NEW v \in Visitors, CreateSession(v)
  PROVE  VisitInv'
  <1>1. CASE user[v] # "here"
    BY <1>1 DEF CreateSession, VisitInv, VisitType, RowSound, CookieSound, RefusedSound,
       clockVars
  <1>2. CASE user[v] = "here"
    <2>1. clock + Life \in Nat /\ clock + Life > swept
      BY DemoAssumption DEF VisitInv, VisitType
    <2>2. VisitType'
      <3>1. NewSession \in Instant
        BY <2>1 DEF NewSession, demoSessionEndsAt, Instant, VisitInv, VisitType
      <3>2. QED
        BY <1>2, <3>1 DEF CreateSession, VisitInv, VisitType, clockVars
    <2>3. ASSUME NEW w \in Visitors
          PROVE  RowSound(w)' /\ CookieSound(w)' /\ RefusedSound(w)'
      BY <1>2, <2>1 DEF CreateSession, VisitInv, VisitType, RowSound, CookieSound,
         RefusedSound, Instant, clockVars, NewSession, demoSessionEndsAt
    <2>4. QED
      BY <2>2, <2>3 DEF VisitInv
  <1>3. QED
    BY <1>1, <1>2

LEMMA GetSessionKeeps ==
  ASSUME VisitInv, NEW v \in Visitors, NEW asker \in Askers, GetSession(v, asker)
  PROVE  VisitInv'
  <1>1. /\ clock' = clock /\ swept' = swept /\ user' = user /\ signIn' = signIn
        /\ row[v].there \/ cookie[v].there
    BY DEF GetSession, Found, Current, clockVars
  <1>2. signIn[v] = "in"
    BY <1>1 DEF VisitInv, RowSound, CookieSound
  <1>3. CASE Forget(v, asker) /\ refused' = [refused EXCEPT ![v] = asker]
    <2>1. VisitType'
      BY <1>1, <1>3 DEF Forget, SetsCookie, VisitInv, VisitType, NoSession, Instant
    <2>2. ASSUME NEW w \in Visitors
          PROVE  RowSound(w)' /\ CookieSound(w)' /\ RefusedSound(w)'
      BY <1>1, <1>2, <1>3 DEF Forget, SetsCookie, VisitInv, VisitType, NoSession, RowSound,
         CookieSound, RefusedSound, Askers
    <2>3. QED
      BY <2>1, <2>2 DEF VisitInv
  <1>4. CASE ~Current(Found(v)) /\ Forget(v, asker) /\ refused' = refused
    <2>1. VisitType'
      BY <1>1, <1>4 DEF Forget, SetsCookie, VisitInv, VisitType, NoSession, Instant
    <2>2. cookie[v].there => cookie[v].expiresAt <= clock
      BY <1>4 DEF Found, Current, VisitInv, VisitType, Instant
    <2>3. ASSUME NEW w \in Visitors
          PROVE  RowSound(w)' /\ CookieSound(w)' /\ RefusedSound(w)'
      BY <1>1, <1>4, <2>2 DEF Forget, SetsCookie, VisitInv, VisitType, NoSession, RowSound,
         CookieSound, RefusedSound
    <2>4. QED
      BY <2>1, <2>3 DEF VisitInv
  <1>5. CASE /\ Current(row[v])
             /\ row' = [row EXCEPT ![v] = Refreshed(@)]
             /\ SetsCookie(v, asker, Refreshed(row[v]))
             /\ refused' = refused
    <2>1. Refreshed(row[v]) = row[v]
      <3>1. row[v] \in Instant /\ row[v].expiresAt = row[v].startedAt + Life
        BY <1>5 DEF Current, VisitInv, VisitType, RowSound
      <3>2. QED
        BY <3>1 DEF Refreshed, demoSessionEndsAt, Instant
    <2>2. row' = row /\ row[v].there
      BY <1>5, <2>1 DEF Current, VisitInv, VisitType
    <2>3. cookie' \in {cookie, [cookie EXCEPT ![v] = row[v]]}
      BY <1>5, <2>1 DEF SetsCookie
    <2>4. VisitType'
      BY <1>1, <1>5, <2>2, <2>3 DEF VisitInv, VisitType
    <2>5. ASSUME NEW w \in Visitors
          PROVE  RowSound(w)' /\ CookieSound(w)' /\ RefusedSound(w)'
      BY <1>1, <1>2, <1>5, <2>2, <2>3 DEF VisitInv, VisitType, RowSound, CookieSound,
         RefusedSound
    <2>6. QED
      BY <2>4, <2>5 DEF VisitInv
  <1>6. QED
    BY <1>3, <1>4, <1>5 DEF GetSession

LEMMA LapseKeeps ==
  ASSUME VisitInv, NEW v \in Visitors, Lapse(v)
  PROVE  VisitInv'
  <1>1. VisitType'
    BY DEF Lapse, VisitInv, VisitType, NoSession, Instant, clockVars
  <1>2. ASSUME NEW w \in Visitors
        PROVE  RowSound(w)' /\ CookieSound(w)' /\ RefusedSound(w)'
    BY DEF Lapse, VisitInv, VisitType, NoSession, RowSound, CookieSound, RefusedSound,
       clockVars
  <1>3. QED
    BY <1>1, <1>2 DEF VisitInv

LEMMA RemoveVisitorsKeeps ==
  ASSUME VisitInv, RemoveVisitors
  PROVE  VisitInv'
  <1>1. VisitType'
    BY DEF RemoveVisitors, VisitInv, VisitType, NoSession, Instant, clockVars
  <1>2. ASSUME NEW v \in Visitors
        PROVE  RowSound(v)' /\ CookieSound(v)' /\ RefusedSound(v)'
    BY DEF RemoveVisitors, Over, Current, VisitInv, VisitType, NoSession, RowSound,
       CookieSound, RefusedSound, clockVars, Instant
  <1>3. QED
    BY <1>1, <1>2 DEF VisitInv

LEMMA VisitStep == VisitInv /\ [Next]_vars => VisitInv'
  <1> SUFFICES ASSUME VisitInv, [Next]_vars PROVE VisitInv'
    OBVIOUS
  <1>1. ASSUME NEW v \in Visitors, StartVisit(v) PROVE VisitInv'
    BY <1>1 DEF StartVisit, VisitInv, VisitType, RowSound, CookieSound, RefusedSound,
       clockVars
  <1>2. ASSUME NEW v \in Visitors, Mint(v) PROVE VisitInv'
    BY <1>2 DEF Mint, VisitInv, VisitType, RowSound, CookieSound, RefusedSound, clockVars
  <1>3. CASE Tick
    BY <1>3 DEF Tick, VisitInv, VisitType, NoSession, Instant, RowSound, CookieSound,
       RefusedSound
  <1>4. CASE Restart
    BY <1>4 DEF Restart, VisitInv, VisitType, RowSound, CookieSound, RefusedSound
  <1>5. CASE UNCHANGED <<clockVars, visitVars>>
    BY <1>5 DEF clockVars, visitVars, VisitInv, VisitType, RowSound, CookieSound,
       RefusedSound
  <1>6. QED
    BY <1>1, <1>2, <1>3, <1>4, <1>5,
       CreateSessionKeeps, GetSessionKeeps, LapseKeeps, RemoveVisitorsKeeps
       DEF Next, vars, AskAi, ProviderAnswers, chargeDemoCall, BeginReset, ReadShowcase,
           WriteShowcase

(* What a guard's refusal leaves in a browser is never renewed.            *)
LEMMA LeftCopyFades ==
  ASSUME VisitInv, [Next]_vars, NEW v \in Visitors, refused[v] = "guard"
  PROVE  cookie'[v] \in {cookie[v], NoSession}
  <1>1. signIn[v] = "in" /\ ~row[v].there
    BY DEF VisitInv, RefusedSound
  <1>2. ASSUME NEW w \in Visitors, CreateSession(w)
        PROVE  cookie'[v] = cookie[v]
    BY <1>1, <1>2 DEF CreateSession, VisitInv, VisitType
  <1>3. ASSUME NEW w \in Visitors, NEW asker \in Askers, GetSession(w, asker)
        PROVE  cookie'[v] \in {cookie[v], NoSession}
    BY <1>1, <1>3 DEF GetSession, Forget, SetsCookie, Current, VisitInv, VisitType
  <1>4. ASSUME NEW w \in Visitors, Lapse(w)
        PROVE  cookie'[v] \in {cookie[v], NoSession}
    BY <1>4 DEF Lapse, VisitInv, VisitType
  <1>5. CASE Tick
    BY <1>5 DEF Tick
  <1>6. CASE cookie' = cookie
    BY <1>6
  <1>7. QED
    BY <1>2, <1>3, <1>4, <1>5, <1>6
       DEF Next, vars, visitVars, StartVisit, Mint, AskAi, ProviderAnswers,
           chargeDemoCall, RemoveVisitors, BeginReset, ReadShowcase, WriteShowcase, Restart

(* Theorem: a session that was refused has no row again, its page is       *)
(* served no copy of it, and the copy a guard's refusal left is the last.  *)
THEOREM RefusalStands == Spec => RefusedIsNotRevived
  <1>1. VisitInv' => \A v \in Visitors : RefusedSound(v)'
    BY DEF VisitInv
  <1>2. VisitInv /\ VisitInv' /\ [Next]_vars
          => [\A v \in Visitors :
                /\ refused'[v] # "no" => ~row'[v].there
                /\ refused'[v] = "page" => ~cookie'[v].there
                /\ refused[v] = "guard" => cookie'[v] \in {cookie[v], NoSession}]_vars
    BY <1>1, LeftCopyFades DEF RefusedSound
  <1>3. QED
    BY VisitInit, VisitStep, <1>2, PTL DEF Spec, RefusedIsNotRevived

(* Theorem: no identity whose two hours were over survives a reset.        *)
THEOREM ResetRemovesTheEnded == Spec => []NobodyLingers
  <1>1. VisitInv => NobodyLingers
    BY DEF VisitInv, RowSound, NobodyLingers, demoSessionEndsAt
  <1>2. QED
    BY VisitInit, VisitStep, <1>1, PTL DEF Spec

(* Theorem: whom a reset has removed is answered no more, but from a copy  *)
(* that a guard's refusal has left.                                        *)
THEOREM RemovedIsOut == Spec => []GoneIsOut
  <1>1. VisitInv => GoneIsOut
    BY DEF VisitInv, VisitType, RowSound, CookieSound, GoneIsOut, Served, Found, Current,
       Instant
  <1>2. QED
    BY VisitInit, VisitStep, <1>1, PTL DEF Spec

-----------------------------------------------------------------------------
(* The showcase.                                                           *)

Single == \E i : tickets = {i}

(* Theorem: a ticket of the showcase is there once, whatever resets        *)
(* overlap and wherever one dies.                                          *)
THEOREM ShowcaseIsKept == Spec => []ShowcaseStands
  <1>1. Init => Single
    BY DEF Init, Single
  <1>2. Single /\ [Next]_vars => Single'
    BY DEF Next, vars, clockVars, visitVars, aiVars, showVars, Single, StartVisit, Mint,
       CreateSession, GetSession, Lapse, AskAi, ProviderAnswers, chargeDemoCall,
       RemoveVisitors, BeginReset, ReadShowcase, WriteShowcase, Tick, Restart
  <1>3. Single => ShowcaseStands
    BY FS_Singleton DEF Single, ShowcaseStands
  <1>4. QED
    BY <1>1, <1>2, <1>3, PTL DEF Spec

-----------------------------------------------------------------------------
(* Starts.  Every admission that still counts is in the window: what was   *)
(* dropped had aged out, and time does not go back.                        *)

Within(times, t) == {a \in times : t <= a.at /\ a.at < t + Hour}

StartsInv ==
    /\ clock \in Nat
    /\ signIn \in [Visitors -> {"none", "admitted", "minted", "in", "failed"}]
    /\ admissions \subseteq started /\ IsFiniteSet(started)
    /\ \A a \in started :
         /\ a.at \in Nat /\ a.at <= clock
         /\ a.by \in Visitors /\ signIn[a.by] # "none"
         /\ clock - a.at < Hour => a \in admissions
    /\ \A t \in Nat : Cardinality(Within(started, t)) <= MaxStarts

LEMMA StartsInit == Init => StartsInv
  <1> SUFFICES ASSUME Init PROVE StartsInv
    OBVIOUS
  <1>1. \A t \in Nat : Within(started, t) = {}
    BY DEF Init, Within
  <1>2. IsFiniteSet({}) /\ Cardinality({}) = 0
    BY FS_EmptySet
  <1>3. QED
    BY <1>1, <1>2, DemoAssumption DEF Init, StartsInv

LEMMA AdmittedKeeps ==
  ASSUME StartsInv, NEW v \in Visitors, StartVisit(v)
  PROVE  StartsInv'
  <1> DEFINE new == [at |-> clock, by |-> v]
  <1>1. clock' = clock /\ clock \in Nat /\ Hour \in Nat /\ MaxStarts \in Nat
    BY DemoAssumption DEF StartVisit, StartsInv, clockVars
  <1>2. CASE signIn' = signIn
    BY <1>1, <1>2 DEF StartVisit, StartsInv, Recent, Within
  <1>3. CASE signIn' # signIn
    <2>1. /\ admissions' = Recent(admissions) \cup {new}
          /\ started' = started \cup {new}
          /\ signIn' = [signIn EXCEPT ![v] = "admitted"]
          /\ Cardinality(Recent(admissions)) < MaxStarts
      BY <1>3 DEF StartVisit
    <2>2. IsFiniteSet(started') /\ admissions' \subseteq started'
      BY <2>1, FS_AddElement DEF StartsInv, Recent
    <2>3. /\ signIn' \in [Visitors -> {"none", "admitted", "minted", "in", "failed"}]
          /\ \A a \in started' :
               /\ a.at \in Nat /\ a.at <= clock
               /\ a.by \in Visitors /\ signIn'[a.by] # "none"
               /\ clock - a.at < Hour => a \in admissions'
      BY <1>1, <2>1 DEF StartsInv, Recent
    <2>4. ASSUME NEW t \in Nat
          PROVE  Cardinality(Within(started', t)) <= MaxStarts
      <3>1. /\ IsFiniteSet(Recent(admissions)) /\ Cardinality(Recent(admissions)) \in Nat
            /\ IsFiniteSet(Within(started, t)) /\ Cardinality(Within(started, t)) \in Nat
        <4>1. Recent(admissions) \subseteq started /\ Within(started, t) \subseteq started
          BY DEF StartsInv, Recent, Within
        <4>2. QED
          BY <4>1, FS_Subset, FS_CardinalityType DEF StartsInv
      <3>2. CASE t <= clock /\ clock < t + Hour
        <4>1. Within(started', t) \subseteq Recent(admissions) \cup {new}
          BY <1>1, <2>1, <3>2 DEF Within, Recent, StartsInv
        <4>2. /\ IsFiniteSet(Recent(admissions) \cup {new})
              /\ Cardinality(Recent(admissions) \cup {new})
                   <= Cardinality(Recent(admissions)) + 1
              /\ Cardinality(Recent(admissions) \cup {new}) \in Nat
          <5>1. /\ IsFiniteSet(Recent(admissions) \cup {new})
                /\ \/ Cardinality(Recent(admissions) \cup {new})
                        = Cardinality(Recent(admissions))
                   \/ Cardinality(Recent(admissions) \cup {new})
                        = Cardinality(Recent(admissions)) + 1
            <6>1. CASE new \in Recent(admissions)
              <7>1. Recent(admissions) \cup {new} = Recent(admissions)
                BY <6>1
              <7>2. QED
                BY <7>1, <3>1
            <6>2. CASE new \notin Recent(admissions)
              BY <6>2, <3>1, FS_AddElement
            <6>3. QED
              BY <6>1, <6>2
          <5>2. QED
            BY <5>1, <3>1
        <4>3. /\ Cardinality(Within(started', t)) \in Nat
              /\ Cardinality(Within(started', t))
                   <= Cardinality(Recent(admissions) \cup {new})
          BY <4>1, <4>2, FS_Subset, FS_CardinalityType
        <4>4. QED
          BY <1>1, <2>1, <3>1, <4>2, <4>3
      <3>3. CASE ~(t <= clock /\ clock < t + Hour)
        <4>1. Within(started', t) = Within(started, t)
          BY <2>1, <3>3 DEF Within
        <4>2. QED
          BY <4>1 DEF StartsInv
      <3>4. QED
        BY <3>2, <3>3
    <2>5. QED
      BY <1>1, <2>2, <2>3, <2>4 DEF StartsInv, Within
  <1>4. QED
    BY <1>2, <1>3

LEMMA StartsStep == StartsInv /\ [Next]_vars => StartsInv'
  <1> SUFFICES ASSUME StartsInv, [Next]_vars PROVE StartsInv'
    OBVIOUS
  <1>1. ASSUME UNCHANGED <<admissions, started>>, clock' \in {clock, clock + 1},
               signIn' \in [Visitors -> {"none", "admitted", "minted", "in", "failed"}],
               \A v \in Visitors : signIn[v] # "none" => signIn'[v] # "none"
        PROVE  StartsInv'
    BY <1>1, DemoAssumption DEF StartsInv, Within
  <1>2. ASSUME NEW v \in Visitors, NEW asker \in Askers,
               Mint(v) \/ CreateSession(v) \/ GetSession(v, asker) \/ Lapse(v)
        PROVE  StartsInv'
    <2>1. UNCHANGED <<admissions, started, clock>>
      BY <1>2 DEF Mint, CreateSession, GetSession, Lapse, clockVars
    <2>2. /\ signIn' \in [Visitors -> {"none", "admitted", "minted", "in", "failed"}]
          /\ \A w \in Visitors : signIn[w] # "none" => signIn'[w] # "none"
      BY <1>2 DEF Mint, CreateSession, GetSession, Lapse, StartsInv
    <2>3. QED
      BY <1>1, <2>1, <2>2
  <1>3. CASE Tick \/ RemoveVisitors \/ UNCHANGED <<clockVars, visitVars>>
    BY <1>1, <1>3 DEF Tick, RemoveVisitors, clockVars, visitVars, StartsInv
  <1>4. CASE Restart
    <2>1. \A t \in Nat : Within({}, t) = {}
      BY DEF Within
    <2>2. IsFiniteSet({}) /\ Cardinality({}) = 0
      BY FS_EmptySet
    <2>3. signIn' \in [Visitors -> {"none", "admitted", "minted", "in", "failed"}]
      BY <1>4 DEF Restart, StartsInv
    <2>4. clock' = clock /\ admissions' = {} /\ started' = {} /\ clock \in Nat
      BY <1>4 DEF Restart, StartsInv
    <2>5. \A t \in Nat : Cardinality(Within(started', t)) <= MaxStarts
      BY <2>1, <2>2, <2>4, DemoAssumption
    <2>6. QED
      BY <2>2, <2>3, <2>4, <2>5 DEF StartsInv, Within
  <1>5. QED
    BY <1>2, <1>3, <1>4, AdmittedKeeps
       DEF Next, vars, AskAi, ProviderAnswers, chargeDemoCall, BeginReset, ReadShowcase,
           WriteShowcase, Askers

(* Theorem: no hour, wherever it begins, sees more starts from an address  *)
(* than `slidingWindow` may admit, for hours and limits of any size.       *)
THEOREM HoursAreKept == Spec => []NoHourIsOverfull
  <1>1. StartsInv => NoHourIsOverfull
    BY DemoAssumption DEF StartsInv, NoHourIsOverfull, Within
  <1>2. QED
    BY StartsInit, StartsStep, <1>1, PTL DEF Spec

-----------------------------------------------------------------------------
(* Types, with the bounds.                                                 *)

LEMMA TypeInit == Init => TypeOK
  BY DemoAssumption DEF Init, TypeOK, Session, NoSession, Reset, NoReset, Askers

LEMMA NothingYet ==
  /\ NoSession \in Session
  /\ NoReset \in Reset
  BY DemoAssumption DEF NoSession, Session, NoReset, Reset

LEMMA VisitTyped ==
  ASSUME TypeOK, NEW v \in Visitors, NEW asker \in Askers,
         StartVisit(v) \/ Mint(v) \/ CreateSession(v) \/ GetSession(v, asker) \/ Lapse(v)
  PROVE  TypeOK'
  <1>1. CASE StartVisit(v)
    <2>1. [at |-> clock, by |-> v] \in Admission
      BY DEF TypeOK, Admission
    <2>2. admissions' \subseteq Admission /\ started' \subseteq Admission
      BY <1>1, <2>1 DEF TypeOK, StartVisit, Recent
    <2>3. QED
      BY <1>1, <2>2 DEF TypeOK, StartVisit, clockVars, aiVars, showVars
  <1>2. CASE Mint(v)
    BY <1>2 DEF TypeOK, Mint, clockVars, aiVars, showVars
  <1>3. CASE CreateSession(v)
    <2>1. NewSession \in Session
      BY DemoAssumption DEF TypeOK, Session, NewSession, demoSessionEndsAt
    <2>2. row' \in [Visitors -> Session] /\ cookie' \in [Visitors -> Session]
      BY <1>3, <2>1 DEF TypeOK, CreateSession
    <2>3. QED
      BY <1>3, <2>2 DEF TypeOK, CreateSession, clockVars, aiVars, showVars
  <1>4. CASE GetSession(v, asker)
    <2>1. Refreshed(row[v]) \in Session
      BY DemoAssumption DEF TypeOK, Session, Refreshed, demoSessionEndsAt
    <2>2. row' \in [Visitors -> Session] /\ cookie' \in [Visitors -> Session]
      BY <1>4, <2>1, NothingYet DEF TypeOK, GetSession, Forget, SetsCookie
    <2>3. refused' \in [Visitors -> {"no"} \cup Askers]
      BY <1>4 DEF TypeOK, GetSession
    <2>4. QED
      BY <1>4, <2>2, <2>3 DEF TypeOK, GetSession, clockVars, aiVars, showVars
  <1>5. CASE Lapse(v)
    BY <1>5, NothingYet DEF TypeOK, Lapse, clockVars, aiVars, showVars
  <1>6. QED
    BY <1>1, <1>2, <1>3, <1>4, <1>5

LEMMA TypeStep == TypeOK /\ BudgetInv /\ [Next]_vars => TypeOK'
  <1> SUFFICES ASSUME TypeOK, BudgetInv, [Next]_vars PROVE TypeOK'
    OBVIOUS
  <1>1. CASE AskAi \/ ProviderAnswers \/ chargeDemoCall
    <2>1. /\ calling' \in 0..MaxCalls /\ answered' \in 0..MaxCalls /\ spent' \in Nat
      BY <1>1, DemoAssumption
      DEF TypeOK, BudgetInv, AskAi, ProviderAnswers, chargeDemoCall
    <2>2. QED
      BY <1>1, <2>1
      DEF TypeOK, AskAi, ProviderAnswers, chargeDemoCall, clockVars, visitVars, showVars
  <1>2. CASE RemoveVisitors
    <2>1. /\ user' \in [Visitors -> {"none", "here", "gone"}]
          /\ row' \in [Visitors -> Session]
          /\ reset' \in [Resets -> Reset]
      BY <1>2, NothingYet DEF TypeOK, RemoveVisitors, Reset, Resets
    <2>2. QED
      BY <1>2, <2>1 DEF TypeOK, RemoveVisitors, clockVars, aiVars
  <1>3. ASSUME NEW p \in Resets, BeginReset(p) \/ ReadShowcase(p) \/ WriteShowcase(p)
        PROVE  TypeOK'
    <2>1. reset' \in [Resets -> Reset]
      BY <1>3, NothingYet DEF TypeOK, BeginReset, ReadShowcase, WriteShowcase, Reset
    <2>2. tickets' \in SUBSET (1..MaxTickets)
      BY <1>3 DEF TypeOK, BeginReset, ReadShowcase, WriteShowcase, NextTicket
    <2>3. QED
      BY <1>3, <2>1, <2>2
      DEF TypeOK, BeginReset, ReadShowcase, WriteShowcase, clockVars, visitVars, aiVars
  <1>4. CASE Tick
    <2>1. clock' \in 0..MaxClock /\ spent' \in Nat /\ cookie' \in [Visitors -> Session]
      BY <1>4, NothingYet, DemoAssumption DEF TypeOK, Tick
    <2>2. QED
      BY <1>4, <2>1 DEF TypeOK, Tick, showVars
  <1>5. CASE Restart
    <2>1. /\ restarts' \in 0..MaxRestarts /\ on' \in BOOLEAN
          /\ admissions' \subseteq Admission /\ started' \subseteq Admission
          /\ signIn' \in [Visitors -> {"none", "admitted", "minted", "in", "failed"}]
          /\ calling' \in 0..MaxCalls /\ answered' \in 0..MaxCalls
          /\ reset' \in [Resets -> Reset]
      BY <1>5, NothingYet, DemoAssumption DEF TypeOK, Restart, Resets
    <2>2. QED
      BY <1>5, <2>1 DEF TypeOK, Restart
  <1>6. CASE UNCHANGED vars
    BY <1>6 DEF TypeOK, vars, clockVars, visitVars, aiVars, showVars
  <1>7. QED
    BY <1>1, <1>2, <1>3, <1>4, <1>5, <1>6, VisitTyped DEF Next, Askers

(* Theorem: the four together, as the run Demo checks them.                *)
THEOREM DemoIsSound == Spec => []DemoInvariant
  <1>1. Spec => []TypeOK
    BY TypeInit, TypeStep, BudgetInit, BudgetStep, PTL DEF Spec
  <1>2. QED
    BY <1>1, HoursAreKept, RemovedIsOut, ShowcaseIsKept, PTL DEF DemoInvariant

-----------------------------------------------------------------------------
(* The inductive invariant of the runs, by parts.                          *)

(* A handler at its cases, not at rest and not at a repair.                *)
Busy(w) == task[w].step \notin {"idle", "repair"}

(* A job is about one run, a run has one job, and who holds it is at that  *)
(* run: live while the job is active, at its repair once it is mended.     *)
QueueInv ==
    /\ \A w \in Handlers :
          IF task[w].step = "idle"
          THEN held[w] = "none"
          ELSE task[w].run \in Runs /\ run[task[w].run].status # "absent"
    /\ \A w \in Handlers : held[w] # "none" =>
          /\ jobs[held[w]].item = task[w].run
          /\ jobs[held[w]].state = IF Busy(w) THEN "active" ELSE "mending"
    /\ \A v, w \in Handlers : held[v] = held[w] /\ held[w] # "none" => v = w
    /\ \A j \in JobIds : jobs[j].state # "free" =>
          jobs[j].item \in Runs /\ run[jobs[j].item].status # "absent"
    /\ \A i, j \in JobIds :
          jobs[i].state # "free" /\ jobs[j].state # "free" /\ jobs[i].item = jobs[j].item
             => i = j

(* A repair under way is in somebody's hands, or was killed.               *)
RepairInv ==
    \A j \in JobIds : jobs[j].state = "mending" =>
       \/ \E w \in Handlers : held[w] = j
       \/ mishaps.repairs > 0

(* An open run has its job, or is being repaired.                          *)
JobInv ==
    \A r \in Runs : run[r].status = "running" =>
       \/ Queue!Coming(r)
       \/ \E w \in Handlers : task[w].step = "repair" /\ task[w].run = r
       \/ mishaps.repairs > 0

(* The busy handlers whose job has expired under them: one for each stall. *)
Loose == {w \in Handlers : Busy(w) /\ held[w] = "none"}

StallInv == Cardinality(Loose) <= mishaps.stalls

Later == {"list", "cases", "measure", "store", "sum", "close"}

(* What a handler has still to do and what is stored are all its cases.    *)
LoopOK(w) ==
    LET t == task[w]
        ids == run[t.run].caseIds IN
    /\ t.step \in Later =>
          /\ t.todo \subseteq DOMAIN ids
          /\ t.step # "list" => t.done \subseteq Answered(t.run)
          /\ \A i \in DOMAIN ids :
                ids[i] \in known => i \in t.todo \/ ids[i] \in Answered(t.run)
    /\ t.step \in {"measure", "store"} => t.at \in t.todo /\ ids[t.at] \notin t.done
    /\ t.step = "store" => t.verdict # "none"
    /\ t.step \in {"sum", "close"} => t.todo = {}

LoopInv ==
    /\ known = Cases \/ mishaps.renames > 0
    /\ \A r \in Runs : run[r].status = "absent" => run[r].caseIds = <<>>
    /\ \A w \in Handlers : LoopOK(w)

(* Two corners the sums must not be caught in at once.                     *)
Blurred == mishaps.stalls > 0 /\ mishaps.renames > 0

SumInv ==
    /\ CompletedIsWhole
    /\ \A w \in Handlers :
          task[w].step = "close" => task[w].total = Matches(task[w].run) \/ Blurred
    /\ \A r \in Runs : run[r].status = "completed" =>
          \/ mishaps.stalls > 0
          \/ /\ \A w \in Handlers : Busy(w) => task[w].run # r
             /\ ~Queue!Coming(r)

(* Who has paid for a case and not stored it, and who will pay for one     *)
(* that is stored, not having seen that it is.                             *)
AtStore(r, c) ==
    {w \in Handlers : task[w].step = "store" /\ task[w].run = r /\ CaseOf(w) = c}

Unaware(r, c) ==
    {w \in Handlers :
        /\ task[w].step \in {"cases", "measure", "store"} /\ task[w].run = r
        /\ c \notin task[w].done
        /\ \E i \in task[w].todo : run[r].caseIds[i] = c
        /\ ~(task[w].step = "store" /\ CaseOf(w) = c)}

Lost == mishaps.crashes + mishaps.failures

PayInv ==
    \A r \in Runs, c \in Cases :
       IF results[r][c] = "none"
       THEN paid[r][c] <= Lost + Cardinality(AtStore(r, c))
       ELSE paid[r][c] + Cardinality(Unaware(r, c)) <= Mentions(r, c) + Lost + mishaps.stalls

RunsInv ==
    /\ RunsTypeOK /\ QueueInv /\ RepairInv /\ JobInv /\ StallInv
    /\ LoopInv /\ SumInv /\ PayInv

-----------------------------------------------------------------------------
(* The inductive invariant of the plans.                                   *)

Claimed(w, p) == firing[w].step \in {"open", "link"} /\ firing[w].plan = p

PlansInv ==
    /\ \A w \in PlanHandlers : firing[w].step # "idle" => firing[w].plan \in Plans
    /\ \A j \in PlanJobIds : planJobs[j].state # "free" => planJobs[j].item \in Plans
    /\ \A w \in PlanHandlers : firing[w].step = "open" => opened[firing[w].plan] = {}
    /\ \A w \in PlanHandlers : firing[w].step = "link" => firing[w].run \in opened[firing[w].plan]
    /\ \A v, w \in PlanHandlers, p \in Plans : Claimed(v, p) /\ Claimed(w, p) => v = w
    /\ \A w \in PlanHandlers, p \in Plans : Claimed(w, p) => plan[p] = "fired"
    /\ \A p \in Plans : plan[p] # "fired" => opened[p] = {}
    /\ \A p \in Plans : \A r \in opened[p] : run[r].status # "absent"


-----------------------------------------------------------------------------
(* How a step of a handler moves its task.                                 *)

LEMMA IdleTask ==
  /\ Idle \in Task
  /\ Idle.step = "idle" /\ Idle.run = "none" /\ Idle.todo = {} /\ Idle.at = 0
  /\ Idle.done = {} /\ Idle.verdict = "none" /\ Idle.total = 0
  <1>1. IsFiniteSet(Cases)
    BY EvalRunsAssumption
  <1>2. Cardinality(Cases) \in Nat
    BY <1>1, FS_CardinalityType
  <1>3. QED
    BY <1>2 DEF Idle, Task

(* A handler goes on with its run: what its task becomes, and that neither *)
(* the run, nor the queue, nor another handler is touched.                 *)
Moves(w, step, todo, at, done) ==
    /\ task' \in [Handlers -> Task]
    /\ task'[w].step = step
    /\ task'[w].run = task[w].run
    /\ task'[w].todo = todo
    /\ task'[w].at = at
    /\ task'[w].done = done
    /\ \A v \in Handlers : v # w => task'[v] = task[v]
    /\ UNCHANGED <<run, known, mishaps, jobs, held>>

LEMMA TaskSet ==
  ASSUME task \in [Handlers -> Task], NEW w \in Handlers, NEW t \in Task,
         task' = [task EXCEPT ![w] = t]
  PROVE  /\ task' \in [Handlers -> Task] /\ task'[w] = t
         /\ \A v \in Handlers : v # w => task'[v] = task[v]
  OBVIOUS

LEMMA GotoMoves ==
  ASSUME task \in [Handlers -> Task], NEW w \in Handlers, NEW step \in {"empty", "sum"},
         Goto(w, step), UNCHANGED <<run, known, mishaps>>
  PROVE  /\ Moves(w, step, task[w].todo, task[w].at, task[w].done)
         /\ task'[w].verdict = task[w].verdict /\ task'[w].total = task[w].total
  <1> DEFINE t == [task[w] EXCEPT !.step = step]
  <1>1. /\ t \in Task /\ t.step = step /\ t.run = task[w].run /\ t.todo = task[w].todo
        /\ t.at = task[w].at /\ t.done = task[w].done /\ t.verdict = task[w].verdict
        /\ t.total = task[w].total
    BY DEF Task
  <1>2. task' = [task EXCEPT ![w] = t]
    BY DEF Goto
  <1> HIDE DEF t
  <1>3. QED
    BY <1>1, <1>2, TaskSet DEF Moves, Goto, queueVars

LEMMA ReadMoves ==
  ASSUME task \in [Handlers -> Task], NEW w \in Handlers, NEW cases \in SUBSET Nat,
         task' = [task EXCEPT ![w].step = "list", ![w].todo = cases],
         UNCHANGED <<run, known, mishaps, queueVars>>
  PROVE  /\ Moves(w, "list", cases, task[w].at, task[w].done)
         /\ task'[w].verdict = task[w].verdict /\ task'[w].total = task[w].total
  <1> DEFINE t == [task[w] EXCEPT !.step = "list", !.todo = cases]
  <1>1. /\ t \in Task /\ t.step = "list" /\ t.run = task[w].run /\ t.todo = cases
        /\ t.at = task[w].at /\ t.done = task[w].done /\ t.verdict = task[w].verdict
        /\ t.total = task[w].total
    BY DEF Task
  <1>2. task' = [task EXCEPT ![w] = t]
    OBVIOUS
  <1> HIDE DEF t
  <1>3. QED
    BY <1>1, <1>2, TaskSet DEF Moves, queueVars

LEMMA ListMoves ==
  ASSUME task \in [Handlers -> Task], NEW w \in Handlers, List(w)
  PROVE  /\ Moves(w, "cases", task[w].todo, task[w].at, Answered(task[w].run))
         /\ task'[w].verdict = task[w].verdict /\ task'[w].total = task[w].total
         /\ UNCHANGED <<results, paid>>
  <1> DEFINE done == Answered(task[w].run)
             t == [task[w] EXCEPT !.step = "cases", !.done = done]
  <1>0. done \in SUBSET Cases
    BY DEF Answered
  <1>2. task' = [task EXCEPT ![w] = t]
    BY DEF List
  <1> HIDE DEF done
  <1>1. /\ t \in Task /\ t.step = "cases" /\ t.run = task[w].run /\ t.todo = task[w].todo
        /\ t.at = task[w].at /\ t.done = done /\ t.verdict = task[w].verdict
        /\ t.total = task[w].total
    BY <1>0 DEF Task
  <1> HIDE DEF t
  <1>3. Moves(w, "cases", task[w].todo, task[w].at, done)
        /\ task'[w].verdict = task[w].verdict /\ task'[w].total = task[w].total
    BY <1>1, <1>2, TaskSet DEF Moves, List, queueVars
  <1>4. QED
    BY <1>3 DEF done, List

LEMMA SkipMoves ==
  ASSUME task \in [Handlers -> Task], NEW w \in Handlers, NEW i,
         task' = [task EXCEPT ![w] = [@ EXCEPT !.todo = task[w].todo \ {i}]],
         UNCHANGED <<run, known, mishaps, queueVars>>
  PROVE  /\ Moves(w, task[w].step, task[w].todo \ {i}, task[w].at, task[w].done)
         /\ task'[w].verdict = task[w].verdict /\ task'[w].total = task[w].total
  <1> DEFINE t == [task[w] EXCEPT !.todo = task[w].todo \ {i}]
  <1>1. /\ t \in Task /\ t.step = task[w].step /\ t.run = task[w].run
        /\ t.todo = task[w].todo \ {i}
        /\ t.at = task[w].at /\ t.done = task[w].done /\ t.verdict = task[w].verdict
        /\ t.total = task[w].total
    BY DEF Task
  <1>2. task' = [task EXCEPT ![w] = t]
    OBVIOUS
  <1> HIDE DEF t
  <1>3. QED
    BY <1>1, <1>2, TaskSet DEF Moves, queueVars

LEMMA TakeMoves ==
  ASSUME task \in [Handlers -> Task], NEW w \in Handlers, NEW i \in Nat,
         task' = [task EXCEPT ![w] = [@ EXCEPT !.step = "measure", !.at = i]],
         UNCHANGED <<run, known, mishaps, queueVars>>
  PROVE  /\ Moves(w, "measure", task[w].todo, i, task[w].done)
         /\ task'[w].verdict = task[w].verdict /\ task'[w].total = task[w].total
  <1> DEFINE t == [task[w] EXCEPT !.step = "measure", !.at = i]
  <1>1. /\ t \in Task /\ t.step = "measure" /\ t.run = task[w].run /\ t.todo = task[w].todo
        /\ t.at = i /\ t.done = task[w].done /\ t.verdict = task[w].verdict
        /\ t.total = task[w].total
    BY DEF Task
  <1>2. task' = [task EXCEPT ![w] = t]
    OBVIOUS
  <1> HIDE DEF t
  <1>3. QED
    BY <1>1, <1>2, TaskSet DEF Moves, queueVars

LEMMA MeasureMoves ==
  ASSUME task \in [Handlers -> Task], NEW w \in Handlers, Measure(w)
  PROVE  /\ Moves(w, "store", task[w].todo, task[w].at, task[w].done)
         /\ task'[w].verdict \in {"match", "miss"} /\ task'[w].total = task[w].total
  <1>1. PICK v \in {"match", "miss"} :
           task' = [task EXCEPT ![w].step = "store", ![w].verdict = v]
    BY DEF Measure
  <1> DEFINE t == [task[w] EXCEPT !.step = "store", !.verdict = v]
  <1>2. /\ t \in Task /\ t.step = "store" /\ t.run = task[w].run /\ t.todo = task[w].todo
        /\ t.at = task[w].at /\ t.done = task[w].done /\ t.verdict = v
        /\ t.total = task[w].total
    BY ZenonT(60) DEF Task
  <1>3. task' = [task EXCEPT ![w] = t]
    BY <1>1
  <1> HIDE DEF t
  <1>4. QED
    BY <1>2, <1>3, TaskSet DEF Moves, Measure, queueVars

Stores(w) ==
    /\ task[w].step = "store"
    /\ results[task[w].run][CaseOf(w)] = "none"
    /\ results' = [results EXCEPT ![task[w].run][CaseOf(w)] = task[w].verdict]
    /\ task' = [task EXCEPT ![w].step = "cases", ![w].todo = @ \ {task[w].at},
                            ![w].at = 0, ![w].verdict = "none"]
    /\ UNCHANGED <<run, paid, known, mishaps, jobs, held>>

LEMMA StoreMoves ==
  ASSUME task \in [Handlers -> Task], NEW w \in Handlers, Stores(w)
  PROVE  /\ Moves(w, "cases", task[w].todo \ {task[w].at}, 0, task[w].done)
         /\ task'[w].verdict = "none" /\ task'[w].total = task[w].total
  <1> DEFINE t == [task[w] EXCEPT !.step = "cases", !.todo = task[w].todo \ {task[w].at},
                                  !.at = 0, !.verdict = "none"]
  <1>1. /\ t \in Task /\ t.step = "cases" /\ t.run = task[w].run
        /\ t.todo = task[w].todo \ {task[w].at}
        /\ t.at = 0 /\ t.done = task[w].done /\ t.verdict = "none"
        /\ t.total = task[w].total
    BY ZenonT(60) DEF Task
  <1>2. task' = [task EXCEPT ![w] = t]
    BY DEF Stores
  <1> HIDE DEF t
  <1>3. QED
    BY <1>1, <1>2, TaskSet DEF Moves, Stores

LEMMA MatchesBounded ==
  ASSUME NEW r
  PROVE  Matches(r) \in 0..Cardinality(Cases)
  <1>1. IsFiniteSet(Cases)
    BY EvalRunsAssumption
  <1>2. {c \in Cases : results[r][c] = "match"} \in SUBSET Cases
    OBVIOUS
  <1> DEFINE S == {c \in Cases : results[r][c] = "match"}
  <1> HIDE DEF S
  <1>3. IsFiniteSet(S) /\ Cardinality(S) <= Cardinality(Cases)
    BY <1>1, <1>2, FS_Subset DEF S
  <1>4. Cardinality(S) \in Nat /\ Cardinality(Cases) \in Nat
    BY <1>1, <1>3, FS_CardinalityType
  <1>5. QED
    BY <1>3, <1>4 DEF Matches, S

LEMMA SumMoves ==
  ASSUME task \in [Handlers -> Task], NEW w \in Handlers, Sum(w)
  PROVE  /\ Moves(w, "close", task[w].todo, task[w].at, task[w].done)
         /\ task'[w].verdict = task[w].verdict /\ task'[w].total = Matches(task[w].run)
  <1> DEFINE total == Matches(task[w].run)
             t == [task[w] EXCEPT !.step = "close", !.total = total]
  <1>0. total \in 0..Cardinality(Cases)
    BY MatchesBounded
  <1>2. task' = [task EXCEPT ![w] = t]
    BY DEF Sum
  <1> HIDE DEF total
  <1>1. /\ t \in Task /\ t.step = "close" /\ t.run = task[w].run /\ t.todo = task[w].todo
        /\ t.at = task[w].at /\ t.done = task[w].done /\ t.verdict = task[w].verdict
        /\ t.total = total
    BY <1>0 DEF Task
  <1> HIDE DEF t
  <1>3. Moves(w, "close", task[w].todo, task[w].at, task[w].done)
        /\ task'[w].verdict = task[w].verdict /\ task'[w].total = total
    BY <1>1, <1>2, TaskSet DEF Moves, Sum, queueVars
  <1>4. QED
    BY <1>3 DEF total

-----------------------------------------------------------------------------
(* Misfortunes are only ever counted up.                                   *)

NoFewer ==
    /\ mishaps' \in Mishaps
    /\ mishaps.failures <= mishaps'.failures /\ mishaps.crashes <= mishaps'.crashes
    /\ mishaps.repairs <= mishaps'.repairs /\ mishaps.stalls <= mishaps'.stalls
    /\ mishaps.renames <= mishaps'.renames

LEMMA MishapBounds ==
  /\ MaxFailures \in Nat /\ MaxCrashes \in Nat /\ MaxRepairCrashes \in Nat
  /\ MaxStalls \in Nat /\ MaxRenames \in Nat
  BY EvalRunsAssumption

LEMMA MishapTypes ==
  ASSUME mishaps \in Mishaps
  PROVE  /\ mishaps.failures \in Nat /\ mishaps.crashes \in Nat /\ mishaps.repairs \in Nat
         /\ mishaps.stalls \in Nat /\ mishaps.renames \in Nat
  BY MishapBounds DEF Mishaps

LEMMA NoneHappens ==
  ASSUME mishaps \in Mishaps, UNCHANGED mishaps
  PROVE  NoFewer
  BY MishapTypes DEF NoFewer

LEMMA FailureHappens ==
  ASSUME mishaps \in Mishaps, Happens("failures", MaxFailures)
  PROVE  /\ NoFewer
         /\ mishaps'.failures = mishaps.failures + 1 /\ mishaps'.crashes = mishaps.crashes
  <1>1. mishaps' = [mishaps EXCEPT !.failures = @ + 1] /\ mishaps.failures < MaxFailures
    BY DEF Happens
  <1>2. mishaps' \in Mishaps
    BY <1>1, MishapBounds DEF Mishaps
  <1>3. QED
    BY <1>1, <1>2, MishapTypes DEF Mishaps, NoFewer

LEMMA CrashHappens ==
  ASSUME mishaps \in Mishaps, Happens("crashes", MaxCrashes)
  PROVE  /\ NoFewer
         /\ mishaps'.crashes = mishaps.crashes + 1 /\ mishaps'.failures = mishaps.failures
  <1>1. mishaps' = [mishaps EXCEPT !.crashes = @ + 1] /\ mishaps.crashes < MaxCrashes
    BY DEF Happens
  <1>2. mishaps' \in Mishaps
    BY <1>1, MishapBounds DEF Mishaps
  <1>3. QED
    BY <1>1, <1>2, MishapTypes DEF Mishaps, NoFewer

LEMMA RepairCrashHappens ==
  ASSUME mishaps \in Mishaps, Happens("repairs", MaxRepairCrashes)
  PROVE  /\ NoFewer
         /\ mishaps'.repairs > 0
  <1>1. mishaps' = [mishaps EXCEPT !.repairs = @ + 1] /\ mishaps.repairs < MaxRepairCrashes
    BY DEF Happens
  <1>2. mishaps' \in Mishaps
    BY <1>1, MishapBounds DEF Mishaps
  <1>3. QED
    BY <1>1, <1>2, MishapTypes DEF Mishaps, NoFewer

LEMMA StallHappens ==
  ASSUME mishaps \in Mishaps, Happens("stalls", MaxStalls)
  PROVE  /\ NoFewer
         /\ mishaps'.stalls = mishaps.stalls + 1
  <1>1. mishaps' = [mishaps EXCEPT !.stalls = @ + 1] /\ mishaps.stalls < MaxStalls
    BY DEF Happens
  <1>2. mishaps' \in Mishaps
    BY <1>1, MishapBounds DEF Mishaps
  <1>3. QED
    BY <1>1, <1>2, MishapTypes DEF Mishaps, NoFewer

LEMMA RenameHappens ==
  ASSUME mishaps \in Mishaps, Happens("renames", MaxRenames)
  PROVE  /\ NoFewer
         /\ mishaps'.renames > 0
  <1>1. mishaps' = [mishaps EXCEPT !.renames = @ + 1] /\ mishaps.renames < MaxRenames
    BY DEF Happens
  <1>2. mishaps' \in Mishaps
    BY <1>1, MishapBounds DEF Mishaps
  <1>3. QED
    BY <1>1, <1>2, MishapTypes DEF Mishaps, NoFewer

-----------------------------------------------------------------------------
(* The queue.                                                              *)

LEMMA FailedJob ==
  ASSUME NEW job \in Queue!Job
  PROVE  LET next == Queue!AfterFailure(job) IN
         /\ next \in Queue!Job
         /\ next.state \in {"free", "created", "dead"}
         /\ job.state = "active" => next.state # "free" /\ next.item = job.item
         /\ job.state # "active" => next.state = "free"
  <1>1. CASE job.state = "active" /\ job.tries < RetryLimit
    BY <1>1, EvalRunsAssumption
    DEF Queue!AfterFailure, Queue!NextAttempt, Queue!Job, Queue!JobStates
  <1>2. CASE job.state = "active" /\ ~(job.tries < RetryLimit)
    BY <1>2, EvalRunsAssumption
    DEF Queue!AfterFailure, Queue!NextAttempt, Queue!Job, Queue!JobStates
  <1>3. CASE job.state # "active"
    BY <1>3, EvalRunsAssumption
    DEF Queue!AfterFailure, Queue!NoJob, Queue!Job, Queue!JobStates
  <1>4. QED
    BY <1>1, <1>2, <1>3

(* Jobs are given back, or forgotten: who still holds one holds the job it *)
(* held, and a job whose attempt failed waits for the next one.            *)
Releases ==
    /\ Queue!QueueTypeOK'
    /\ \A v \in Handlers : held'[v] # "none" =>
          held'[v] = held[v] /\ jobs'[held[v]] = jobs[held[v]]
    /\ \A j \in JobIds :
          \/ jobs'[j] = jobs[j]
          \/ jobs'[j].state = "free"
          \/ /\ jobs[j].state = "active" /\ jobs'[j].state \in {"created", "dead"}
             /\ jobs'[j].item = jobs[j].item

LEMMA NoneReleased ==
  ASSUME Queue!QueueTypeOK, UNCHANGED <<jobs, held>>
  PROVE  Releases
  BY DEF Releases, Queue!QueueTypeOK

LEMMA CompleteReleases ==
  ASSUME Queue!QueueTypeOK, QueueInv, NEW w \in Handlers, Queue!Complete(w)
  PROVE  /\ Releases
         /\ held'[w] = "none" /\ \A v \in Handlers : v # w => held'[v] = held[v]
         /\ \A j \in JobIds : jobs'[j] = jobs[j] \/ (j = held[w] /\ jobs'[j].state = "free")
         /\ held[w] # "none" => jobs'[held[w]].state = "free"
  <1>0. "none" \notin JobIds
    BY EvalRunsAssumption
  <1>1. held' \in [Handlers -> JobIds \cup {"none"}]
    BY DEF Queue!QueueTypeOK, Queue!Complete
  <1>2. held'[w] = "none" /\ \A v \in Handlers : v # w => held'[v] = held[v]
    BY DEF Queue!QueueTypeOK, Queue!Complete
  <1>3. Queue!NoJob \in Queue!Job /\ Queue!NoJob.state = "free"
    BY EvalRunsAssumption DEF Queue!NoJob, Queue!Job, Queue!JobStates
  <1>4. /\ jobs' \in [JobIds -> Queue!Job]
        /\ \A j \in JobIds : jobs'[j] = IF j = held[w] THEN Queue!NoJob ELSE jobs[j]
    BY <1>0, <1>3 DEF Queue!QueueTypeOK, Queue!Complete
  <1>5. \A v \in Handlers : held'[v] # "none" =>
           held'[v] = held[v] /\ held[v] \in JobIds /\ held[v] # held[w]
    BY <1>1, <1>2 DEF QueueInv, Queue!QueueTypeOK
  <1>6. held[w] # "none" => held[w] \in JobIds
    BY DEF Queue!QueueTypeOK
  <1>7. QED
    BY <1>1, <1>2, <1>3, <1>4, <1>5, <1>6 DEF Releases, Queue!QueueTypeOK

LEMMA FailReleases ==
  ASSUME Queue!QueueTypeOK, QueueInv, NEW w \in Handlers, Busy(w), Queue!Fail(w)
  PROVE  /\ Releases
         /\ held'[w] = "none" /\ \A v \in Handlers : v # w => held'[v] = held[v]
         /\ \A j \in JobIds : jobs[j].state # "free" =>
               jobs'[j].state # "free" /\ jobs'[j].item = jobs[j].item
         /\ held[w] # "none" => jobs'[held[w]].state # "mending"
  <1>1. held' \in [Handlers -> JobIds \cup {"none"}]
    BY DEF Queue!QueueTypeOK, Queue!Fail
  <1>2. held'[w] = "none" /\ \A v \in Handlers : v # w => held'[v] = held[v]
    BY DEF Queue!QueueTypeOK, Queue!Fail
  <1>3. CASE held[w] = "none"
    <2>1. jobs' = jobs
      BY <1>3 DEF Queue!Fail
    <2>2. \A v \in Handlers : held'[v] # "none" => held'[v] = held[v]
      BY <1>2
    <2>3. QED
      BY <1>1, <1>2, <1>3, <2>1, <2>2 DEF Releases, Queue!QueueTypeOK
  <1>4. CASE held[w] # "none"
    <2>1. PICK j \in JobIds : j = held[w]
      BY <1>4 DEF Queue!QueueTypeOK
    <2>2. PICK next : next = Queue!AfterFailure(jobs[j])
      OBVIOUS
    <2>3. jobs[j] \in Queue!Job /\ jobs[j].state = "active"
      BY <1>4, <2>1 DEF QueueInv, Queue!QueueTypeOK
    <2>4. /\ next \in Queue!Job /\ next.state \in {"created", "dead"}
          /\ next.item = jobs[j].item
      BY <2>2, <2>3, FailedJob
    <2>5. jobs' = [jobs EXCEPT ![j] = next]
      BY <1>4, <2>1, <2>2 DEF Queue!Fail
    <2>6. /\ jobs' \in [JobIds -> Queue!Job] /\ jobs'[j] = next
          /\ \A i \in JobIds : i # j => jobs'[i] = jobs[i]
      BY <2>4, <2>5 DEF Queue!QueueTypeOK
    <2>7. \A v \in Handlers : held'[v] # "none" =>
             held'[v] = held[v] /\ held[v] \in JobIds /\ held[v] # j
      BY <1>1, <1>2, <2>1 DEF QueueInv, Queue!QueueTypeOK
    <2>8. Releases
      BY <1>1, <2>3, <2>4, <2>6, <2>7 DEF Releases, Queue!QueueTypeOK
    <2>9. QED
      BY <1>2, <2>1, <2>3, <2>4, <2>6, <2>8
  <1>5. QED
    BY <1>3, <1>4

LEMMA AbandonReleases ==
  ASSUME Queue!QueueTypeOK, QueueInv, NEW w \in Handlers, Queue!Abandon(w)
  PROVE  /\ Releases /\ jobs' = jobs
         /\ held'[w] = "none" /\ \A v \in Handlers : v # w => held'[v] = held[v]
         /\ held[w] # "none" /\ Busy(w) => jobs'[held[w]].state # "mending"
  <1>1. held' \in [Handlers -> JobIds \cup {"none"}]
    BY DEF Queue!QueueTypeOK, Queue!Abandon
  <1>2. /\ held'[w] = "none" /\ \A v \in Handlers : v # w => held'[v] = held[v]
        /\ jobs' = jobs
    BY DEF Queue!QueueTypeOK, Queue!Abandon
  <1>3. held[w] # "none" /\ Busy(w) => jobs'[held[w]].state # "mending"
    BY <1>2 DEF QueueInv
  <1>4. QED
    BY <1>1, <1>2, <1>3 DEF Releases, Queue!QueueTypeOK

LEMMA ExpireReleases ==
  ASSUME Queue!QueueTypeOK, QueueInv, NEW j \in JobIds, Queue!Expire(j)
  PROVE  /\ Releases
         /\ \A v \in Handlers : held'[v] = IF held[v] = j THEN "none" ELSE held[v]
         /\ \A i \in JobIds : i # j => jobs'[i] = jobs[i]
         /\ jobs'[j].state # "mending"
         /\ jobs[j].state = "active" =>
               jobs'[j].state # "free" /\ jobs'[j].item = jobs[j].item
         /\ jobs[j].state \in {"active", "mending"}
  <1>1. PICK next : next = Queue!AfterFailure(jobs[j])
    OBVIOUS
  <1>2. jobs[j] \in Queue!Job /\ jobs[j].state \in {"active", "mending"}
    BY DEF Queue!QueueTypeOK, Queue!Expire
  <1>3. /\ next \in Queue!Job /\ next.state \in {"free", "created", "dead"}
        /\ jobs[j].state = "active" => next.state # "free" /\ next.item = jobs[j].item
        /\ jobs[j].state # "active" => next.state = "free"
    BY <1>1, <1>2, FailedJob
  <1>4. jobs' = [jobs EXCEPT ![j] = next]
    BY <1>1 DEF Queue!Expire
  <1>5. /\ jobs' \in [JobIds -> Queue!Job] /\ jobs'[j] = next
        /\ \A i \in JobIds : i # j => jobs'[i] = jobs[i]
    BY <1>3, <1>4 DEF Queue!QueueTypeOK
  <1>6. /\ held' \in [Handlers -> JobIds \cup {"none"}]
        /\ \A v \in Handlers : held'[v] = IF held[v] = j THEN "none" ELSE held[v]
    BY DEF Queue!QueueTypeOK, Queue!Expire
  <1>7. \A v \in Handlers : held'[v] # "none" =>
           held'[v] = held[v] /\ held[v] \in JobIds /\ held[v] # j
    BY <1>6
  <1>8. Releases
    BY <1>2, <1>3, <1>5, <1>6, <1>7 DEF Releases, Queue!QueueTypeOK
  <1>9. QED
    BY <1>2, <1>3, <1>5, <1>6, <1>8

LEMMA FetchTakes ==
  ASSUME Queue!QueueTypeOK, QueueInv, NEW w \in Handlers, NEW j \in JobIds,
         NEW from \in {"created", "dead"}, NEW to \in {"active", "mending"},
         \/ Queue!Fetch(w, j) /\ from = "created" /\ to = "active"
         \/ Queue!FetchDead(w, j) /\ from = "dead" /\ to = "mending"
  PROVE  /\ Queue!QueueTypeOK'
         /\ held[w] = "none" /\ held'[w] = j /\ \A v \in Handlers : v # w => held'[v] = held[v]
         /\ \A i \in JobIds : i # j => jobs'[i] = jobs[i]
         /\ jobs[j].state = from /\ jobs'[j].state = to /\ jobs'[j].item = jobs[j].item
         /\ jobs[j].item \in Runs /\ run[jobs[j].item].status # "absent"
         /\ \A v \in Handlers : held[v] # j
  <1>1. /\ held[w] = "none" /\ held' = [held EXCEPT ![w] = j]
        /\ jobs[j].state = from /\ jobs' = [jobs EXCEPT ![j].state = to]
    BY DEF Queue!Fetch, Queue!FetchDead
  <1>2. jobs[j].item \in Runs /\ run[jobs[j].item].status # "absent"
    BY <1>1 DEF QueueInv
  <1>3. \A v \in Handlers : held[v] # j
    BY <1>1, EvalRunsAssumption DEF QueueInv
  <1>4. /\ jobs' \in [JobIds -> Queue!Job]
        /\ \A i \in JobIds : i # j => jobs'[i] = jobs[i]
        /\ jobs'[j].state = to /\ jobs'[j].item = jobs[j].item
    BY <1>1 DEF Queue!QueueTypeOK, Queue!Job, Queue!JobStates
  <1>5. QED
    BY <1>1, <1>2, <1>3, <1>4 DEF Queue!QueueTypeOK

LEMMA SendAdds ==
  ASSUME Queue!QueueTypeOK, QueueInv, NEW r \in Runs, Queue!Send(r), UNCHANGED held
  PROVE  /\ Queue!QueueTypeOK'
         /\ \E j \in JobIds :
               /\ jobs[j].state = "free" /\ jobs'[j].state = "created" /\ jobs'[j].item = r
               /\ \A i \in JobIds : i # j => jobs'[i] = jobs[i]
               /\ \A v \in Handlers : held[v] # j
  <1>1. PICK j \in JobIds :
           /\ jobs[j].state = "free"
           /\ jobs' = [jobs EXCEPT ![j] = [state |-> "created", item |-> r, tries |-> 0]]
    BY DEF Queue!Send
  <1>2. [state |-> "created", item |-> r, tries |-> 0] \in Queue!Job
    BY EvalRunsAssumption DEF Queue!Job, Queue!JobStates
  <1>3. /\ jobs' \in [JobIds -> Queue!Job]
        /\ jobs'[j].state = "created" /\ jobs'[j].item = r
        /\ \A i \in JobIds : i # j => jobs'[i] = jobs[i]
    BY <1>1, <1>2 DEF Queue!QueueTypeOK
  <1>4. \A v \in Handlers : held[v] # j
    BY <1>1, EvalRunsAssumption DEF QueueInv
  <1>5. QED
    BY <1>1, <1>3, <1>4 DEF Queue!QueueTypeOK

-----------------------------------------------------------------------------
(* What a step of the runs does, in the terms the invariant is stated in.  *)

RunType == [Runs -> [status : EVAL_RUN_STATUS \cup {"absent"},
                     caseIds : Requests \cup {<<>>},
                     matches : 0..Cardinality(Cases)]]

ResultsType == [Runs -> [Cases -> {"none", "match", "miss"}]]
PaidType == [Runs -> [Cases -> Nat]]

LEMMA RunsTypeParts ==
  RunsTypeOK <=> /\ run \in RunType /\ results \in ResultsType /\ paid \in PaidType
                 /\ known \in SUBSET Cases /\ task \in [Handlers -> Task]
                 /\ mishaps \in Mishaps /\ Queue!QueueTypeOK
  BY DEF RunsTypeOK, RunType, ResultsType, PaidType

(* Results are never taken back.                                           *)
ResultsStand ==
    /\ results' \in ResultsType
    /\ \A r \in Runs, c \in Cases :
          results[r][c] # "none" => results'[r][c] = results[r][c]

(* A handler goes on with its run.                                         *)
Onward(w) ==
    /\ Busy(w)
    /\ task' \in [Handlers -> Task]
    /\ task'[w].step \notin {"idle", "repair"} /\ task'[w].run = task[w].run
    /\ \A v \in Handlers : v # w => task'[v] = task[v]
    /\ ResultsStand
    /\ paid' \in PaidType
    /\ UNCHANGED <<run, known, mishaps, jobs, held>>

(* It leaves: with its run settled, for the next attempt, or killed.       *)
Left(w) ==
    LET r == task[w].run IN
    /\ task[w].step # "idle" /\ r \in Runs
    /\ task' \in [Handlers -> Task] /\ task'[w].step = "idle"
    /\ \A v \in Handlers : v # w => task'[v] = task[v]
    /\ UNCHANGED <<results, paid, known>>
    /\ NoFewer
    /\ run' \in RunType
    /\ \A q \in Runs : q # r => run'[q] = run[q]
    /\ \/ run'[r] = run[r]
       \/ /\ run[r].status = "running" /\ run'[r].status \in {"completed", "failed"}
          /\ run'[r].caseIds = run[r].caseIds
          /\ run'[r].status = "completed" =>
                /\ task[w].step = "close" /\ run'[r].matches = task[w].total
                /\ held[w] # "none" => jobs'[held[w]].state = "free"
    /\ Releases
    /\ held'[w] = "none" /\ \A v \in Handlers : v # w => held'[v] = held[v]
    /\ \A j \in JobIds : jobs[j].state # "free" =>
          \/ jobs'[j].state # "free" /\ jobs'[j].item = jobs[j].item
          \/ j = held[w] /\ run'[r].status # "running"
    /\ held[w] # "none" => jobs'[held[w]].state # "mending" \/ mishaps'.repairs > 0
    /\ task[w].step = "repair" => run'[r].status # "running" \/ mishaps'.repairs > 0
    /\ task[w].step = "store" => \/ results[r][CaseOf(w)] # "none"
                                 \/ Lost' >= Lost + 1

(* It takes a job up.                                                      *)
Begins(w, j) ==
    /\ task[w].step = "idle" /\ jobs[j].item \in Runs
    /\ task' \in [Handlers -> Task]
    /\ task'[w].step \in {"read", "repair"} /\ task'[w].run = jobs[j].item
    /\ \A v \in Handlers : v # w => task'[v] = task[v]
    /\ Queue!QueueTypeOK'
    /\ held'[w] = j /\ \A v \in Handlers : v # w => held'[v] = held[v]
    /\ \A v \in Handlers : held[v] # j
    /\ jobs[j].state # "free" /\ run[jobs[j].item].status # "absent"
    /\ jobs'[j].item = jobs[j].item
    /\ jobs'[j].state = IF task'[w].step = "repair" THEN "mending" ELSE "active"
    /\ \A i \in JobIds : i # j => jobs'[i] = jobs[i]
    /\ UNCHANGED <<run, results, paid, known, mishaps>>

(* A job expires, at its handler's back or behind a dead one's.            *)
Expires(j) ==
    /\ Releases
    /\ \A v \in Handlers : held'[v] = IF held[v] = j THEN "none" ELSE held[v]
    /\ \A i \in JobIds : i # j => jobs'[i] = jobs[i]
    /\ jobs'[j].state # "mending"
    /\ jobs[j].state = "active" => jobs'[j].state # "free" /\ jobs'[j].item = jobs[j].item
    /\ jobs[j].state \in {"active", "mending"}
    /\ NoFewer
    /\ (\E v \in Handlers : held[v] = j) => mishaps'.stalls = mishaps.stalls + 1
    /\ UNCHANGED <<run, results, paid, known, task>>

(* A run is opened, with its job.                                          *)
Opens(r) ==
    /\ run[r].status = "absent"
    /\ run' \in RunType /\ run'[r].status = "running"
    /\ \A q \in Runs : q # r => run'[q] = run[q]
    /\ Queue!QueueTypeOK'
    /\ \E j \in JobIds :
          /\ jobs[j].state = "free" /\ jobs'[j].state = "created" /\ jobs'[j].item = r
          /\ \A i \in JobIds : i # j => jobs'[i] = jobs[i]
          /\ \A v \in Handlers : held[v] # j
    /\ UNCHANGED <<results, paid, known, task, mishaps, held>>

(* Something happens elsewhere: misfortunes, and a deploy drops a case.    *)
Elsewhere ==
    /\ NoFewer
    /\ known' \subseteq known
    /\ known' = known \/ mishaps'.renames > 0
    /\ UNCHANGED <<run, results, paid, task, jobs, held>>

-----------------------------------------------------------------------------

LEMMA HandlersRun ==
  ASSUME RunsTypeOK, QueueInv, NEW w \in Handlers, task[w].step # "idle"
  PROVE  /\ task[w].run \in Runs /\ run[task[w].run].status # "absent"
         /\ run[task[w].run].caseIds \in Seq(Cases)
  <1>1. task[w].run \in Runs /\ run[task[w].run].status # "absent"
    BY DEF QueueInv
  <1>2. run[task[w].run].caseIds \in Requests \cup {<<>>}
    BY <1>1 DEF RunsTypeOK
  <1>3. <<>> \in Seq(Cases) /\ Requests \subseteq Seq(Cases)
    BY EvalRunsAssumption
  <1>4. QED
    BY <1>1, <1>2, <1>3

(* The case a handler measures or stores is one of the request's.          *)
LEMMA HandlersCase ==
  ASSUME RunsTypeOK, QueueInv, LoopInv, NEW w \in Handlers,
         task[w].step \in {"measure", "store"}
  PROVE  /\ task[w].run \in Runs /\ task[w].at \in DOMAIN run[task[w].run].caseIds
         /\ task[w].at \in task[w].todo
         /\ CaseOf(w) \in Cases /\ CaseOf(w) \notin task[w].done
         /\ task[w].step = "store" => task[w].verdict \in {"match", "miss"}
  <1>1. /\ task[w].run \in Runs /\ run[task[w].run].caseIds \in Seq(Cases)
    BY HandlersRun
  <1>2. /\ task[w].at \in DOMAIN run[task[w].run].caseIds
        /\ run[task[w].run].caseIds[task[w].at] \notin task[w].done
        /\ task[w].at \in task[w].todo
    BY DEF LoopInv, LoopOK, Later
  <1>3. CaseOf(w) \in Cases
    BY <1>1, <1>2 DEF CaseOf
  <1>4. task[w].step = "store" => task[w].verdict \in {"match", "miss"}
    <2>1. task[w].verdict \in {"none", "match", "miss"}
      BY DEF RunsTypeOK, Task
    <2>2. QED
      BY <2>1 DEF LoopInv, LoopOK
  <1>5. QED
    BY <1>1, <1>2, <1>3, <1>4 DEF CaseOf

LEMMA SettleFacts ==
  ASSUME RunsTypeOK, NEW r \in Runs, NEW status \in {"completed", "failed"},
         NEW matches \in 0..Cardinality(Cases), Settle(r, status, matches)
  PROVE  /\ run' \in RunType
         /\ \A q \in Runs : q # r => run'[q] = run[q]
         /\ run'[r].status # "running"
         /\ \/ run'[r] = run[r]
            \/ /\ run[r].status = "running" /\ run'[r].status = status
               /\ run'[r].caseIds = run[r].caseIds
               /\ run'[r].matches = matches
  <1>1. CASE run[r].status = "running"
    <2> DEFINE new == [run[r] EXCEPT !.status = status, !.matches = matches]
    <2>1. run' = [run EXCEPT ![r] = new]
      BY <1>1 DEF Settle
    <2>2. /\ new \in [status : EVAL_RUN_STATUS \cup {"absent"},
                      caseIds : Requests \cup {<<>>}, matches : 0..Cardinality(Cases)]
          /\ new.status = status /\ new.caseIds = run[r].caseIds /\ new.matches = matches
      BY DEF RunsTypeOK, EVAL_RUN_STATUS
    <2> HIDE DEF new
    <2>3. run'[r] = new /\ run' \in RunType /\ \A q \in Runs : q # r => run'[q] = run[q]
      BY <2>1, <2>2 DEF RunsTypeOK, RunType
    <2>4. QED
      BY <1>1, <2>2, <2>3
  <1>2. CASE run[r].status # "running"
    BY <1>2 DEF Settle, RunsTypeOK, RunType
  <1>3. QED
    BY <1>1, <1>2

-----------------------------------------------------------------------------
(* The steps do what is said above.                                        *)

LEMMA ReadOnward ==
  ASSUME RunsTypeOK, QueueInv, NEW w \in Handlers, Read(w),
         run[task[w].run].status = "running"
  PROVE  /\ Onward(w) /\ task[w].step = "read" /\ UNCHANGED <<results, paid>>
         /\ \/ task'[w].step = "empty"
            \/ /\ task'[w].step = "list" /\ task'[w].done = task[w].done
               /\ task'[w].todo = {i \in DOMAIN run[task[w].run].caseIds :
                                      run[task[w].run].caseIds[i] \in known}
  <1> DEFINE ids == run[task[w].run].caseIds
             cases == {i \in DOMAIN ids : ids[i] \in known}
  <1>1. task \in [Handlers -> Task] /\ task[w].step = "read"
    BY DEF RunsTypeOK, Read
  <1>2. cases \in SUBSET Nat
    <2>1. ids \in Seq(Cases)
      BY <1>1, HandlersRun
    <2>2. DOMAIN ids = 1..Len(ids) /\ Len(ids) \in Nat
      BY <2>1
    <2>3. QED
      BY <2>2
  <1>3. \/ Goto(w, "empty") 
        \/ /\ task' = [task EXCEPT ![w].step = "list", ![w].todo = cases]
           /\ UNCHANGED queueVars
    BY DEF Read
  <1>4. UNCHANGED <<run, results, paid, known, mishaps>>
    BY DEF Read
  <1> HIDE DEF cases
  <1>5. \/ Moves(w, "empty", task[w].todo, task[w].at, task[w].done)
        \/ Moves(w, "list", cases, task[w].at, task[w].done)
    BY <1>1, <1>2, <1>3, <1>4, GotoMoves, ReadMoves
  <1>6. ResultsStand /\ paid' \in PaidType
    BY <1>4 DEF RunsTypeOK, ResultsStand, ResultsType, PaidType
  <1>7. QED
    BY <1>1, <1>4, <1>5, <1>6 DEF Onward, Moves, Busy, cases

LEMMA QuietOnward ==
  ASSUME RunsTypeOK, NEW w \in Handlers, Busy(w), NEW step, NEW todo, NEW at, NEW done,
         Moves(w, step, todo, at, done), step \notin {"idle", "repair"},
         UNCHANGED <<results, paid>>
  PROVE  Onward(w)
  BY DEF RunsTypeOK, ResultsStand, ResultsType, PaidType, Onward, Moves

LEMMA ListOnward ==
  ASSUME RunsTypeOK, NEW w \in Handlers, List(w)
  PROVE  /\ Onward(w) /\ task[w].step = "list" /\ UNCHANGED <<results, paid>>
         /\ task'[w].step = "cases" /\ task'[w].todo = task[w].todo
         /\ task'[w].done = Answered(task[w].run)
  <1>1. task \in [Handlers -> Task] /\ task[w].step = "list" /\ Busy(w)
    BY DEF RunsTypeOK, List, Busy
  <1>2. /\ Moves(w, "cases", task[w].todo, task[w].at, Answered(task[w].run))
        /\ UNCHANGED <<results, paid>>
    BY <1>1, ListMoves
  <1>3. Onward(w)
    BY <1>1, <1>2, QuietOnward
  <1>4. QED
    BY <1>1, <1>2, <1>3 DEF Moves

LEMMA NextCaseOnward ==
  ASSUME RunsTypeOK, NEW w \in Handlers, NextCase(w)
  PROVE  /\ Onward(w) /\ task[w].step = "cases" /\ UNCHANGED <<results, paid>>
         /\ task'[w].done = task[w].done
         /\ \/ task'[w].step = "sum" /\ task[w].todo = {} /\ task'[w].todo = {}
            \/ \E i \in task[w].todo :
                  \/ /\ run[task[w].run].caseIds[i] \in task[w].done
                     /\ task'[w].step = "cases" /\ task'[w].todo = task[w].todo \ {i}
                  \/ /\ run[task[w].run].caseIds[i] \notin task[w].done
                     /\ task'[w].step = "measure" /\ task'[w].todo = task[w].todo
                     /\ task'[w].at = i
  <1>1. task \in [Handlers -> Task] /\ task[w].step = "cases" /\ Busy(w)
        /\ task[w].todo \in SUBSET Nat
    BY DEF RunsTypeOK, NextCase, Busy, Task
  <1>2. UNCHANGED <<run, results, paid, known, mishaps>>
    BY DEF NextCase
  <1>3. CASE task[w].todo = {} /\ Goto(w, "sum")
    <2>1. Moves(w, "sum", task[w].todo, task[w].at, task[w].done)
      BY <1>1, <1>2, <1>3, GotoMoves
    <2>2. Onward(w)
      BY <1>1, <1>2, <2>1, QuietOnward
    <2>3. QED
      BY <1>1, <1>2, <1>3, <2>1, <2>2 DEF Moves
  <1>4. ASSUME NEW i \in task[w].todo, UNCHANGED queueVars,
               task' = [task EXCEPT ![w] =
                          IF run[task[w].run].caseIds[i] \in task[w].done
                          THEN [@ EXCEPT !.todo = task[w].todo \ {i}]
                          ELSE [@ EXCEPT !.step = "measure", !.at = i]]
        PROVE  /\ Onward(w) /\ task'[w].done = task[w].done
               /\ \/ /\ run[task[w].run].caseIds[i] \in task[w].done
                     /\ task'[w].step = "cases" /\ task'[w].todo = task[w].todo \ {i}
                  \/ /\ run[task[w].run].caseIds[i] \notin task[w].done
                     /\ task'[w].step = "measure" /\ task'[w].todo = task[w].todo
                     /\ task'[w].at = i
    <2>1. CASE run[task[w].run].caseIds[i] \in task[w].done
      <3>1. task' = [task EXCEPT ![w] = [@ EXCEPT !.todo = task[w].todo \ {i}]]
        BY <1>4, <2>1
      <3>2. Moves(w, "cases", task[w].todo \ {i}, task[w].at, task[w].done)
        BY <1>1, <1>2, <1>4, <3>1, SkipMoves, ZenonT(60)
      <3>3. Onward(w)
        BY <1>1, <1>2, <3>2, QuietOnward
      <3>4. QED
        BY <2>1, <3>2, <3>3 DEF Moves
    <2>2. CASE run[task[w].run].caseIds[i] \notin task[w].done
      <3>1. task' = [task EXCEPT ![w] = [@ EXCEPT !.step = "measure", !.at = i]]
        BY <1>4, <2>2
      <3>2. Moves(w, "measure", task[w].todo, i, task[w].done)
        BY <1>1, <1>2, <1>4, <3>1, TakeMoves
      <3>3. Onward(w)
        BY <1>1, <1>2, <3>2, QuietOnward
      <3>4. QED
        BY <2>2, <3>2, <3>3 DEF Moves
    <2>3. QED
      BY <2>1, <2>2
  <1>5. QED
    BY <1>1, <1>2, <1>3, <1>4 DEF NextCase

LEMMA MeasureOnward ==
  ASSUME RunsTypeOK, QueueInv, LoopInv, NEW w \in Handlers, Measure(w)
  PROVE  /\ Onward(w) /\ task[w].step = "measure" /\ results' = results
         /\ task'[w].step = "store" /\ task'[w].todo = task[w].todo
         /\ task'[w].done = task[w].done /\ task'[w].at = task[w].at
         /\ task'[w].verdict # "none"
         /\ \A r \in Runs, c \in Cases :
               paid'[r][c] = IF r = task[w].run /\ c = CaseOf(w)
                             THEN paid[r][c] + 1 ELSE paid[r][c]
  <1>1. task \in [Handlers -> Task] /\ task[w].step = "measure" /\ Busy(w)
    BY DEF RunsTypeOK, Measure, Busy
  <1>2. Moves(w, "store", task[w].todo, task[w].at, task[w].done)
        /\ task'[w].verdict \in {"match", "miss"}
    BY <1>1, MeasureMoves
  <1>3. PICK r \in Runs : r = task[w].run
    BY <1>1, HandlersRun
  <1>4. PICK c \in Cases : c = CaseOf(w)
    BY <1>1, HandlersCase
  <1>5. paid' = [paid EXCEPT ![r][c] = @ + 1] /\ results' = results
    BY <1>3, <1>4 DEF Measure
  <1>6. /\ paid' \in PaidType
        /\ \A q \in Runs, d \in Cases :
              paid'[q][d] = IF q = r /\ d = c THEN paid[q][d] + 1 ELSE paid[q][d]
    BY <1>5 DEF RunsTypeOK, PaidType
  <1>7. Onward(w)
    BY <1>1, <1>2, <1>5, <1>6
    DEF Onward, Moves, RunsTypeOK, ResultsStand, ResultsType
  <1>8. QED
    BY <1>1, <1>2, <1>3, <1>4, <1>5, <1>6, <1>7 DEF Moves

LEMMA StoreOnward ==
  ASSUME RunsTypeOK, QueueInv, LoopInv, NEW w \in Handlers, Stores(w)
  PROVE  /\ Onward(w) /\ task[w].step = "store" /\ paid' = paid
         /\ task'[w].step = "cases" /\ task'[w].todo = task[w].todo \ {task[w].at}
         /\ task'[w].done = task[w].done
         /\ results[task[w].run][CaseOf(w)] = "none"
         /\ results'[task[w].run][CaseOf(w)] # "none"
         /\ \A r \in Runs, c \in Cases :
               ~(r = task[w].run /\ c = CaseOf(w)) => results'[r][c] = results[r][c]
  <1>1. task \in [Handlers -> Task] /\ task[w].step = "store" /\ Busy(w)
    BY DEF RunsTypeOK, Stores, Busy
  <1>2. Moves(w, "cases", task[w].todo \ {task[w].at}, 0, task[w].done)
    BY <1>1, StoreMoves
  <1>3. PICK r \in Runs : r = task[w].run
    BY <1>1, HandlersRun
  <1>4. PICK c \in Cases : c = CaseOf(w)
    BY <1>1, HandlersCase
  <1>5. PICK verdict \in {"match", "miss"} : verdict = task[w].verdict
    BY <1>1, HandlersCase
  <1>6. /\ results' = [results EXCEPT ![r][c] = verdict] /\ results[r][c] = "none"
        /\ paid' = paid
    BY <1>3, <1>4, <1>5 DEF Stores
  <1>7. /\ results' \in ResultsType
        /\ \A q \in Runs, d \in Cases :
              results'[q][d] = IF q = r /\ d = c THEN verdict ELSE results[q][d]
    BY <1>6 DEF RunsTypeOK, ResultsType
  <1>8. Onward(w)
    BY <1>1, <1>2, <1>6, <1>7
    DEF Onward, Moves, RunsTypeOK, ResultsStand, PaidType
  <1>9. QED
    BY <1>1, <1>2, <1>3, <1>4, <1>6, <1>7, <1>8 DEF Moves

LEMMA SumOnward ==
  ASSUME RunsTypeOK, NEW w \in Handlers, Sum(w)
  PROVE  /\ Onward(w) /\ task[w].step = "sum" /\ UNCHANGED <<results, paid>>
         /\ task'[w].step = "close" /\ task'[w].todo = task[w].todo
         /\ task'[w].done = task[w].done /\ task'[w].total = Matches(task[w].run)
  <1>1. task \in [Handlers -> Task] /\ task[w].step = "sum" /\ Busy(w)
    BY DEF RunsTypeOK, Sum, Busy
  <1>2. /\ Moves(w, "close", task[w].todo, task[w].at, task[w].done)
        /\ task'[w].total = Matches(task[w].run)
    BY <1>1, SumMoves
  <1>3. UNCHANGED <<results, paid>>
    BY DEF Sum
  <1>4. Onward(w)
    BY <1>1, <1>2, <1>3, QuietOnward
  <1>5. QED
    BY <1>1, <1>2, <1>3, <1>4 DEF Moves

LEMMA TaskLeft ==
  ASSUME RunsTypeOK, NEW w \in Handlers, task' = [task EXCEPT ![w] = Idle]
  PROVE  /\ task' \in [Handlers -> Task] /\ task'[w].step = "idle"
         /\ \A v \in Handlers : v # w => task'[v] = task[v]
  BY IdleTask, TaskSet DEF RunsTypeOK

(* The handler returns, its run no longer open.                            *)
LEMMA ReturnLeaves ==
  ASSUME RunsTypeOK, QueueInv, NEW w \in Handlers, Return(w),
         task[w].step \notin {"idle", "store"},
         UNCHANGED <<results, paid, known, mishaps>>,
         run' \in RunType, run'[task[w].run].status # "running",
         \A q \in Runs : q # task[w].run => run'[q] = run[q],
         \/ run'[task[w].run] = run[task[w].run]
         \/ /\ run[task[w].run].status = "running"
            /\ run'[task[w].run].status \in {"completed", "failed"}
            /\ run'[task[w].run].caseIds = run[task[w].run].caseIds
            /\ run'[task[w].run].status = "completed" =>
                  task[w].step = "close" /\ run'[task[w].run].matches = task[w].total
  PROVE  Left(w)
  <1>1. Queue!QueueTypeOK /\ mishaps \in Mishaps
    BY RunsTypeParts
  <1>2. task[w].run \in Runs
    BY HandlersRun
  <1>3. /\ task' \in [Handlers -> Task] /\ task'[w].step = "idle"
        /\ \A v \in Handlers : v # w => task'[v] = task[v]
    BY TaskLeft DEF Return
  <1>4. NoFewer
    BY <1>1, NoneHappens
  <1>5. /\ Releases
        /\ held'[w] = "none" /\ \A v \in Handlers : v # w => held'[v] = held[v]
        /\ \A j \in JobIds : jobs'[j] = jobs[j] \/ (j = held[w] /\ jobs'[j].state = "free")
        /\ held[w] # "none" => jobs'[held[w]].state = "free"
    BY <1>1, CompleteReleases DEF Return
  <1>6. QED
    BY <1>2, <1>3, <1>4, <1>5 DEF Left

(* It throws, and its job is tried again or moves to the dead letters.     *)
LEMMA ThrowLeaves ==
  ASSUME RunsTypeOK, QueueInv, NEW w \in Handlers, Busy(w), Throw(w), NoFewer,
         UNCHANGED <<run, results, paid, known>>,
         task[w].step = "store" => \/ results[task[w].run][CaseOf(w)] # "none"
                                   \/ Lost' >= Lost + 1
  PROVE  Left(w)
  <1>1. Queue!QueueTypeOK /\ run \in RunType
    BY RunsTypeParts
  <1>2. task[w].step \notin {"idle", "repair"} /\ task[w].run \in Runs
    BY HandlersRun DEF Busy
  <1>3. /\ task' \in [Handlers -> Task] /\ task'[w].step = "idle"
        /\ \A v \in Handlers : v # w => task'[v] = task[v]
    BY TaskLeft DEF Throw
  <1>4. /\ Releases
        /\ held'[w] = "none" /\ \A v \in Handlers : v # w => held'[v] = held[v]
        /\ \A j \in JobIds : jobs[j].state # "free" =>
              jobs'[j].state # "free" /\ jobs'[j].item = jobs[j].item
        /\ held[w] # "none" => jobs'[held[w]].state # "mending"
    BY <1>1, FailReleases DEF Throw
  <1>5. QED
    BY <1>1, <1>2, <1>3, <1>4 DEF Left

(* It is killed, and its job is left to expire.                            *)
LEMMA CrashLeaves ==
  ASSUME RunsTypeOK, QueueInv, NEW w \in Handlers, Crash(w)
  PROVE  Left(w)
  <1>1. Queue!QueueTypeOK /\ run \in RunType /\ mishaps \in Mishaps
    BY RunsTypeParts
  <1>2. task[w].step # "idle" /\ task[w].run \in Runs
    <2>1. task[w].step # "idle"
      BY DEF Crash
    <2>2. QED
      BY <2>1, HandlersRun
  <1>3. /\ task' \in [Handlers -> Task] /\ task'[w].step = "idle"
        /\ \A v \in Handlers : v # w => task'[v] = task[v]
    BY TaskLeft DEF Crash
  <1>4. /\ Releases /\ jobs' = jobs
        /\ held'[w] = "none" /\ \A v \in Handlers : v # w => held'[v] = held[v]
        /\ held[w] # "none" /\ Busy(w) => jobs'[held[w]].state # "mending"
    BY <1>1, AbandonReleases DEF Crash
  <1>5. UNCHANGED <<run, results, paid, known>>
    BY DEF Crash
  <1>6. CASE Busy(w) /\ Happens("crashes", MaxCrashes)
    <2>1. NoFewer /\ mishaps'.crashes = mishaps.crashes + 1
          /\ mishaps'.failures = mishaps.failures
      BY <1>1, <1>6, CrashHappens
    <2>2. Lost' >= Lost + 1
      BY <1>1, <2>1, MishapTypes DEF Lost
    <2>3. QED
      BY <1>1, <1>2, <1>3, <1>4, <1>5, <1>6, <2>1, <2>2 DEF Left, Busy
  <1>7. CASE task[w].step = "repair" /\ Happens("repairs", MaxRepairCrashes)
    <2>1. NoFewer /\ mishaps'.repairs > 0
      BY <1>1, <1>7, RepairCrashHappens
    <2>2. QED
      BY <1>1, <1>2, <1>3, <1>4, <1>5, <1>7, <2>1 DEF Left
  <1>8. QED
    BY <1>6, <1>7 DEF Crash, Busy

LEMMA SettlerLeaves ==
  ASSUME RunsTypeOK, QueueInv, NEW w \in Handlers,
         SettleEmpty(w) \/ Close(w) \/ Repair(w)
  PROVE  Left(w)
  <1>1. /\ task[w].step \in {"empty", "close", "repair"} /\ Return(w)
        /\ UNCHANGED <<results, paid, known, mishaps>>
    BY DEF SettleEmpty, Close, Repair
  <1>2. PICK r \in Runs : r = task[w].run
    BY <1>1, HandlersRun
  <1>3. 0 \in 0..Cardinality(Cases) /\ task[w].total \in 0..Cardinality(Cases)
    <2>1. Cardinality(Cases) \in Nat
      BY EvalRunsAssumption, FS_CardinalityType
    <2>2. QED
      BY <2>1 DEF RunsTypeOK, Task
  <1>4. CASE task[w].step = "close" /\ Settle(r, "completed", task[w].total)
    <2>1. /\ run' \in RunType /\ \A q \in Runs : q # r => run'[q] = run[q]
          /\ run'[r].status # "running"
          /\ \/ run'[r] = run[r]
             \/ /\ run[r].status = "running" /\ run'[r].status = "completed"
                /\ run'[r].caseIds = run[r].caseIds
                /\ run'[r].matches = task[w].total
      BY <1>3, <1>4, SettleFacts
    <2>2. QED
      BY <1>1, <1>2, <1>4, <2>1, ReturnLeaves
  <1>5. CASE Settle(r, "failed", 0)
    <2>1. /\ run' \in RunType /\ \A q \in Runs : q # r => run'[q] = run[q]
          /\ run'[r].status # "running"
          /\ \/ run'[r] = run[r]
             \/ /\ run[r].status = "running" /\ run'[r].status = "failed"
                /\ run'[r].caseIds = run[r].caseIds
                /\ run'[r].matches = 0
      BY <1>3, <1>5, SettleFacts
    <2>2. QED
      BY <1>1, <1>2, <2>1, ReturnLeaves
  <1>6. QED
    BY <1>2, <1>4, <1>5 DEF SettleEmpty, Close, Repair

(* Every way a handler leaves.                                             *)
Leaves(w) ==
    \/ Read(w) /\ run[task[w].run].status # "running"
    \/ SettleEmpty(w) \/ Close(w) \/ Repair(w)
    \/ Store(w) /\ results[task[w].run][CaseOf(w)] # "none"
    \/ Breaks(w) \/ Crash(w)

LEMMA LeaverLeft ==
  ASSUME RunsTypeOK, QueueInv, NEW w \in Handlers, Leaves(w)
  PROVE  Left(w)
  <1>1. run \in RunType /\ mishaps \in Mishaps
    BY RunsTypeParts
  <1>2. CASE Read(w) /\ run[task[w].run].status # "running"
    <2>1. /\ task[w].step = "read" /\ Return(w)
          /\ UNCHANGED <<run, results, paid, known, mishaps>>
      BY <1>2 DEF Read
    <2>2. QED
      BY <1>1, <1>2, <2>1, ReturnLeaves
  <1>3. CASE SettleEmpty(w) \/ Close(w) \/ Repair(w)
    BY <1>3, SettlerLeaves
  <1>4. CASE Store(w) /\ results[task[w].run][CaseOf(w)] # "none"
    <2>1. /\ Busy(w) /\ Throw(w) /\ UNCHANGED <<run, results, paid, known, mishaps>>
      BY <1>4 DEF Store, Busy
    <2>2. NoFewer
      BY <1>1, <2>1, NoneHappens
    <2>3. QED
      BY <1>4, <2>1, <2>2, ThrowLeaves
  <1>5. CASE Breaks(w)
    <2>1. /\ Busy(w) /\ Throw(w) /\ UNCHANGED <<run, results, paid, known>>
          /\ Happens("failures", MaxFailures)
      BY <1>5 DEF Breaks, Busy
    <2>2. NoFewer /\ mishaps'.failures = mishaps.failures + 1
          /\ mishaps'.crashes = mishaps.crashes
      BY <1>1, <2>1, FailureHappens
    <2>3. Lost' >= Lost + 1
      BY <1>1, <2>2, MishapTypes DEF Lost
    <2>4. QED
      BY <2>1, <2>2, <2>3, ThrowLeaves
  <1>6. CASE Crash(w)
    BY <1>6, CrashLeaves
  <1>7. QED
    BY <1>2, <1>3, <1>4, <1>5, <1>6 DEF Leaves

LEMMA StartBegins ==
  ASSUME RunsTypeOK, QueueInv, NEW w \in Handlers, NEW j \in JobIds,
         Start(w, j) \/ StartRepair(w, j)
  PROVE  Begins(w, j)
  <1>1. Queue!QueueTypeOK
    BY RunsTypeParts
  <1>2. ASSUME NEW step \in {"read", "repair"}, NEW from \in {"created", "dead"},
               NEW to \in {"active", "mending"}, step = "repair" <=> to = "mending",
               \/ Queue!Fetch(w, j) /\ from = "created" /\ to = "active"
               \/ Queue!FetchDead(w, j) /\ from = "dead" /\ to = "mending",
               task' = [task EXCEPT ![w] = [Idle EXCEPT !.step = step, !.run = jobs[j].item]],
               task[w].step = "idle", UNCHANGED <<run, results, paid, known, mishaps>>
        PROVE  Begins(w, j)
    <2>1. /\ Queue!QueueTypeOK'
          /\ held'[w] = j /\ \A v \in Handlers : v # w => held'[v] = held[v]
          /\ \A i \in JobIds : i # j => jobs'[i] = jobs[i]
          /\ jobs[j].state = from /\ jobs'[j].state = to /\ jobs'[j].item = jobs[j].item
          /\ jobs[j].item \in Runs /\ run[jobs[j].item].status # "absent"
          /\ \A v \in Handlers : held[v] # j
      BY <1>1, <1>2, FetchTakes
    <2>2. PICK r \in Runs : r = jobs[j].item
      BY <2>1
    <2> DEFINE t == [Idle EXCEPT !.step = step, !.run = r]
    <2>3. t \in Task /\ t.step = step /\ t.run = r
      BY IdleTask DEF Task
    <2>4. task' = [task EXCEPT ![w] = t]
      BY <1>2, <2>2
    <2> HIDE DEF t
    <2>5. /\ task' \in [Handlers -> Task] /\ task'[w] = t
          /\ \A v \in Handlers : v # w => task'[v] = task[v]
      BY <2>3, <2>4, TaskSet DEF RunsTypeOK
    <2>6. QED
      BY <1>2, <2>1, <2>2, <2>3, <2>5 DEF Begins
  <1>3. CASE Start(w, j)
    BY <1>2, <1>3 DEF Start
  <1>4. CASE StartRepair(w, j)
    BY <1>2, <1>4 DEF StartRepair
  <1>5. QED
    BY <1>3, <1>4

LEMMA ExpiryExpires ==
  ASSUME RunsTypeOK, QueueInv, NEW j \in JobIds, ExpireOrphan(j) \/ ExpireStalled(j)
  PROVE  /\ Expires(j)
         /\ ~(\E v \in Handlers : held[v] = j) => mishaps' = mishaps
  <1>1. Queue!QueueTypeOK /\ mishaps \in Mishaps
    BY RunsTypeParts
  <1>2. Queue!Expire(j) /\ UNCHANGED <<run, results, paid, known, task>>
    BY DEF ExpireOrphan, ExpireStalled
  <1>3. /\ Releases
        /\ \A v \in Handlers : held'[v] = IF held[v] = j THEN "none" ELSE held[v]
        /\ \A i \in JobIds : i # j => jobs'[i] = jobs[i]
        /\ jobs'[j].state # "mending"
        /\ jobs[j].state = "active" =>
              jobs'[j].state # "free" /\ jobs'[j].item = jobs[j].item
        /\ jobs[j].state \in {"active", "mending"}
    BY <1>1, <1>2, ExpireReleases
  <1>4. CASE ExpireOrphan(j)
    <2>1. ~(\E v \in Handlers : held[v] = j) /\ mishaps' = mishaps
      BY <1>4 DEF ExpireOrphan, Queue!HasHandler
    <2>2. QED
      BY <1>1, <1>2, <1>3, <2>1, NoneHappens DEF Expires
  <1>5. CASE ExpireStalled(j)
    <2>1. (\E v \in Handlers : held[v] = j) /\ Happens("stalls", MaxStalls)
      BY <1>5 DEF ExpireStalled, Queue!HasHandler
    <2>2. NoFewer /\ mishaps'.stalls = mishaps.stalls + 1
      BY <1>1, <2>1, StallHappens
    <2>3. QED
      BY <1>2, <1>3, <2>1, <2>2 DEF Expires
  <1>6. QED
    BY <1>4, <1>5

LEMMA StartOpens ==
  ASSUME RunsTypeOK, QueueInv, NEW r \in Runs, NEW ids \in Requests, StartEvalRun(r, ids)
  PROVE  Opens(r)
  <1>1. Queue!QueueTypeOK /\ run \in RunType
    BY RunsTypeParts
  <1>2. /\ Queue!Send(r) /\ UNCHANGED held /\ run[r].status = "absent"
        /\ UNCHANGED <<results, paid, known, task, mishaps>>
    BY DEF StartEvalRun
  <1> DEFINE new == [status |-> "running", caseIds |-> ids, matches |-> 0]
  <1>3. /\ new \in [status : EVAL_RUN_STATUS \cup {"absent"},
                    caseIds : Requests \cup {<<>>}, matches : 0..Cardinality(Cases)]
        /\ new.status = "running"
    <2>1. Cardinality(Cases) \in Nat
      BY EvalRunsAssumption, FS_CardinalityType
    <2>2. QED
      BY <2>1 DEF EVAL_RUN_STATUS
  <1>4. run' = [run EXCEPT ![r] = new]
    BY DEF StartEvalRun
  <1> HIDE DEF new
  <1>5. run' \in RunType /\ run'[r] = new /\ \A q \in Runs : q # r => run'[q] = run[q]
    BY <1>1, <1>3, <1>4 DEF RunType
  <1>6. /\ Queue!QueueTypeOK'
        /\ \E j \in JobIds :
              /\ jobs[j].state = "free" /\ jobs'[j].state = "created" /\ jobs'[j].item = r
              /\ \A i \in JobIds : i # j => jobs'[i] = jobs[i]
              /\ \A v \in Handlers : held[v] # j
    BY <1>1, <1>2, SendAdds
  <1>7. QED
    BY <1>2, <1>3, <1>5, <1>6 DEF Opens

(* Every step of the runs does one of these.                               *)
LEMMA StepsOfRuns ==
  ASSUME RunsTypeOK, QueueInv, LoopInv, RunsNext \/ Asked
  PROVE  \/ \E w \in Handlers :
               \/ Leaves(w)
               \/ Read(w) /\ run[task[w].run].status = "running"
               \/ List(w) \/ NextCase(w) \/ Measure(w) \/ Stores(w) \/ Sum(w)
         \/ \E w \in Handlers, j \in JobIds : Begins(w, j)
         \/ \E j \in JobIds : Expires(j) /\ (ExpireOrphan(j) \/ ExpireStalled(j))
         \/ \E r \in Runs : Opens(r)
         \/ Elsewhere
  <1>1. ASSUME NEW w \in Handlers, HandlerStep(w) \/ Breaks(w) \/ Crash(w)
        PROVE  \/ Leaves(w)
               \/ Read(w) /\ run[task[w].run].status = "running"
               \/ List(w) \/ NextCase(w) \/ Measure(w) \/ Stores(w) \/ Sum(w)
    <2>1. Store(w) => Stores(w) \/ results[task[w].run][CaseOf(w)] # "none"
      BY DEF Store, Stores, queueVars
    <2>2. QED
      BY <1>1, <2>1 DEF HandlerStep, Leaves
  <1>2. ASSUME NEW c \in Cases, Rename(c)
        PROVE  Elsewhere
    <2>1. NoFewer /\ mishaps'.renames > 0
      BY <1>2, RenameHappens DEF Rename, RunsTypeOK
    <2>2. QED
      BY <1>2, <2>1 DEF Rename, Elsewhere, queueVars
  <1>3. CASE RunsNext
    BY <1>1, <1>2, <1>3, StartBegins, ExpiryExpires DEF RunsNext
  <1>4. CASE Asked
    BY <1>4, StartOpens, EvalRunsAssumption DEF Asked
  <1>5. QED
    BY <1>3, <1>4

LEMMA StepsOnward ==
  ASSUME RunsTypeOK, QueueInv, LoopInv, NEW w \in Handlers,
         \/ Read(w) /\ run[task[w].run].status = "running"
         \/ List(w) \/ NextCase(w) \/ Measure(w) \/ Stores(w) \/ Sum(w)
  PROVE  Onward(w)
  BY ReadOnward, ListOnward, NextCaseOnward, MeasureOnward, StoreOnward, SumOnward

-----------------------------------------------------------------------------
(* Types.                                                                  *)

LEMMA TypeKept ==
  ASSUME RunsTypeOK,
         \/ \E w \in Handlers : Onward(w) \/ Left(w)
         \/ \E w \in Handlers, j \in JobIds : Begins(w, j)
         \/ \E j \in JobIds : Expires(j)
         \/ \E r \in Runs : Opens(r)
         \/ Elsewhere
  PROVE  RunsTypeOK' /\ NoFewer
  <1>1. /\ run \in RunType /\ results \in ResultsType /\ paid \in PaidType
        /\ known \in SUBSET Cases /\ task \in [Handlers -> Task]
        /\ mishaps \in Mishaps /\ Queue!QueueTypeOK
    BY RunsTypeParts
  <1>2. NoFewer
    <2>1. UNCHANGED mishaps => NoFewer
      BY <1>1, NoneHappens
    <2>2. QED
      BY <2>1 DEF Onward, Left, Begins, Expires, Opens, Elsewhere
  <1>3. mishaps' \in Mishaps
    BY <1>2 DEF NoFewer
  <1>4. Queue!QueueTypeOK'
    <2>1. UNCHANGED <<jobs, held>> => Queue!QueueTypeOK'
      BY <1>1 DEF Queue!QueueTypeOK
    <2>2. QED
      BY <2>1 DEF Onward, Left, Begins, Expires, Opens, Elsewhere, Releases
  <1>5. run' \in RunType /\ results' \in ResultsType /\ paid' \in PaidType
        /\ known' \in SUBSET Cases /\ task' \in [Handlers -> Task]
    BY <1>1 DEF Onward, Left, Begins, Expires, Opens, Elsewhere, ResultsStand
  <1>6. QED
    BY <1>2, <1>3, <1>4, <1>5 DEF RunsTypeOK, RunType, ResultsType, PaidType

-----------------------------------------------------------------------------
(* The queue: one job per run, and one holder per job.                     *)

(* Nobody takes up a job, and none is added.                               *)
Settles ==
    /\ Releases
    /\ \A v \in Handlers :
          \/ task'[v].step = "idle" /\ held'[v] = "none"
          \/ /\ task[v].step # "idle" /\ task'[v].step # "idle"
             /\ task'[v].run = task[v].run
             /\ task[v].step = "repair" <=> task'[v].step = "repair"
    /\ \A r \in Runs : run[r].status # "absent" => run'[r].status # "absent"

LEMMA SettlesQueue ==
  ASSUME Queue!QueueTypeOK, QueueInv, Settles
  PROVE  QueueInv'
  <1>0. "none" \notin JobIds
    BY EvalRunsAssumption
  <1>1. \A w \in Handlers :
           IF task'[w].step = "idle"
           THEN held'[w] = "none"
           ELSE task'[w].run \in Runs /\ run'[task'[w].run].status # "absent"
    BY DEF QueueInv, Settles, Releases
  <1>2. \A w \in Handlers : held'[w] # "none" =>
           /\ held'[w] = held[w] /\ held[w] \in JobIds
           /\ jobs'[held'[w]].item = task'[w].run
           /\ jobs'[held'[w]].state = IF task'[w].step \notin {"idle", "repair"}
                                      THEN "active" ELSE "mending"
    BY <1>0 DEF QueueInv, Settles, Releases, Busy, Queue!QueueTypeOK
  <1>3. \A v, w \in Handlers : held'[v] = held'[w] /\ held'[w] # "none" => v = w
    BY <1>2 DEF QueueInv
  <1>4. \A j \in JobIds : jobs'[j].state # "free" =>
           jobs[j].state # "free" /\ jobs'[j].item = jobs[j].item
    BY DEF Settles, Releases
  <1>5. \A j \in JobIds : jobs'[j].state # "free" =>
           jobs'[j].item \in Runs /\ run'[jobs'[j].item].status # "absent"
    BY <1>4 DEF QueueInv, Settles
  <1>6. \A i, j \in JobIds :
           jobs'[i].state # "free" /\ jobs'[j].state # "free" /\ jobs'[i].item = jobs'[j].item
              => i = j
    BY <1>4 DEF QueueInv
  <1>7. QED
    BY <1>1, <1>2, <1>3, <1>5, <1>6 DEF QueueInv, Busy

LEMMA BeginsQueue ==
  ASSUME Queue!QueueTypeOK, QueueInv, NEW w \in Handlers, NEW j \in JobIds, Begins(w, j)
  PROVE  QueueInv'
  <1>0. "none" \notin JobIds
    BY EvalRunsAssumption
  <1>1. \A v \in Handlers :
           IF task'[v].step = "idle"
           THEN held'[v] = "none"
           ELSE task'[v].run \in Runs /\ run'[task'[v].run].status # "absent"
    BY DEF QueueInv, Begins
  <1>2. \A v \in Handlers : held'[v] # "none" =>
           /\ jobs'[held'[v]].item = task'[v].run
           /\ jobs'[held'[v]].state = IF task'[v].step \notin {"idle", "repair"}
                                      THEN "active" ELSE "mending"
    <2>1. ASSUME NEW v \in Handlers, v # w, held'[v] # "none"
          PROVE  /\ jobs'[held'[v]].item = task'[v].run
                 /\ jobs'[held'[v]].state = IF task'[v].step \notin {"idle", "repair"}
                                            THEN "active" ELSE "mending"
      <3>1. held'[v] = held[v] /\ held[v] \in JobIds /\ held[v] # j
            /\ task'[v] = task[v] /\ jobs'[held[v]] = jobs[held[v]]
        BY <2>1 DEF Begins, Queue!QueueTypeOK
      <3>2. QED
        BY <2>1, <3>1 DEF QueueInv, Busy
    <2>2. QED
      BY <2>1 DEF Begins
  <1>3. \A u, v \in Handlers : held'[u] = held'[v] /\ held'[v] # "none" => u = v
    BY DEF QueueInv, Begins
  <1>4. \A i \in JobIds : jobs'[i].state # "free" =>
           jobs[i].state # "free" /\ jobs'[i].item = jobs[i].item
    BY DEF Begins
  <1>5. \A i \in JobIds : jobs'[i].state # "free" =>
           jobs'[i].item \in Runs /\ run'[jobs'[i].item].status # "absent"
    BY <1>4 DEF QueueInv, Begins
  <1>6. \A i, k \in JobIds :
           jobs'[i].state # "free" /\ jobs'[k].state # "free" /\ jobs'[i].item = jobs'[k].item
              => i = k
    BY <1>4 DEF QueueInv
  <1>7. QED
    BY <1>1, <1>2, <1>3, <1>5, <1>6 DEF QueueInv, Busy

LEMMA OpensQueue ==
  ASSUME Queue!QueueTypeOK, QueueInv, NEW r \in Runs, Opens(r)
  PROVE  QueueInv'
  <1>1. PICK j \in JobIds :
           /\ jobs[j].state = "free" /\ jobs'[j].state = "created" /\ jobs'[j].item = r
           /\ \A i \in JobIds : i # j => jobs'[i] = jobs[i]
           /\ \A v \in Handlers : held[v] # j
    BY DEF Opens
  <1>2. /\ task' = task /\ held' = held
        /\ \A q \in Runs : run[q].status # "absent" => q # r /\ run'[q] = run[q]
        /\ run'[r].status = "running"
    BY DEF Opens
  <1>3. \A w \in Handlers :
           IF task'[w].step = "idle"
           THEN held'[w] = "none"
           ELSE task'[w].run \in Runs /\ run'[task'[w].run].status # "absent"
    BY <1>2 DEF QueueInv
  <1>4. \A w \in Handlers : held[w] # "none" => jobs'[held[w]] = jobs[held[w]]
    BY <1>1 DEF Queue!QueueTypeOK
  <1>5. \A w \in Handlers : held'[w] # "none" =>
           /\ jobs'[held'[w]].item = task'[w].run
           /\ jobs'[held'[w]].state = IF task'[w].step \notin {"idle", "repair"}
                                      THEN "active" ELSE "mending"
    BY <1>2, <1>4 DEF QueueInv, Busy
  <1>6. \A v, w \in Handlers : held'[v] = held'[w] /\ held'[w] # "none" => v = w
    BY <1>2 DEF QueueInv
  <1>7. \A i \in JobIds : jobs[i].state # "free" => jobs[i].item # r
    BY <1>2 DEF QueueInv
  <1>8. \A i \in JobIds : jobs'[i].state # "free" =>
           jobs'[i].item \in Runs /\ run'[jobs'[i].item].status # "absent"
    BY <1>1, <1>2 DEF QueueInv
  <1>9. \A i, k \in JobIds :
           jobs'[i].state # "free" /\ jobs'[k].state # "free" /\ jobs'[i].item = jobs'[k].item
              => i = k
    BY <1>1, <1>7 DEF QueueInv
  <1>10. QED
    BY <1>3, <1>5, <1>6, <1>8, <1>9 DEF QueueInv, Busy

LEMMA QueueKept ==
  ASSUME Queue!QueueTypeOK, QueueInv,
         \/ \E w \in Handlers : Onward(w) \/ Left(w)
         \/ \E w \in Handlers, j \in JobIds : Begins(w, j)
         \/ \E j \in JobIds : Expires(j)
         \/ \E r \in Runs : Opens(r)
         \/ Elsewhere
  PROVE  QueueInv'
  <1>1. ASSUME NEW w \in Handlers, Onward(w) PROVE Settles
    <2>1. Releases
      BY <1>1, NoneReleased DEF Onward
    <2>2. QED
      BY <1>1, <2>1 DEF Onward, Settles, QueueInv, Busy
  <1>2. ASSUME NEW w \in Handlers, Left(w) PROVE Settles
    <2>1. Releases
      BY <1>2 DEF Left
    <2>2. task'[w].step = "idle" /\ held'[w] = "none"
      BY <1>2 DEF Left
    <2>3. ASSUME NEW v \in Handlers, v # w
          PROVE  \/ task'[v].step = "idle" /\ held'[v] = "none"
                 \/ /\ task[v].step # "idle" /\ task'[v].step # "idle"
                    /\ task'[v].run = task[v].run
                    /\ task[v].step = "repair" <=> task'[v].step = "repair"
      <3>1. task'[v] = task[v] /\ held'[v] = held[v]
        BY <1>2, <2>3 DEF Left
      <3>2. task[v].step = "idle" => held[v] = "none"
        BY DEF QueueInv
      <3>3. QED
        BY <3>1, <3>2
    <2>4. ASSUME NEW r \in Runs, run[r].status # "absent"
          PROVE  run'[r].status # "absent"
      <3>1. CASE r = task[w].run
        BY <1>2, <2>4, <3>1 DEF Left
      <3>2. CASE r # task[w].run
        BY <1>2, <2>4, <3>2 DEF Left
      <3>3. QED
        BY <3>1, <3>2
    <2>5. QED
      BY <2>1, <2>2, <2>3, <2>4 DEF Settles
  <1>3. ASSUME NEW j \in JobIds, Expires(j) PROVE Settles
    BY <1>3 DEF Expires, Settles, QueueInv
  <1>4. CASE Elsewhere
    <2>1. Releases
      BY <1>4, NoneReleased DEF Elsewhere
    <2>2. Settles
      BY <1>4, <2>1 DEF Elsewhere, Settles, QueueInv
    <2>3. QED
      BY <2>2, SettlesQueue
  <1>5. QED
    BY <1>1, <1>2, <1>3, <1>4, SettlesQueue, BeginsQueue, OpensQueue

-----------------------------------------------------------------------------
(* A repair under way is in somebody's hands or was killed.                *)

LEMMA RepairKept ==
  ASSUME RunsTypeOK, QueueInv, RepairInv,
         \/ \E w \in Handlers : Onward(w) \/ Left(w)
         \/ \E w \in Handlers, j \in JobIds : Begins(w, j)
         \/ \E j \in JobIds : Expires(j)
         \/ \E r \in Runs : Opens(r)
         \/ Elsewhere
  PROVE  RepairInv'
  <1>1. SUFFICES ASSUME NEW k \in JobIds, jobs'[k].state = "mending"
                 PROVE  (\E v \in Handlers : held'[v] = k) \/ mishaps'.repairs > 0
    BY DEF RepairInv
  <1>2. mishaps.repairs > 0 => mishaps'.repairs > 0
    <2>1. NoFewer
      BY TypeKept
    <2>2. mishaps.repairs \in Nat /\ mishaps'.repairs \in Nat
      BY <2>1, EvalRunsAssumption DEF NoFewer, Mishaps, RunsTypeOK
    <2>3. QED
      BY <2>1, <2>2 DEF NoFewer
  <1>3. jobs[k].state = "mending" => (\E v \in Handlers : held[v] = k) \/ mishaps.repairs > 0
    BY DEF RepairInv
  <1>4. ASSUME UNCHANGED <<jobs, held>>
        PROVE  (\E v \in Handlers : held'[v] = k) \/ mishaps'.repairs > 0
    BY <1>1, <1>2, <1>3, <1>4
  <1>5. CASE \E w \in Handlers : Onward(w)
    BY <1>4, <1>5 DEF Onward
  <1>6. ASSUME NEW w \in Handlers, Left(w)
        PROVE  (\E v \in Handlers : held'[v] = k) \/ mishaps'.repairs > 0
    <2>1. jobs'[k] = jobs[k]
      BY <1>1, <1>6 DEF Left, Releases
    <2>2. ASSUME NEW v \in Handlers, held[v] = k, v # w
          PROVE  held'[v] = k
      BY <1>6, <2>2 DEF Left
    <2>3. held[w] = k => mishaps'.repairs > 0
      BY <1>1, <1>6, EvalRunsAssumption DEF Left
    <2>4. QED
      BY <1>1, <1>2, <1>3, <2>1, <2>2, <2>3
  <1>7. ASSUME NEW w \in Handlers, NEW j \in JobIds, Begins(w, j)
        PROVE  (\E v \in Handlers : held'[v] = k) \/ mishaps'.repairs > 0
    <2>1. CASE k = j
      BY <1>7, <2>1 DEF Begins
    <2>2. CASE k # j
      <3>1. jobs'[k] = jobs[k]
        BY <1>7, <2>2 DEF Begins
      <3>2. \A v \in Handlers : held[v] = k => held'[v] = k
        <4>1. held[w] = "none"
          BY <1>7 DEF Begins, QueueInv
        <4>2. QED
          BY <1>7, <4>1, EvalRunsAssumption DEF Begins
      <3>3. QED
        BY <1>1, <1>2, <1>3, <3>1, <3>2
    <2>3. QED
      BY <2>1, <2>2
  <1>8. ASSUME NEW j \in JobIds, Expires(j)
        PROVE  (\E v \in Handlers : held'[v] = k) \/ mishaps'.repairs > 0
    <2>1. k # j /\ jobs'[k] = jobs[k]
      BY <1>1, <1>8 DEF Expires
    <2>2. \A v \in Handlers : held[v] = k => held'[v] = k
      BY <1>8, <2>1 DEF Expires
    <2>3. QED
      BY <1>1, <1>2, <1>3, <2>1, <2>2
  <1>9. ASSUME NEW r \in Runs, Opens(r)
        PROVE  (\E v \in Handlers : held'[v] = k) \/ mishaps'.repairs > 0
    <2>1. jobs'[k] = jobs[k] /\ held' = held
      BY <1>1, <1>9 DEF Opens
    <2>2. QED
      BY <1>1, <1>2, <1>3, <2>1
  <1>10. CASE Elsewhere
    BY <1>4, <1>10 DEF Elsewhere
  <1>11. QED
    BY <1>5, <1>6, <1>7, <1>8, <1>9, <1>10

-----------------------------------------------------------------------------
(* An open run has its job, or a repair that is under way or was killed.   *)

Awaited(r) ==
    \/ \E j \in JobIds : jobs[j].item = r /\ jobs[j].state # "free"
    \/ \E w \in Handlers : task[w].step = "repair" /\ task[w].run = r
    \/ mishaps.repairs > 0

LEMMA JobKept ==
  ASSUME RunsTypeOK, QueueInv, RepairInv, JobInv,
         \/ \E w \in Handlers : Onward(w) \/ Left(w)
         \/ \E w \in Handlers, j \in JobIds : Begins(w, j)
         \/ \E j \in JobIds : Expires(j)
         \/ \E r \in Runs : Opens(r)
         \/ Elsewhere
  PROVE  JobInv'
  <1>1. SUFFICES ASSUME NEW r \in Runs, run'[r].status = "running"
                 PROVE  \/ \E j \in JobIds : jobs'[j].item = r /\ jobs'[j].state # "free"
                        \/ \E w \in Handlers : task'[w].step = "repair" /\ task'[w].run = r
                        \/ mishaps'.repairs > 0
    BY DEF JobInv, Queue!Coming
  <1> DEFINE Awaited2 ==
        \/ \E j \in JobIds : jobs'[j].item = r /\ jobs'[j].state # "free"
        \/ \E w \in Handlers : task'[w].step = "repair" /\ task'[w].run = r
        \/ mishaps'.repairs > 0
  <1>2. mishaps.repairs > 0 => mishaps'.repairs > 0
    <2>1. NoFewer
      BY TypeKept
    <2>2. mishaps.repairs \in Nat /\ mishaps'.repairs \in Nat
      BY <2>1, EvalRunsAssumption DEF NoFewer, Mishaps, RunsTypeOK
    <2>3. QED
      BY <2>1, <2>2 DEF NoFewer
  <1>3. run[r].status = "running" => Awaited(r)
    BY DEF JobInv, Queue!Coming, Awaited
  <1>4. ASSUME UNCHANGED run, UNCHANGED jobs,
               \A w \in Handlers : task[w].step = "repair" => task'[w] = task[w]
        PROVE  Awaited2
    BY <1>1, <1>2, <1>3, <1>4 DEF Awaited
  <1>5. ASSUME NEW w \in Handlers, Onward(w)
        PROVE  Awaited2
    <2>1. \A v \in Handlers : task[v].step = "repair" => task'[v] = task[v]
      BY <1>5 DEF Onward, Busy
    <2>2. QED
      BY <1>4, <1>5, <2>1 DEF Onward
  <1>6. ASSUME NEW w \in Handlers, Left(w)
        PROVE  Awaited2
    <2>1. run[r].status = "running"
      BY <1>1, <1>6 DEF Left
    <2>2. ASSUME NEW j \in JobIds, jobs[j].item = r, jobs[j].state # "free"
          PROVE  Awaited2
      <3>1. CASE jobs'[j].state # "free" /\ jobs'[j].item = jobs[j].item
        BY <2>2, <3>1
      <3>2. CASE j = held[w] /\ run'[task[w].run].status # "running"
        <4>1. task[w].run = r
          BY <2>2, <3>2, EvalRunsAssumption DEF QueueInv
        <4>2. QED
          BY <1>1, <3>2, <4>1
      <3>3. QED
        BY <1>6, <2>2, <3>1, <3>2 DEF Left
    <2>3. ASSUME NEW v \in Handlers, task[v].step = "repair", task[v].run = r
          PROVE  Awaited2
      <3>1. CASE v = w
        BY <1>1, <1>6, <2>3, <3>1 DEF Left
      <3>2. CASE v # w
        BY <1>6, <2>3, <3>2 DEF Left
      <3>3. QED
        BY <3>1, <3>2
    <2>4. QED
      BY <1>2, <1>3, <2>1, <2>2, <2>3 DEF Awaited
  <1>7. ASSUME NEW w \in Handlers, NEW j \in JobIds, Begins(w, j)
        PROVE  Awaited2
    <2>1. \A i \in JobIds : jobs[i].state # "free" =>
             jobs'[i].state # "free" /\ jobs'[i].item = jobs[i].item
      BY <1>7 DEF Begins
    <2>2. \A v \in Handlers : task[v].step = "repair" => task'[v] = task[v]
      BY <1>7 DEF Begins
    <2>3. run' = run
      BY <1>7 DEF Begins
    <2>4. QED
      BY <1>1, <1>2, <1>3, <2>1, <2>2, <2>3 DEF Awaited
  <1>8. ASSUME NEW j \in JobIds, Expires(j)
        PROVE  Awaited2
    <2>1. run' = run /\ task' = task
      BY <1>8 DEF Expires
    <2>2. CASE jobs[j].item = r /\ jobs[j].state = "mending"
      <3>1. (\E v \in Handlers : held[v] = j) \/ mishaps.repairs > 0
        BY <2>2 DEF RepairInv
      <3>2. ASSUME NEW v \in Handlers, held[v] = j
            PROVE  task[v].step = "repair" /\ task[v].run = r
        <4>1. held[v] # "none"
          BY <3>2, EvalRunsAssumption
        <4>2. task[v].run = r /\ ~Busy(v) /\ task[v].step # "idle"
          BY <2>2, <3>2, <4>1 DEF QueueInv
        <4>3. QED
          BY <4>2 DEF Busy
      <3>3. QED
        BY <1>2, <2>1, <3>1, <3>2
    <2>3. CASE ~(jobs[j].item = r /\ jobs[j].state = "mending")
      <3>1. \A i \in JobIds : jobs[i].item = r /\ jobs[i].state # "free" =>
               jobs'[i].item = r /\ jobs'[i].state # "free"
        BY <1>8, <2>3 DEF Expires
      <3>2. QED
        BY <1>1, <1>2, <1>3, <2>1, <3>1 DEF Awaited
    <2>4. QED
      BY <2>2, <2>3
  <1>9. ASSUME NEW q \in Runs, Opens(q)
        PROVE  Awaited2
    <2>1. CASE q = r
      BY <1>9, <2>1 DEF Opens
    <2>2. CASE q # r
      <3>1. run'[r] = run[r] /\ task' = task
        BY <1>9, <2>2 DEF Opens
      <3>2. \A i \in JobIds : jobs[i].state # "free" => jobs'[i] = jobs[i]
        BY <1>9 DEF Opens
      <3>3. QED
        BY <1>1, <1>2, <1>3, <3>1, <3>2 DEF Awaited
    <2>3. QED
      BY <2>1, <2>2
  <1>10. CASE Elsewhere
    BY <1>4, <1>10 DEF Elsewhere
  <1>11. QED
    BY <1>5, <1>6, <1>7, <1>8, <1>9, <1>10

-----------------------------------------------------------------------------
(* The handlers whose job is gone are no more than the stalls.             *)

LEMMA LooseFinite ==
  /\ IsFiniteSet(Loose) /\ Cardinality(Loose) \in Nat
  /\ IsFiniteSet(Loose)' /\ Cardinality(Loose)' \in Nat
  <1>1. IsFiniteSet(Handlers)
    BY EvalRunsAssumption
  <1>2. ASSUME NEW S, S \subseteq Handlers
        PROVE  IsFiniteSet(S) /\ Cardinality(S) \in Nat
    BY <1>1, <1>2, FS_Subset, FS_CardinalityType
  <1>3. Loose \subseteq Handlers /\ Loose' \subseteq Handlers
    BY DEF Loose
  <1>4. QED
    BY <1>2, <1>3

LEMMA StallKept ==
  ASSUME RunsTypeOK, QueueInv, StallInv,
         \/ \E w \in Handlers : Onward(w) \/ Left(w)
         \/ \E w \in Handlers, j \in JobIds : Begins(w, j)
         \/ \E j \in JobIds : Expires(j)
         \/ \E r \in Runs : Opens(r)
         \/ Elsewhere
  PROVE  StallInv'
  <1>1. /\ mishaps.stalls \in Nat /\ mishaps'.stalls \in Nat
        /\ mishaps.stalls <= mishaps'.stalls
    <2>1. NoFewer
      BY TypeKept
    <2>2. QED
      BY <2>1, EvalRunsAssumption DEF NoFewer, Mishaps, RunsTypeOK
  <1>2. ASSUME Loose' \subseteq Loose PROVE StallInv'
    <2>1. Cardinality(Loose') <= Cardinality(Loose)
      BY <1>2, LooseFinite, FS_Subset
    <2>2. QED
      BY <1>1, <2>1, LooseFinite DEF StallInv
  <1>3. ASSUME NEW w \in Handlers, Onward(w) \/ Left(w)
        PROVE  Loose' \subseteq Loose
    BY <1>3 DEF Onward, Left, Loose, Busy
  <1>4. ASSUME NEW w \in Handlers, NEW j \in JobIds, Begins(w, j)
        PROVE  Loose' \subseteq Loose
    BY <1>4, EvalRunsAssumption DEF Begins, Loose, Busy
  <1>5. ASSUME NEW j \in JobIds, Expires(j)
        PROVE  StallInv'
    <2>1. CASE ~\E v \in Handlers : held[v] = j
      <3>1. Loose' \subseteq Loose
        BY <1>5, <2>1 DEF Expires, Loose, Busy
      <3>2. QED
        BY <1>2, <3>1
    <2>2. CASE \E v \in Handlers : held[v] = j
      <3>1. PICK v \in Handlers : held[v] = j
        BY <2>2
      <3>2. Loose' \subseteq Loose \cup {v}
        BY <1>5, <3>1, EvalRunsAssumption DEF Expires, Loose, Busy, QueueInv
      <3>3. mishaps'.stalls = mishaps.stalls + 1
        BY <1>5, <2>2 DEF Expires
      <3>4. /\ IsFiniteSet(Loose \cup {v}) /\ Cardinality(Loose \cup {v}) \in Nat
            /\ Cardinality(Loose \cup {v}) <= Cardinality(Loose) + 1
        <4>1. IsFiniteSet(Loose) /\ Cardinality(Loose) \in Nat
          BY LooseFinite
        <4>2. /\ IsFiniteSet(Loose \cup {v})
              /\ \/ Cardinality(Loose \cup {v}) = Cardinality(Loose)
                 \/ Cardinality(Loose \cup {v}) = Cardinality(Loose) + 1
          BY <4>1, FS_AddElement
        <4>3. QED
          BY <4>1, <4>2
      <3>5. Cardinality(Loose') <= Cardinality(Loose \cup {v})
        BY <3>2, <3>4, FS_Subset
      <3>6. QED
        BY <1>1, <3>3, <3>4, <3>5, LooseFinite DEF StallInv
    <2>3. QED
      BY <2>1, <2>2
  <1>6. ASSUME UNCHANGED <<task, held>> PROVE Loose' \subseteq Loose
    BY <1>6 DEF Loose, Busy
  <1>7. QED
    BY <1>2, <1>3, <1>4, <1>5, <1>6 DEF Opens, Elsewhere

-----------------------------------------------------------------------------
(* The loop over the cases.                                                *)

(* What a handler knows stays true while others work.                      *)
LEMMA LoopStands ==
  ASSUME NEW w \in Handlers, LoopOK(w), QueueInv, ResultsStand,
         task'[w] = task[w], run'[task[w].run].caseIds = run[task[w].run].caseIds,
         known' \subseteq known
  PROVE  LoopOK(w)'
  <1>1. CASE task[w].step \in Later
    <2>1. PICK r \in Runs : r = task[w].run
      BY <1>1 DEF QueueInv, Later
    <2>2. \A c \in Cases : results[r][c] # "none" => results'[r][c] # "none"
      BY DEF ResultsStand
    <2>3. QED
      BY <1>1, <2>1, <2>2 DEF LoopOK, Answered
  <1>2. CASE task[w].step \notin Later
    BY <1>2 DEF LoopOK, Later
  <1>3. QED
    BY <1>1, <1>2

LEMMA LoopIdle ==
  ASSUME NEW w \in Handlers, task'[w].step \in {"idle", "repair", "read", "empty"}
  PROVE  LoopOK(w)'
  BY DEF LoopOK, Later

LEMMA ReadLoops ==
  ASSUME RunsTypeOK, QueueInv, LoopInv, NEW w \in Handlers, Read(w),
         run[task[w].run].status = "running"
  PROVE  LoopOK(w)'
  <1>1. /\ Onward(w) /\ UNCHANGED <<results, paid>>
        /\ \/ task'[w].step = "empty"
           \/ /\ task'[w].step = "list" /\ task'[w].done = task[w].done
              /\ task'[w].todo = {i \in DOMAIN run[task[w].run].caseIds :
                                     run[task[w].run].caseIds[i] \in known}
    BY ReadOnward
  <1>3. CASE task'[w].step = "empty"
    BY <1>3, LoopIdle
  <1>4. CASE task'[w].step = "list"
    <2>1. task'[w].run = task[w].run /\ run' = run /\ known' = known
      BY <1>1 DEF Onward
    <2>2. QED
      BY <1>1, <1>4, <2>1 DEF LoopOK, Later
  <1>5. QED
    BY <1>1, <1>3, <1>4

LEMMA ListLoops ==
  ASSUME RunsTypeOK, LoopInv, NEW w \in Handlers, List(w)
  PROVE  LoopOK(w)'
  <1>1. /\ Onward(w) /\ task[w].step = "list" /\ UNCHANGED <<results, paid>>
        /\ task'[w].step = "cases" /\ task'[w].todo = task[w].todo
        /\ task'[w].done = Answered(task[w].run)
    BY ListOnward
  <1>2. task'[w].run = task[w].run /\ run' = run /\ known' = known
    BY <1>1 DEF Onward
  <1>3. LoopOK(w)
    BY DEF LoopInv
  <1>4. QED
    BY <1>1, <1>2, <1>3 DEF LoopOK, Later, Answered

LEMMA NextCaseLoops ==
  ASSUME RunsTypeOK, LoopInv, NEW w \in Handlers, NextCase(w)
  PROVE  LoopOK(w)'
  <1>1. /\ Onward(w) /\ task[w].step = "cases" /\ UNCHANGED <<results, paid>>
        /\ task'[w].done = task[w].done
        /\ \/ task'[w].step = "sum" /\ task[w].todo = {} /\ task'[w].todo = {}
           \/ \E i \in task[w].todo :
                 \/ /\ run[task[w].run].caseIds[i] \in task[w].done
                    /\ task'[w].step = "cases" /\ task'[w].todo = task[w].todo \ {i}
                 \/ /\ run[task[w].run].caseIds[i] \notin task[w].done
                    /\ task'[w].step = "measure" /\ task'[w].todo = task[w].todo
                    /\ task'[w].at = i
    BY NextCaseOnward
  <1>2. task'[w].run = task[w].run /\ run' = run /\ known' = known
    BY <1>1 DEF Onward
  <1>3. LoopOK(w)
    BY DEF LoopInv
  <1>4. QED
    BY <1>1, <1>2, <1>3 DEF LoopOK, Later, Answered

LEMMA MeasureLoops ==
  ASSUME RunsTypeOK, QueueInv, LoopInv, NEW w \in Handlers, Measure(w)
  PROVE  LoopOK(w)'
  <1>1. /\ Onward(w) /\ task[w].step = "measure" /\ results' = results
        /\ task'[w].step = "store" /\ task'[w].todo = task[w].todo
        /\ task'[w].done = task[w].done /\ task'[w].at = task[w].at
        /\ task'[w].verdict # "none"
    BY MeasureOnward
  <1>2. task'[w].run = task[w].run /\ run' = run /\ known' = known
    BY <1>1 DEF Onward
  <1>3. LoopOK(w)
    BY DEF LoopInv
  <1>4. QED
    BY <1>1, <1>2, <1>3 DEF LoopOK, Later, Answered

LEMMA StoreLoops ==
  ASSUME RunsTypeOK, QueueInv, LoopInv, NEW w \in Handlers, Stores(w)
  PROVE  LoopOK(w)'
  <1>1. /\ Onward(w) /\ task[w].step = "store"
        /\ task'[w].step = "cases" /\ task'[w].todo = task[w].todo \ {task[w].at}
        /\ task'[w].done = task[w].done
        /\ results'[task[w].run][CaseOf(w)] # "none"
    BY StoreOnward
  <1>2. task'[w].run = task[w].run /\ run' = run /\ known' = known /\ ResultsStand
    BY <1>1 DEF Onward
  <1>3. LoopOK(w)
    BY DEF LoopInv
  <1>4. PICK r \in Runs : r = task[w].run
    BY <1>1, HandlersRun
  <1>5. CaseOf(w) \in Cases /\ CaseOf(w) = run[r].caseIds[task[w].at]
    BY <1>1, <1>4, HandlersCase DEF CaseOf
  <1>6. \A c \in Cases : results[r][c] # "none" => results'[r][c] # "none"
    BY <1>2 DEF ResultsStand
  <1>7. QED
    BY <1>1, <1>2, <1>3, <1>4, <1>5, <1>6 DEF LoopOK, Later, Answered

LEMMA SumLoops ==
  ASSUME RunsTypeOK, LoopInv, NEW w \in Handlers, Sum(w)
  PROVE  LoopOK(w)'
  <1>1. /\ Onward(w) /\ task[w].step = "sum" /\ UNCHANGED <<results, paid>>
        /\ task'[w].step = "close" /\ task'[w].todo = task[w].todo
        /\ task'[w].done = task[w].done
    BY SumOnward
  <1>2. task'[w].run = task[w].run /\ run' = run /\ known' = known
    BY <1>1 DEF Onward
  <1>3. LoopOK(w)
    BY DEF LoopInv
  <1>4. QED
    BY <1>1, <1>2, <1>3 DEF LoopOK, Later, Answered

Goes(w) ==
    \/ Read(w) /\ run[task[w].run].status = "running"
    \/ List(w) \/ NextCase(w) \/ Measure(w) \/ Stores(w) \/ Sum(w)

LEMMA LoopKept ==
  ASSUME RunsTypeOK, QueueInv, LoopInv,
         \/ \E w \in Handlers : Goes(w) \/ Left(w)
         \/ \E w \in Handlers, j \in JobIds : Begins(w, j)
         \/ \E j \in JobIds : Expires(j)
         \/ \E r \in Runs : Opens(r)
         \/ Elsewhere
  PROVE  LoopInv'
  <1>1. \A w \in Handlers : Goes(w) => Onward(w)
    BY StepsOnward DEF Goes
  <1>2. NoFewer
    BY <1>1, TypeKept
  <1>3. /\ mishaps.renames \in Nat /\ mishaps'.renames \in Nat
        /\ mishaps.renames <= mishaps'.renames
    BY <1>2, EvalRunsAssumption DEF NoFewer, Mishaps, RunsTypeOK
  <1>4. known' = known \/ mishaps'.renames > 0
    BY <1>1 DEF Onward, Left, Begins, Expires, Opens, Elsewhere
  <1>5. known' \subseteq known
    BY <1>1 DEF Onward, Left, Begins, Expires, Opens, Elsewhere
  <1>6. known' = Cases \/ mishaps'.renames > 0
    BY <1>3, <1>4 DEF LoopInv
  <1>7. \A r \in Runs : run'[r].status = "absent" => run'[r].caseIds = <<>>
    <2>1. \A r \in Runs : run[r].status = "absent" => run[r].caseIds = <<>>
      BY DEF LoopInv
    <2>2. SUFFICES ASSUME NEW r \in Runs, run'[r].status = "absent"
                   PROVE  run'[r] = run[r]
      BY <2>1
    <2>3. ASSUME NEW w \in Handlers, Left(w) PROVE run'[r] = run[r]
      BY <2>2, <2>3 DEF Left
    <2>4. ASSUME NEW q \in Runs, Opens(q) PROVE run'[r] = run[r]
      BY <2>2, <2>4 DEF Opens
    <2>5. (\E w \in Handlers : Onward(w)) \/ Elsewhere => run' = run
      BY DEF Onward, Elsewhere
    <2>6. /\ \A w \in Handlers, j \in JobIds : Begins(w, j) => run' = run
          /\ \A j \in JobIds : Expires(j) => run' = run
      BY DEF Begins, Expires
    <2>7. QED
      BY <1>1, <2>3, <2>4, <2>5, <2>6
  <1>8. \A w \in Handlers : LoopOK(w)
    BY DEF LoopInv
  <1>9. UNCHANGED results => ResultsStand
    BY DEF ResultsStand, RunsTypeOK, ResultsType
  <1>10. ASSUME NEW v \in Handlers, ResultsStand, task'[v] = task[v],
                \A r \in Runs : run[r].status # "absent" => run'[r].caseIds = run[r].caseIds
         PROVE  LoopOK(v)'
    <2>1. CASE task[v].step = "idle"
      BY <1>10, <2>1, LoopIdle
    <2>2. CASE task[v].step # "idle"
      <3>1. run'[task[v].run].caseIds = run[task[v].run].caseIds
        BY <1>10, <2>2, HandlersRun
      <3>2. QED
        BY <1>5, <1>8, <1>10, <3>1, LoopStands
    <2>3. QED
      BY <2>1, <2>2
  <1>11. ASSUME NEW w \in Handlers, Goes(w), NEW v \in Handlers
         PROVE  LoopOK(v)'
    <2>1. CASE v = w
      BY <1>11, <2>1, ReadLoops, ListLoops, NextCaseLoops, MeasureLoops, StoreLoops,
         SumLoops DEF Goes
    <2>2. CASE v # w
      BY <1>1, <1>10, <1>11, <2>2 DEF Onward
    <2>3. QED
      BY <2>1, <2>2
  <1>12. ASSUME NEW w \in Handlers, Left(w), NEW v \in Handlers
         PROVE  LoopOK(v)'
    <2>1. CASE v = w
      BY <1>12, <2>1, LoopIdle DEF Left
    <2>2. CASE v # w
      BY <1>9, <1>10, <1>12, <2>2 DEF Left
    <2>3. QED
      BY <2>1, <2>2
  <1>13. ASSUME NEW w \in Handlers, NEW j \in JobIds, Begins(w, j), NEW v \in Handlers
         PROVE  LoopOK(v)'
    <2>1. CASE v = w
      BY <1>13, <2>1, LoopIdle DEF Begins
    <2>2. CASE v # w
      BY <1>9, <1>10, <1>13, <2>2 DEF Begins
    <2>3. QED
      BY <2>1, <2>2
  <1>14. ASSUME (\E j \in JobIds : Expires(j)) \/ (\E r \in Runs : Opens(r)) \/ Elsewhere,
                NEW v \in Handlers
         PROVE  LoopOK(v)'
    BY <1>9, <1>10, <1>14 DEF Expires, Opens, Elsewhere
  <1>15. \A v \in Handlers : LoopOK(v)'
    BY <1>11, <1>12, <1>13, <1>14
  <1>16. QED
    BY <1>6, <1>7, <1>15 DEF LoopInv

-----------------------------------------------------------------------------
(* The totals.                                                             *)

LEMMA LooseMeansStalled ==
  ASSUME RunsTypeOK, StallInv, NEW w \in Handlers, Busy(w), held[w] = "none"
  PROVE  mishaps.stalls > 0
  <1>1. Loose # {}
    BY DEF Loose
  <1>2. IsFiniteSet(Loose) /\ Cardinality(Loose) \in Nat
    BY LooseFinite
  <1>3. Cardinality(Loose) # 0
    BY <1>1, <1>2, FS_EmptySet
  <1>4. mishaps.stalls \in Nat
    BY EvalRunsAssumption DEF RunsTypeOK, Mishaps
  <1>5. QED
    BY <1>2, <1>3, <1>4 DEF StallInv

(* A run has one job, so of two handlers busy with it one has lost it.     *)
LEMMA OneHolder ==
  ASSUME RunsTypeOK, QueueInv, NEW v \in Handlers, NEW w \in Handlers, Busy(v), Busy(w),
         task[v].run = task[w].run, held[v] # "none", held[w] # "none"
  PROVE  v = w
  <1>1. held[v] \in JobIds /\ held[w] \in JobIds
    BY DEF RunsTypeOK, Queue!QueueTypeOK
  <1>2. /\ jobs[held[v]].item = task[v].run /\ jobs[held[v]].state = "active"
        /\ jobs[held[w]].item = task[w].run /\ jobs[held[w]].state = "active"
    BY DEF QueueInv
  <1>3. held[v] = held[w]
    BY <1>1, <1>2 DEF QueueInv
  <1>4. QED
    BY <1>3 DEF QueueInv

LEMMA TwoMeansStalled ==
  ASSUME RunsTypeOK, QueueInv, StallInv, NEW v \in Handlers, NEW w \in Handlers, v # w,
         Busy(v), Busy(w), task[v].run = task[w].run
  PROVE  mishaps.stalls > 0
  BY OneHolder, LooseMeansStalled

LEMMA MatchesSame ==
  ASSUME NEW r, \A c \in Cases : results'[r][c] = results[r][c]
  PROVE  Matches(r)' = Matches(r)
  <1>1. {c \in Cases : results'[r][c] = "match"} = {c \in Cases : results[r][c] = "match"}
    OBVIOUS
  <1>2. QED
    BY <1>1 DEF Matches

(* What is stored after a sum, or after the close, is a case the build has *)
(* dropped.                                                                *)
LEMMA LateMeansRenamed ==
  ASSUME RunsTypeOK, QueueInv, LoopInv, NEW w \in Handlers, Stores(w),
         \A i \in DOMAIN run[task[w].run].caseIds :
            run[task[w].run].caseIds[i] \in known =>
               run[task[w].run].caseIds[i] \in Answered(task[w].run)
  PROVE  mishaps.renames > 0
  <1>1. task[w].step = "store" /\ results[task[w].run][CaseOf(w)] = "none"
    BY DEF Stores
  <1>2. /\ task[w].at \in DOMAIN run[task[w].run].caseIds /\ CaseOf(w) \in Cases
    BY <1>1, HandlersCase
  <1>3. CaseOf(w) \notin Answered(task[w].run)
    BY <1>1 DEF Answered
  <1>4. CaseOf(w) \notin known
    BY <1>2, <1>3 DEF CaseOf
  <1>5. QED
    BY <1>2, <1>4 DEF LoopInv

(* The three parts of what is known of the sums.                           *)
WholeOK(r) ==
    run[r].status = "completed" =>
       /\ ToSet(run[r].caseIds) \cap known \subseteq Answered(r)
       /\ run[r].matches = Matches(r) \/ Blurred

TotalOK(w) ==
    task[w].step = "close" => task[w].total = Matches(task[w].run) \/ Blurred

ClosedOK(r) ==
    run[r].status = "completed" =>
       \/ mishaps.stalls > 0
       \/ /\ \A w \in Handlers : Busy(w) => task[w].run # r
          /\ ~Queue!Coming(r)

LEMMA SumParts ==
  /\ SumInv <=> /\ \A r \in Runs : WholeOK(r) /\ ClosedOK(r)
                /\ \A w \in Handlers : TotalOK(w)
  /\ SumInv' <=> /\ \A r \in Runs : WholeOK(r)' /\ ClosedOK(r)'
                 /\ \A w \in Handlers : TotalOK(w)'
  <1>1. SumInv <=> /\ \A r \in Runs : WholeOK(r) /\ ClosedOK(r)
                   /\ \A w \in Handlers : TotalOK(w)
    BY DEF SumInv, CompletedIsWhole, WholeOK, ClosedOK, TotalOK, Blurred
  <1>2. SumInv' <=> /\ \A r \in Runs : WholeOK(r)' /\ ClosedOK(r)'
                    /\ \A w \in Handlers : TotalOK(w)'
    BY DEF SumInv, CompletedIsWhole, WholeOK, ClosedOK, TotalOK, Blurred
  <1>3. QED
    BY <1>1, <1>2

LEMMA StoreSums ==
  ASSUME RunsTypeOK, QueueInv, StallInv, LoopInv, SumInv, NEW w \in Handlers, Stores(w)
  PROVE  SumInv'
  <1>1. PICK r0 \in Runs : r0 = task[w].run
    BY HandlersRun DEF Stores
  <1>2. /\ Onward(w) /\ Busy(w) /\ task'[w].step = "cases"
        /\ \A r \in Runs, c \in Cases :
              ~(r = task[w].run /\ c = CaseOf(w)) => results'[r][c] = results[r][c]
    BY StoreOnward DEF Onward
  <1>3. /\ UNCHANGED <<run, known, mishaps, jobs, held>> /\ ResultsStand
        /\ task'[w].run = r0
        /\ \A v \in Handlers : v # w => task'[v] = task[v]
    BY <1>1, <1>2 DEF Onward
  <1>4. ASSUME NEW r \in Runs, r # r0
        PROVE  Matches(r)' = Matches(r)
    BY <1>1, <1>2, <1>4, MatchesSame
  <1>5. (\A i \in DOMAIN run[r0].caseIds :
            run[r0].caseIds[i] \in known => run[r0].caseIds[i] \in Answered(r0))
          => mishaps.renames > 0
    BY <1>1, LateMeansRenamed
  <1>6. ASSUME NEW r \in Runs
        PROVE  WholeOK(r)' /\ ClosedOK(r)'
    <2>1. WholeOK(r) /\ ClosedOK(r)
      BY SumParts
    <2>2. Answered(r) \subseteq Answered(r)'
      BY <1>3 DEF ResultsStand, Answered
    <2>3. ASSUME run[r].status = "completed"
          PROVE  run[r].matches = Matches(r)' \/ Blurred'
      <3>1. CASE r # r0
        BY <1>3, <1>4, <2>1, <2>3, <3>1 DEF WholeOK, Blurred
      <3>2. CASE r = r0
        <4>1. mishaps.stalls > 0
          BY <1>1, <1>2, <2>1, <2>3, <3>2 DEF ClosedOK
        <4>2. mishaps.renames > 0
          BY <1>5, <2>1, <2>3, <3>2 DEF WholeOK, ToSet
        <4>3. QED
          BY <1>3, <4>1, <4>2 DEF Blurred
      <3>3. QED
        BY <3>1, <3>2
    <2>4. WholeOK(r)'
      BY <1>3, <2>1, <2>2, <2>3 DEF WholeOK
    <2>5. \A v \in Handlers : Busy(v)' => Busy(v) /\ task'[v].run = task[v].run
      BY <1>1, <1>2, <1>3 DEF Busy
    <2>6. ClosedOK(r)'
      BY <1>3, <2>1, <2>5 DEF ClosedOK, Queue!Coming
    <2>7. QED
      BY <2>4, <2>6
  <1>7. ASSUME NEW v \in Handlers
        PROVE  TotalOK(v)'
    <2>1. CASE v = w \/ task'[v].step # "close"
      BY <1>2, <2>1 DEF TotalOK
    <2>2. CASE v # w /\ task'[v].step = "close"
      <3>1. task'[v] = task[v] /\ task[v].step = "close" /\ Busy(v)
        BY <1>3, <2>2 DEF Busy
      <3>2. PICK r \in Runs : r = task[v].run
        BY <3>1, HandlersRun
      <3>3. task[v].total = Matches(r) \/ Blurred
        BY <3>1, <3>2, SumParts DEF TotalOK
      <3>4. CASE r # r0
        BY <1>3, <1>4, <3>1, <3>2, <3>3, <3>4 DEF TotalOK, Blurred
      <3>5. CASE r = r0
        <4>1. mishaps.stalls > 0
          BY <1>1, <1>2, <2>2, <3>1, <3>2, <3>5, TwoMeansStalled
        <4>2. mishaps.renames > 0
          <5>1. LoopOK(v) /\ task[v].todo = {}
            BY <3>1 DEF LoopInv, LoopOK
          <5>2. QED
            BY <1>5, <3>1, <3>2, <3>5, <5>1 DEF LoopOK, Later
        <4>3. QED
          BY <1>3, <4>1, <4>2 DEF TotalOK, Blurred
      <3>6. QED
        BY <3>4, <3>5
    <2>3. QED
      BY <2>1, <2>2
  <1>8. QED
    BY <1>6, <1>7, SumParts

(* Nothing is stored.                                                      *)
LEMMA QuietSums ==
  ASSUME RunsTypeOK, QueueInv, StallInv, LoopInv, SumInv, UNCHANGED results,
         \/ \E w \in Handlers : Goes(w) \/ Left(w)
         \/ \E w \in Handlers, j \in JobIds : Begins(w, j)
         \/ \E j \in JobIds : Expires(j)
         \/ \E r \in Runs : Opens(r)
         \/ Elsewhere
  PROVE  SumInv'
  <1>1. \A w \in Handlers : Goes(w) => Onward(w)
    BY StepsOnward DEF Goes
  <1>2. NoFewer
    BY <1>1, TypeKept
  <1>3. /\ mishaps.renames \in Nat /\ mishaps'.renames \in Nat
        /\ mishaps.renames <= mishaps'.renames
        /\ mishaps.stalls \in Nat /\ mishaps'.stalls \in Nat
        /\ mishaps.stalls <= mishaps'.stalls
    BY <1>2, EvalRunsAssumption DEF NoFewer, Mishaps, RunsTypeOK
  <1>4. /\ Blurred => Blurred'
        /\ mishaps.stalls > 0 => mishaps'.stalls > 0
    BY <1>3 DEF Blurred
  <1>5. known' \subseteq known
    BY <1>1 DEF Onward, Left, Begins, Expires, Opens, Elsewhere
  <1>6. ASSUME NEW r \in Runs
        PROVE  Matches(r)' = Matches(r) /\ Answered(r)' = Answered(r)
    BY MatchesSame DEF Answered
  <1>7. \A r \in Runs : WholeOK(r) /\ ClosedOK(r)
    BY SumParts
  <1>8. \A w \in Handlers : TotalOK(w)
    BY SumParts
  <1>9. ASSUME NEW r \in Runs, run'[r] = run[r]
        PROVE  WholeOK(r)'
    BY <1>4, <1>5, <1>6, <1>7, <1>9 DEF WholeOK
  <1>10. ASSUME NEW r \in Runs, run'[r] = run[r],
                \A v \in Handlers : Busy(v)' => Busy(v) /\ task'[v].run = task[v].run,
                Queue!Coming(r)' => Queue!Coming(r)
         PROVE  ClosedOK(r)'
    BY <1>4, <1>7, <1>10 DEF ClosedOK
  <1>11. ASSUME NEW v \in Handlers, task'[v] = task[v]
         PROVE  TotalOK(v)'
    <2>1. CASE task[v].step = "close"
      <3>1. PICK r \in Runs : r = task[v].run
        BY <2>1, HandlersRun
      <3>2. QED
        BY <1>4, <1>6, <1>8, <1>11, <3>1 DEF TotalOK
    <2>2. CASE task[v].step # "close"
      BY <1>11, <2>2 DEF TotalOK
    <2>3. QED
      BY <2>1, <2>2
  <1>12. ASSUME NEW w \in Handlers, Goes(w)
         PROVE  SumInv'
    <2>1. /\ Onward(w) /\ Busy(w) /\ UNCHANGED <<run, known, mishaps, jobs, held>>
          /\ task'[w].run = task[w].run
          /\ \A v \in Handlers : v # w => task'[v] = task[v]
      BY <1>1, <1>12 DEF Onward
    <2>2. \A v \in Handlers : Busy(v)' => Busy(v) /\ task'[v].run = task[v].run
      BY <2>1 DEF Busy
    <2>3. \A r \in Runs : Queue!Coming(r)' => Queue!Coming(r)
      BY <2>1 DEF Queue!Coming
    <2>4. TotalOK(w)'
      <3>1. CASE Sum(w)
        <4>1. PICK r \in Runs : r = task[w].run
          BY <2>1, HandlersRun DEF Busy
        <4>2. task'[w].total = Matches(r)
          BY <3>1, <4>1, SumOnward
        <4>3. QED
          BY <1>6, <2>1, <4>1, <4>2 DEF TotalOK
      <3>2. CASE ~Sum(w)
        <4>1. task'[w].step # "close"
          BY <1>12, <3>2, ReadOnward, ListOnward, NextCaseOnward, MeasureOnward,
             StoreOnward DEF Goes
        <4>2. QED
          BY <4>1 DEF TotalOK
      <3>3. QED
        BY <3>1, <3>2
    <2>5. QED
      BY <1>9, <1>10, <1>11, <2>1, <2>2, <2>3, <2>4, SumParts
  <1>13. ASSUME NEW w \in Handlers, Left(w)
         PROVE  SumInv'
    <2>1. \A v \in Handlers : Busy(v)' => v # w /\ Busy(v) /\ task'[v].run = task[v].run
      BY <1>13 DEF Left, Busy
    <2>2. \A r \in Runs : Queue!Coming(r)' => Queue!Coming(r)
      <3>1. Releases
        BY <1>13 DEF Left
      <3>2. \A j \in JobIds : jobs'[j].state # "free" =>
               jobs[j].state # "free" /\ jobs'[j].item = jobs[j].item
        BY <3>1 DEF Releases
      <3>3. QED
        BY <3>2 DEF Queue!Coming
    <2>3. \A v \in Handlers : TotalOK(v)'
      <3>1. TotalOK(w)'
        BY <1>13 DEF Left, TotalOK
      <3>2. QED
        BY <1>11, <1>13, <3>1 DEF Left
    <2>4. PICK r \in Runs : r = task[w].run
      BY <1>13 DEF Left
    <2>5. ASSUME run'[r] # run[r], run'[r].status = "completed"
          PROVE  WholeOK(r)' /\ ClosedOK(r)'
      <3>1. /\ task[w].step = "close" /\ run'[r].matches = task[w].total
            /\ held[w] # "none" => jobs'[held[w]].state = "free"
            /\ run'[r].caseIds = run[r].caseIds
        BY <1>13, <2>4, <2>5 DEF Left
      <3>2. Busy(w) /\ LoopOK(w) /\ TotalOK(w)
        BY <1>8, <3>1 DEF LoopInv, Busy
      <3>3. ToSet(run[r].caseIds) \cap known \subseteq Answered(r)
        BY <2>4, <3>1, <3>2 DEF LoopOK, Later, ToSet
      <3>4. run'[r].matches = Matches(r) \/ Blurred
        BY <2>4, <3>1, <3>2 DEF TotalOK
      <3>5. WholeOK(r)'
        BY <1>4, <1>5, <1>6, <3>1, <3>3, <3>4 DEF WholeOK
      <3>6. ASSUME ~(mishaps.stalls > 0)
            PROVE  /\ \A v \in Handlers : Busy(v)' => task'[v].run # r
                   /\ ~Queue!Coming(r)'
        <4>1. \A v \in Handlers : Busy(v)' => task'[v].run # r
          BY <2>1, <2>4, <3>2, <3>6, TwoMeansStalled
        <4>2. held[w] # "none"
          BY <3>2, <3>6, LooseMeansStalled
        <4>3. PICK j \in JobIds : j = held[w]
          BY <4>2 DEF RunsTypeOK, Queue!QueueTypeOK
        <4>4. jobs[j].item = r /\ jobs[j].state # "free" /\ jobs'[j].state = "free"
          BY <2>4, <3>1, <3>2, <4>2, <4>3 DEF QueueInv
        <4>5. \A i \in JobIds : jobs'[i].state # "free" =>
                 jobs[i].state # "free" /\ jobs'[i].item = jobs[i].item
          BY <1>13 DEF Left, Releases
        <4>6. \A i \in JobIds : jobs[i].state # "free" /\ jobs[i].item = r => i = j
          BY <4>4 DEF QueueInv
        <4>7. QED
          BY <4>1, <4>4, <4>5, <4>6 DEF Queue!Coming
      <3>7. ClosedOK(r)'
        BY <1>4, <3>6 DEF ClosedOK
      <3>8. QED
        BY <3>5, <3>7
    <2>6. ASSUME NEW q \in Runs
          PROVE  WholeOK(q)' /\ ClosedOK(q)'
      <3>1. CASE run'[q] = run[q]
        BY <1>9, <1>10, <2>1, <2>2, <3>1
      <3>2. CASE run'[q].status # "completed"
        BY <3>2 DEF WholeOK, ClosedOK
      <3>3. CASE run'[q] # run[q] /\ run'[q].status = "completed"
        <4>1. q = r
          BY <1>13, <2>4, <3>3 DEF Left
        <4>2. QED
          BY <2>5, <3>3, <4>1
      <3>4. QED
        BY <3>1, <3>2, <3>3
    <2>7. QED
      BY <2>3, <2>6, SumParts
  <1>14. ASSUME NEW w \in Handlers, NEW j \in JobIds, Begins(w, j)
         PROVE  SumInv'
    <2>1. run' = run /\ \A r \in Runs : WholeOK(r)'
      BY <1>9, <1>14 DEF Begins
    <2>2. \A v \in Handlers : TotalOK(v)'
      <3>1. TotalOK(w)'
        BY <1>14 DEF Begins, TotalOK
      <3>2. QED
        BY <1>11, <1>14, <3>1 DEF Begins
    <2>3. \A r \in Runs : Queue!Coming(r)' => Queue!Coming(r)
      BY <1>14 DEF Begins, Queue!Coming
    <2>4. ASSUME NEW r \in Runs
          PROVE  ClosedOK(r)'
      <3>1. CASE jobs[j].item = r
        <4>1. Queue!Coming(r)
          BY <1>14, <3>1 DEF Begins, Queue!Coming
        <4>2. QED
          BY <1>4, <1>7, <2>1, <4>1 DEF ClosedOK
      <3>2. CASE jobs[j].item # r
        <4>1. \A v \in Handlers : Busy(v)' /\ task'[v].run = r => Busy(v) /\ task[v].run = r
          BY <1>14, <3>2 DEF Begins, Busy
        <4>2. QED
          BY <1>4, <1>7, <2>1, <2>3, <4>1 DEF ClosedOK
      <3>3. QED
        BY <3>1, <3>2
    <2>5. QED
      BY <2>1, <2>2, <2>4, SumParts
  <1>15. ASSUME (\E j \in JobIds : Expires(j)) \/ Elsewhere
         PROVE  SumInv'
    <2>1. run' = run /\ task' = task
      BY <1>15 DEF Expires, Elsewhere
    <2>2. \A r \in Runs : Queue!Coming(r)' => Queue!Coming(r)
      BY <1>15 DEF Expires, Releases, Elsewhere, Queue!Coming
    <2>3. \A v \in Handlers : Busy(v)' => Busy(v)
      BY <2>1 DEF Busy
    <2>4. QED
      BY <1>9, <1>10, <1>11, <2>1, <2>2, <2>3, SumParts
  <1>16. ASSUME NEW r0 \in Runs, Opens(r0)
         PROVE  SumInv'
    <2>1. /\ task' = task /\ run'[r0].status = "running"
          /\ \A q \in Runs : q # r0 => run'[q] = run[q]
      BY <1>16 DEF Opens
    <2>2. \A r \in Runs : r # r0 /\ Queue!Coming(r)' => Queue!Coming(r)
      BY <1>16 DEF Opens, Queue!Coming
    <2>3. \A v \in Handlers : Busy(v)' => Busy(v)
      BY <2>1 DEF Busy
    <2>4. WholeOK(r0)' /\ ClosedOK(r0)'
      BY <2>1 DEF WholeOK, ClosedOK
    <2>5. QED
      BY <1>9, <1>10, <1>11, <2>1, <2>2, <2>3, <2>4, SumParts
  <1>17. QED
    BY <1>12, <1>13, <1>14, <1>15, <1>16

LEMMA SumKept ==
  ASSUME RunsTypeOK, QueueInv, StallInv, LoopInv, SumInv,
         \/ \E w \in Handlers : Goes(w) \/ Left(w)
         \/ \E w \in Handlers, j \in JobIds : Begins(w, j)
         \/ \E j \in JobIds : Expires(j)
         \/ \E r \in Runs : Opens(r)
         \/ Elsewhere
  PROVE  SumInv'
  <1>1. \A w \in Handlers : Goes(w) => Stores(w) \/ UNCHANGED results
    BY ReadOnward, ListOnward, NextCaseOnward, MeasureOnward, SumOnward DEF Goes
  <1>2. UNCHANGED results \/ \E w \in Handlers : Stores(w)
    BY <1>1 DEF Left, Begins, Expires, Opens, Elsewhere
  <1>3. QED
    BY <1>2, StoreSums, QuietSums

-----------------------------------------------------------------------------
(* The payments.                                                           *)

LEMMA SomeHandlers ==
  ASSUME NEW S, S \subseteq Handlers
  PROVE  IsFiniteSet(S) /\ Cardinality(S) \in Nat
  BY EvalRunsAssumption, FS_Subset, FS_CardinalityType

LEMMA Counted ==
  ASSUME NEW r, NEW c
  PROVE  /\ IsFiniteSet(AtStore(r, c)) /\ Cardinality(AtStore(r, c)) \in Nat
         /\ IsFiniteSet(AtStore(r, c)') /\ Cardinality(AtStore(r, c)') \in Nat
         /\ IsFiniteSet(Unaware(r, c)) /\ Cardinality(Unaware(r, c)) \in Nat
         /\ IsFiniteSet(Unaware(r, c)') /\ Cardinality(Unaware(r, c)') \in Nat
  <1>1. /\ AtStore(r, c) \subseteq Handlers /\ AtStore(r, c)' \subseteq Handlers
        /\ Unaware(r, c) \subseteq Handlers /\ Unaware(r, c)' \subseteq Handlers
    BY DEF AtStore, Unaware
  <1>2. QED
    BY <1>1, SomeHandlers

LEMMA SmallerCount ==
  ASSUME NEW S, NEW T, IsFiniteSet(T), S \subseteq T
  PROVE  /\ IsFiniteSet(S) /\ Cardinality(S) \in Nat /\ Cardinality(T) \in Nat
         /\ Cardinality(S) <= Cardinality(T)
  BY FS_Subset, FS_CardinalityType

LEMMA OneMoreCount ==
  ASSUME NEW T, IsFiniteSet(T), NEW x
  PROVE  /\ IsFiniteSet(T \cup {x}) /\ Cardinality(T \cup {x}) \in Nat
         /\ Cardinality(T \cup {x}) <= Cardinality(T) + 1
         /\ x \notin T => Cardinality(T \cup {x}) = Cardinality(T) + 1
  BY FS_AddElement, FS_CardinalityType

LEMMA OneLessCount ==
  ASSUME NEW T, IsFiniteSet(T), NEW x
  PROVE  /\ IsFiniteSet(T \ {x}) /\ Cardinality(T \ {x}) \in Nat
         /\ Cardinality(T) <= Cardinality(T \ {x}) + 1
         /\ x \in T => Cardinality(T) = Cardinality(T \ {x}) + 1
         /\ x \notin T => Cardinality(T) = Cardinality(T \ {x})
  <1>1. /\ IsFiniteSet(T \ {x})
        /\ x \in T => Cardinality(T \ {x}) = Cardinality(T) - 1
        /\ x \notin T => Cardinality(T \ {x}) = Cardinality(T)
    BY FS_RemoveElement
  <1>2. Cardinality(T) \in Nat /\ Cardinality(T \ {x}) \in Nat
    BY <1>1, FS_CardinalityType
  <1>3. QED
    BY <1>1, <1>2

LEMMA PositionsCount ==
  ASSUME NEW ids \in Seq(Cases), NEW c
  PROVE  /\ IsFiniteSet({i \in DOMAIN ids : ids[i] = c})
         /\ Cardinality({i \in DOMAIN ids : ids[i] = c}) \in Nat
  <1>1. DOMAIN ids = 1..Len(ids) /\ Len(ids) \in Nat
    OBVIOUS
  <1>2. IsFiniteSet(1..Len(ids))
    <2>1. 1 \in Int /\ Len(ids) \in Int
      BY <1>1
    <2>2. QED
      BY <2>1, FS_Interval
  <1>3. {i \in DOMAIN ids : ids[i] = c} \subseteq 1..Len(ids)
    BY <1>1
  <1>4. QED
    BY <1>2, <1>3, SmallerCount

LEMMA RunIds ==
  ASSUME RunsTypeOK, NEW r \in Runs
  PROVE  run[r].caseIds \in Seq(Cases)
  <1>1. run[r].caseIds \in Requests \cup {<<>>}
    BY DEF RunsTypeOK
  <1>2. <<>> \in Seq(Cases) /\ Requests \subseteq Seq(Cases)
    BY EvalRunsAssumption
  <1>3. QED
    BY <1>1, <1>2

LEMMA MentionsCount ==
  ASSUME RunsTypeOK, NEW r \in Runs, NEW c
  PROVE  Mentions(r, c) \in Nat
  <1>1. run[r].caseIds \in Seq(Cases)
    BY RunIds
  <1>2. PICK ids \in Seq(Cases) : ids = run[r].caseIds
    BY <1>1
  <1>3. QED
    BY <1>2, PositionsCount DEF Mentions

LEMMA LostGrows ==
  ASSUME RunsTypeOK, NoFewer
  PROVE  /\ Lost \in Nat /\ Lost' \in Nat /\ Lost <= Lost'
         /\ mishaps.stalls \in Nat /\ mishaps'.stalls \in Nat
         /\ mishaps.stalls <= mishaps'.stalls
  <1>1. /\ mishaps.crashes \in Nat /\ mishaps.failures \in Nat /\ mishaps.stalls \in Nat
        /\ mishaps'.crashes \in Nat /\ mishaps'.failures \in Nat /\ mishaps'.stalls \in Nat
    BY MishapBounds DEF RunsTypeOK, NoFewer, Mishaps
  <1>2. QED
    BY <1>1 DEF NoFewer, Lost

PayOK(r, c) ==
    IF results[r][c] = "none"
    THEN paid[r][c] <= Lost + Cardinality(AtStore(r, c))
    ELSE paid[r][c] + Cardinality(Unaware(r, c)) <= Mentions(r, c) + Lost + mishaps.stalls

LEMMA PayParts ==
  /\ PayInv <=> \A r \in Runs, c \in Cases : PayOK(r, c)
  /\ PayInv' <=> \A r \in Runs, c \in Cases : PayOK(r, c)'
  BY DEF PayInv, PayOK

(* Who pays is nobody new, and who stops short of storing is a loss.       *)
LEMMA PayStands ==
  ASSUME RunsTypeOK, NoFewer, NEW r \in Runs, NEW c \in Cases, PayOK(r, c),
         results'[r][c] = results[r][c], paid'[r][c] = paid[r][c],
         run'[r].caseIds = run[r].caseIds,
         results[r][c] = "none" =>
            \/ AtStore(r, c) \subseteq AtStore(r, c)'
            \/ /\ \E w \in Handlers : AtStore(r, c) \subseteq AtStore(r, c)' \cup {w}
               /\ Lost' >= Lost + 1,
         results[r][c] # "none" => Unaware(r, c)' \subseteq Unaware(r, c)
  PROVE  PayOK(r, c)'
  <1>0. paid[r][c] \in Nat /\ paid'[r][c] \in Nat /\ Mentions(r, c) \in Nat
    BY MentionsCount DEF RunsTypeOK
  <1>1. /\ Lost \in Nat /\ Lost' \in Nat /\ Lost <= Lost'
        /\ mishaps.stalls \in Nat /\ mishaps'.stalls \in Nat
        /\ mishaps.stalls <= mishaps'.stalls
    BY LostGrows
  <1>2. Mentions(r, c)' = Mentions(r, c)
    BY DEF Mentions
  <1>3. CASE results[r][c] = "none"
    <2>1. Lost + Cardinality(AtStore(r, c)) <= Lost' + Cardinality(AtStore(r, c)')
      <3>1. CASE AtStore(r, c) \subseteq AtStore(r, c)'
        <4>1. /\ Cardinality(AtStore(r, c)) <= Cardinality(AtStore(r, c)')
              /\ Cardinality(AtStore(r, c)) \in Nat /\ Cardinality(AtStore(r, c)') \in Nat
          BY <3>1, Counted, SmallerCount
        <4>2. QED
          BY <1>1, <4>1
      <3>2. ASSUME NEW w \in Handlers, AtStore(r, c) \subseteq AtStore(r, c)' \cup {w},
                   Lost' >= Lost + 1
            PROVE  Lost + Cardinality(AtStore(r, c)) <= Lost' + Cardinality(AtStore(r, c)')
        <4> DEFINE T == AtStore(r, c)'
        <4>1. IsFiniteSet(T) /\ Cardinality(T) \in Nat
          BY Counted
        <4> HIDE DEF T
        <4>2. /\ IsFiniteSet(T \cup {w}) /\ Cardinality(T \cup {w}) \in Nat
              /\ Cardinality(T \cup {w}) <= Cardinality(T) + 1
          BY <4>1, OneMoreCount
        <4>3. /\ Cardinality(AtStore(r, c)) <= Cardinality(T \cup {w})
              /\ Cardinality(AtStore(r, c)) \in Nat
          BY <3>2, <4>2, SmallerCount DEF T
        <4>4. QED
          BY <1>1, <3>2, <4>1, <4>2, <4>3 DEF T
      <3>3. QED
        BY <1>3, <3>1, <3>2
    <2>2. Cardinality(AtStore(r, c)) \in Nat /\ Cardinality(AtStore(r, c)') \in Nat
      BY Counted
    <2>3. paid[r][c] <= Lost + Cardinality(AtStore(r, c))
      BY <1>3 DEF PayOK
    <2>4. paid'[r][c] <= Lost' + Cardinality(AtStore(r, c)')
      BY <1>0, <1>1, <2>1, <2>2, <2>3
    <2>5. QED
      BY <1>3, <2>4 DEF PayOK
  <1>4. CASE results[r][c] # "none"
    <2>1. /\ Cardinality(Unaware(r, c)') <= Cardinality(Unaware(r, c))
          /\ Cardinality(Unaware(r, c)) \in Nat /\ Cardinality(Unaware(r, c)') \in Nat
      BY <1>4, Counted, SmallerCount
    <2>2. paid[r][c] + Cardinality(Unaware(r, c)) <= Mentions(r, c) + Lost + mishaps.stalls
      BY <1>4 DEF PayOK
    <2>3. paid'[r][c] + Cardinality(Unaware(r, c)')
             <= Mentions(r, c) + Lost' + mishaps'.stalls
      BY <1>0, <1>1, <2>1, <2>2
    <2>4. QED
      BY <1>2, <1>4, <2>3 DEF PayOK
  <1>5. QED
    BY <1>3, <1>4

(* What one handler does changes the counts by itself only.                *)
LEMMA OthersCount ==
  ASSUME NEW w \in Handlers, \A v \in Handlers : v # w => task'[v] = task[v],
         NEW r, NEW c, run'[r].caseIds = run[r].caseIds
  PROVE  /\ AtStore(r, c) \subseteq AtStore(r, c)' \cup {w}
         /\ AtStore(r, c)' \subseteq AtStore(r, c) \cup {w}
         /\ Unaware(r, c)' \subseteq Unaware(r, c) \cup {w}
         /\ Unaware(r, c) \subseteq Unaware(r, c)' \cup {w}
  BY DEF AtStore, Unaware, CaseOf

LEMMA NobodyMoved ==
  ASSUME UNCHANGED task, NEW r, NEW c, run'[r].caseIds = run[r].caseIds
  PROVE  AtStore(r, c)' = AtStore(r, c) /\ Unaware(r, c)' = Unaware(r, c)
  BY DEF AtStore, Unaware, CaseOf

(* A handler that neither pays nor stores.                                 *)
LEMMA HandlerPays ==
  ASSUME RunsTypeOK, NoFewer, PayInv, UNCHANGED <<results, paid>>, NEW w \in Handlers,
         \A v \in Handlers : v # w => task'[v] = task[v],
         \A r \in Runs : run'[r].caseIds = run[r].caseIds,
         \A r \in Runs, c \in Cases : w \in AtStore(r, c) =>
            \/ w \in AtStore(r, c)' \/ Lost' >= Lost + 1 \/ results[r][c] # "none",
         \A r \in Runs, c \in Cases : w \in Unaware(r, c)' =>
            w \in Unaware(r, c) \/ results[r][c] = "none"
  PROVE  PayInv'
  <1>1. SUFFICES ASSUME NEW r \in Runs, NEW c \in Cases PROVE PayOK(r, c)'
    BY PayParts
  <1>2. /\ AtStore(r, c) \subseteq AtStore(r, c)' \cup {w}
        /\ Unaware(r, c)' \subseteq Unaware(r, c) \cup {w}
    BY OthersCount
  <1>3. PayOK(r, c)
    BY PayParts
  <1>4. results[r][c] = "none" =>
           \/ AtStore(r, c) \subseteq AtStore(r, c)'
           \/ /\ \E v \in Handlers : AtStore(r, c) \subseteq AtStore(r, c)' \cup {v}
              /\ Lost' >= Lost + 1
    BY <1>2
  <1>5. results[r][c] # "none" => Unaware(r, c)' \subseteq Unaware(r, c)
    BY <1>2
  <1>6. QED
    BY <1>3, <1>4, <1>5, PayStands

(* Nobody moves.                                                           *)
LEMMA NobodyPays ==
  ASSUME RunsTypeOK, NoFewer, PayInv, UNCHANGED <<results, paid, task>>,
         NEW r \in Runs, NEW c \in Cases, run'[r].caseIds = run[r].caseIds
  PROVE  PayOK(r, c)'
  <1>1. PayOK(r, c) /\ AtStore(r, c)' = AtStore(r, c) /\ Unaware(r, c)' = Unaware(r, c)
    BY PayParts, NobodyMoved
  <1>2. QED
    BY <1>1, PayStands

(* Of the handlers busy with a run all but one have lost their job.        *)
LEMMA RivalsCount ==
  ASSUME RunsTypeOK, QueueInv, StallInv, NEW w \in Handlers, Busy(w),
         NEW S, S \subseteq {v \in Handlers : Busy(v) /\ task[v].run = task[w].run} \ {w}
  PROVE  Cardinality(S) <= mishaps.stalls
  <1>1. IsFiniteSet(Loose) /\ Cardinality(Loose) \in Nat
    BY LooseFinite
  <1>2. mishaps.stalls \in Nat /\ Cardinality(Loose) <= mishaps.stalls
    BY EvalRunsAssumption DEF RunsTypeOK, Mishaps, StallInv
  <1>3. \A v \in S : /\ v \in Handlers /\ v # w /\ Busy(v)
                     /\ task[v].run = task[w].run
    OBVIOUS
  <1>4. CASE held[w] # "none"
    <2>1. S \subseteq Loose
      BY <1>3, <1>4, OneHolder DEF Loose
    <2>2. Cardinality(S) <= Cardinality(Loose) /\ Cardinality(S) \in Nat
      BY <1>1, <2>1, SmallerCount
    <2>3. QED
      BY <1>1, <1>2, <2>2
  <1>5. CASE held[w] = "none"
    <2>1. w \in Loose
      BY <1>5 DEF Loose
    <2>2. /\ IsFiniteSet(Loose \ {w}) /\ Cardinality(Loose \ {w}) \in Nat
          /\ Cardinality(Loose) = Cardinality(Loose \ {w}) + 1
      BY <1>1, <2>1, OneLessCount
    <2>3. CASE S \subseteq Loose
      <3>1. S \subseteq Loose \ {w}
        BY <1>3, <2>3
      <3>2. Cardinality(S) <= Cardinality(Loose \ {w}) /\ Cardinality(S) \in Nat
        BY <2>2, <3>1, SmallerCount
      <3>3. QED
        BY <1>1, <1>2, <2>2, <3>2
    <2>4. ASSUME NEW h \in S, h \notin Loose
          PROVE  Cardinality(S) <= mishaps.stalls
      <3>1. held[h] # "none" /\ Busy(h) /\ h \in Handlers /\ task[h].run = task[w].run
        BY <1>3, <2>4 DEF Loose
      <3>2. ASSUME NEW v \in S, v \notin Loose
            PROVE  v = h
        <4>1. held[v] # "none" /\ Busy(v) /\ v \in Handlers /\ task[v].run = task[w].run
          BY <1>3, <3>2 DEF Loose
        <4>2. QED
          BY <3>1, <4>1, OneHolder
      <3>3. S \subseteq (Loose \ {w}) \cup {h}
        BY <1>3, <3>2
      <3> DEFINE T == Loose \ {w}
      <3>4. IsFiniteSet(T) /\ Cardinality(T) \in Nat /\ Cardinality(Loose) = Cardinality(T) + 1
        BY <2>2
      <3>5. S \subseteq T \cup {h}
        BY <3>3
      <3> HIDE DEF T
      <3>6. /\ IsFiniteSet(T \cup {h}) /\ Cardinality(T \cup {h}) \in Nat
            /\ Cardinality(T \cup {h}) <= Cardinality(T) + 1
        BY <3>4, OneMoreCount
      <3>7. Cardinality(S) <= Cardinality(T \cup {h}) /\ Cardinality(S) \in Nat
        BY <3>5, <3>6, SmallerCount
      <3>8. QED
        BY <1>1, <1>2, <3>4, <3>6, <3>7
    <2>5. QED
      BY <2>3, <2>4
  <1>6. QED
    BY <1>4, <1>5

LEMMA MeasurePays ==
  ASSUME RunsTypeOK, QueueInv, LoopInv, PayInv, NEW w \in Handlers, Measure(w)
  PROVE  PayInv'
  <1>1. /\ Onward(w) /\ task[w].step = "measure" /\ results' = results
        /\ task'[w].step = "store" /\ task'[w].todo = task[w].todo
        /\ task'[w].done = task[w].done /\ task'[w].at = task[w].at
        /\ \A r \in Runs, c \in Cases :
              paid'[r][c] = IF r = task[w].run /\ c = CaseOf(w)
                            THEN paid[r][c] + 1 ELSE paid[r][c]
    BY MeasureOnward
  <1>2. /\ run' = run /\ mishaps' = mishaps /\ task'[w].run = task[w].run
        /\ \A v \in Handlers : v # w => task'[v] = task[v]
    BY <1>1 DEF Onward
  <1>3. NoFewer
    BY <1>2, NoneHappens DEF RunsTypeOK
  <1>4. PICK r0 \in Runs : r0 = task[w].run
    BY <1>1, HandlersRun
  <1>5. PICK c0 \in Cases : c0 = CaseOf(w)
    BY <1>1, HandlersCase
  <1>6. /\ c0 = run[r0].caseIds[task[w].at] /\ task[w].at \in task[w].todo
        /\ c0 \notin task[w].done
    BY <1>1, <1>4, <1>5, HandlersCase DEF CaseOf
  <1>7. ASSUME NEW r \in Runs, NEW c \in Cases
        PROVE  /\ AtStore(r, c) \subseteq AtStore(r, c)' \cup {w}
               /\ AtStore(r, c)' \subseteq AtStore(r, c) \cup {w}
               /\ Unaware(r, c)' \subseteq Unaware(r, c) \cup {w}
    <2>1. run'[r].caseIds = run[r].caseIds
      BY <1>2
    <2>2. QED
      BY <1>2, <2>1, OthersCount
  <1>8. ASSUME NEW r \in Runs, NEW c \in Cases
        PROVE  w \notin AtStore(r, c) /\ (w \in Unaware(r, c)' => w \in Unaware(r, c))
    BY <1>1, <1>2 DEF AtStore, Unaware
  <1>9. ASSUME NEW r \in Runs, NEW c \in Cases, ~(r = r0 /\ c = c0)
        PROVE  PayOK(r, c)'
    <2>1. paid'[r][c] = paid[r][c] /\ results'[r][c] = results[r][c]
          /\ run'[r].caseIds = run[r].caseIds
      BY <1>1, <1>2, <1>4, <1>5, <1>9
    <2>2. PayOK(r, c)
      BY PayParts
    <2>3. AtStore(r, c) \subseteq AtStore(r, c)' /\ Unaware(r, c)' \subseteq Unaware(r, c)
      BY <1>7, <1>8
    <2>4. QED
      BY <1>3, <2>1, <2>2, <2>3, PayStands
  <1>10. PayOK(r0, c0)'
    <2>1. /\ paid'[r0][c0] = paid[r0][c0] + 1 /\ results'[r0][c0] = results[r0][c0]
          /\ paid[r0][c0] \in Nat
      BY <1>1, <1>4, <1>5 DEF RunsTypeOK
    <2>2. Mentions(r0, c0) \in Nat /\ Mentions(r0, c0)' = Mentions(r0, c0)
      BY <1>2, MentionsCount DEF Mentions
    <2>3. Lost' = Lost /\ Lost \in Nat /\ mishaps'.stalls = mishaps.stalls
          /\ mishaps.stalls \in Nat
      BY <1>2, <1>3, LostGrows DEF Lost
    <2>4. PayOK(r0, c0)
      BY PayParts
    <2>5. CASE results[r0][c0] = "none"
      <3>1. w \in AtStore(r0, c0)'
        BY <1>1, <1>2, <1>4, <1>6 DEF AtStore, CaseOf
      <3>2. AtStore(r0, c0)' = AtStore(r0, c0) \cup {w} /\ w \notin AtStore(r0, c0)
        BY <1>7, <1>8, <3>1
      <3> DEFINE T == AtStore(r0, c0)
      <3>3. IsFiniteSet(T) /\ Cardinality(T) \in Nat /\ w \notin T
            /\ AtStore(r0, c0)' = T \cup {w}
        BY <3>2, Counted
      <3> HIDE DEF T
      <3>4. Cardinality(T \cup {w}) = Cardinality(T) + 1
        BY <3>3, OneMoreCount
      <3>5. Cardinality(AtStore(r0, c0)') = Cardinality(T) + 1
        BY <3>3, <3>4
      <3>6. paid[r0][c0] <= Lost + Cardinality(T)
        BY <2>4, <2>5 DEF PayOK, T
      <3>7. paid'[r0][c0] <= Lost' + Cardinality(AtStore(r0, c0)')
        BY <2>1, <2>3, <3>3, <3>5, <3>6
      <3>8. QED
        BY <2>1, <2>5, <3>7 DEF PayOK
    <2>6. CASE results[r0][c0] # "none"
      <3>1. w \in Unaware(r0, c0)
        BY <1>1, <1>4, <1>6 DEF Unaware
      <3>2. w \notin Unaware(r0, c0)'
        BY <1>1, <1>2, <1>4, <1>6 DEF Unaware, CaseOf
      <3>3. Unaware(r0, c0)' \subseteq Unaware(r0, c0) \ {w}
        BY <1>7, <3>2
      <3> DEFINE U == Unaware(r0, c0)
      <3>4. IsFiniteSet(U) /\ Cardinality(U) \in Nat /\ w \in U
            /\ Unaware(r0, c0)' \subseteq U \ {w}
        BY <3>1, <3>3, Counted
      <3> HIDE DEF U
      <3>5. /\ IsFiniteSet(U \ {w}) /\ Cardinality(U \ {w}) \in Nat
            /\ Cardinality(U) = Cardinality(U \ {w}) + 1
        BY <3>4, OneLessCount
      <3>6. /\ Cardinality(Unaware(r0, c0)') <= Cardinality(U \ {w})
            /\ Cardinality(Unaware(r0, c0)') \in Nat
        BY <3>4, <3>5, SmallerCount
      <3>7. paid[r0][c0] + Cardinality(U) <= Mentions(r0, c0) + Lost + mishaps.stalls
        BY <2>4, <2>6 DEF PayOK, U
      <3>8. paid'[r0][c0] + Cardinality(Unaware(r0, c0)')
               <= Mentions(r0, c0) + Lost' + mishaps'.stalls
        BY <2>1, <2>2, <2>3, <3>4, <3>5, <3>6, <3>7
      <3>9. QED
        BY <2>1, <2>2, <2>6, <3>8 DEF PayOK
    <2>7. QED
      BY <2>5, <2>6
  <1>11. QED
    BY <1>9, <1>10, PayParts

(* The answer is stored: who has paid for it, or will, was busy with the   *)
(* run beside its writer, and only a stall lets that happen.               *)
LEMMA StorePays ==
  ASSUME RunsTypeOK, QueueInv, StallInv, LoopInv, PayInv, NEW w \in Handlers, Stores(w)
  PROVE  PayInv'
  <1>1. /\ Onward(w) /\ task[w].step = "store" /\ paid' = paid
        /\ task'[w].step = "cases" /\ task'[w].todo = task[w].todo \ {task[w].at}
        /\ task'[w].done = task[w].done
        /\ results[task[w].run][CaseOf(w)] = "none"
        /\ results'[task[w].run][CaseOf(w)] # "none"
        /\ \A r \in Runs, c \in Cases :
              ~(r = task[w].run /\ c = CaseOf(w)) => results'[r][c] = results[r][c]
    BY StoreOnward
  <1>2. /\ run' = run /\ mishaps' = mishaps /\ task'[w].run = task[w].run
        /\ \A v \in Handlers : v # w => task'[v] = task[v]
        /\ Busy(w)
    BY <1>1 DEF Onward
  <1>3. NoFewer
    BY <1>2, NoneHappens DEF RunsTypeOK
  <1>4. PICK r0 \in Runs : r0 = task[w].run
    BY <1>1, HandlersRun
  <1>5. PICK c0 \in Cases : c0 = CaseOf(w)
    BY <1>1, HandlersCase
  <1>6. /\ c0 = run[r0].caseIds[task[w].at] /\ task[w].at \in task[w].todo
        /\ c0 \notin task[w].done /\ task[w].at \in DOMAIN run[r0].caseIds
        /\ task[w].todo \subseteq DOMAIN run[r0].caseIds
    <2>1. LoopOK(w)
      BY DEF LoopInv
    <2>2. QED
      BY <1>1, <1>4, <1>5, <2>1, HandlersCase DEF CaseOf, LoopOK, Later
  <1>7. ASSUME NEW r \in Runs, NEW c \in Cases
        PROVE  /\ AtStore(r, c) \subseteq AtStore(r, c)' \cup {w}
               /\ Unaware(r, c)' \subseteq Unaware(r, c) \cup {w}
    <2>1. run'[r].caseIds = run[r].caseIds
      BY <1>2
    <2>2. QED
      BY <1>2, <2>1, OthersCount
  <1>8. ASSUME NEW r \in Runs, NEW c \in Cases, ~(r = r0 /\ c = c0)
        PROVE  PayOK(r, c)'
    <2>1. paid'[r][c] = paid[r][c] /\ results'[r][c] = results[r][c]
          /\ run'[r].caseIds = run[r].caseIds
      BY <1>1, <1>2, <1>4, <1>5, <1>8
    <2>2. PayOK(r, c)
      BY PayParts
    <2>3. w \notin AtStore(r, c)
      BY <1>4, <1>5, <1>8 DEF AtStore
    <2>4. w \in Unaware(r, c)' => w \in Unaware(r, c)
      BY <1>1, <1>2, <1>4, <1>5, <1>8 DEF Unaware
    <2>5. AtStore(r, c) \subseteq AtStore(r, c)' /\ Unaware(r, c)' \subseteq Unaware(r, c)
      BY <1>7, <2>3, <2>4
    <2>6. QED
      BY <1>3, <2>1, <2>2, <2>5, PayStands
  <1>9. PayOK(r0, c0)'
    <2> DEFINE A == AtStore(r0, c0)
               U == Unaware(r0, c0)'
               M == {i \in DOMAIN run[r0].caseIds : run[r0].caseIds[i] = c0}
    <2>1. IsFiniteSet(A) /\ Cardinality(A) \in Nat /\ IsFiniteSet(U) /\ Cardinality(U) \in Nat
      BY Counted
    <2>2. w \in A
      BY <1>1, <1>4, <1>5 DEF AtStore
    <2>3. (A \ {w}) \cap (U \ {w}) = {}
      BY <1>2, <1>4 DEF AtStore, Unaware, CaseOf
    <2>4. (A \ {w}) \cup (U \ {w})
             \subseteq {v \in Handlers : Busy(v) /\ task[v].run = task[w].run} \ {w}
      BY <1>2, <1>4 DEF AtStore, Unaware, Busy
    <2>5. IsFiniteSet(M) /\ Cardinality(M) \in Nat /\ task[w].at \in M
      <3>1. PICK ids \in Seq(Cases) : ids = run[r0].caseIds
        BY RunIds
      <3>2. QED
        BY <1>6, <3>1, PositionsCount
    <2>6. w \in U => \E i \in M : i # task[w].at
      BY <1>1, <1>2, <1>6 DEF Unaware
    <2>7. paid[r0][c0] <= Lost + Cardinality(A)
      <3>1. PayOK(r0, c0)
        BY PayParts
      <3>2. QED
        BY <1>1, <1>4, <1>5, <3>1 DEF PayOK
    <2>8. Mentions(r0, c0)' = Cardinality(M)
      BY <1>2 DEF Mentions
    <2>9. Lost' = Lost /\ Lost \in Nat /\ mishaps'.stalls = mishaps.stalls
          /\ mishaps.stalls \in Nat /\ paid'[r0][c0] = paid[r0][c0] /\ paid[r0][c0] \in Nat
      BY <1>1, <1>2, <1>3, LostGrows DEF Lost, RunsTypeOK
    <2>10. Unaware(r0, c0)' = U
      OBVIOUS
    <2> HIDE DEF A, U, M
    <2>11. /\ IsFiniteSet(A \ {w}) /\ Cardinality(A \ {w}) \in Nat
           /\ Cardinality(A) = Cardinality(A \ {w}) + 1
      BY <2>1, <2>2, OneLessCount
    <2>12. /\ IsFiniteSet(U \ {w}) /\ Cardinality(U \ {w}) \in Nat
           /\ Cardinality(U) <= Cardinality(U \ {w}) + 1
           /\ w \notin U => Cardinality(U) = Cardinality(U \ {w})
      BY <2>1, OneLessCount
    <2>13. Cardinality((A \ {w}) \cup (U \ {w}))
              = Cardinality(A \ {w}) + Cardinality(U \ {w})
      <3> DEFINE S == A \ {w}
                 T == U \ {w}
      <3>1. IsFiniteSet(S) /\ IsFiniteSet(T) /\ S \cap T = {}
            /\ Cardinality(S) \in Nat /\ Cardinality(T) \in Nat
        BY <2>3, <2>11, <2>12
      <3> HIDE DEF S, T
      <3>2. Cardinality(S \cup T) = Cardinality(S) + Cardinality(T) - Cardinality(S \cap T)
        BY <3>1, FS_Union
      <3>3. Cardinality(S \cap T) = 0
        BY <3>1, FS_EmptySet
      <3>4. QED
        BY <3>1, <3>2, <3>3 DEF S, T
    <2>14. Cardinality(A \ {w}) + Cardinality(U \ {w}) <= mishaps.stalls
      BY <1>2, <2>4, <2>13, RivalsCount
    <2>15. /\ IsFiniteSet(M \ {task[w].at}) /\ Cardinality(M \ {task[w].at}) \in Nat
           /\ Cardinality(M) = Cardinality(M \ {task[w].at}) + 1
      BY <2>5, OneLessCount
    <2>16. w \in U => Cardinality(M \ {task[w].at}) # 0
      BY <2>6, <2>15, FS_EmptySet
    <2>17. paid'[r0][c0] + Cardinality(U) <= Cardinality(M) + Lost' + mishaps'.stalls
      <3>1. CASE w \in U
        <4>1. Cardinality(M) >= 2
          BY <2>5, <2>15, <2>16, <3>1
        <4>2. QED
          BY <2>1, <2>5, <2>7, <2>9, <2>11, <2>12, <2>14, <4>1
      <3>2. CASE w \notin U
        <4>1. Cardinality(M) >= 1
          BY <2>5, <2>15
        <4>2. QED
          BY <2>1, <2>5, <2>7, <2>9, <2>11, <2>12, <2>14, <3>2, <4>1
      <3>3. QED
        BY <3>1, <3>2
    <2>18. results'[r0][c0] # "none"
      BY <1>1, <1>4, <1>5
    <2>19. QED
      BY <2>8, <2>10, <2>17, <2>18 DEF PayOK
  <1>10. QED
    BY <1>8, <1>9, PayParts

LEMMA QuietPays ==
  ASSUME RunsTypeOK, QueueInv, LoopInv, PayInv, NEW w \in Handlers,
         \/ Read(w) /\ run[task[w].run].status = "running"
         \/ List(w) \/ NextCase(w) \/ Sum(w)
  PROVE  PayInv'
  <1>1. /\ Onward(w) /\ UNCHANGED <<results, paid>> /\ task[w].step # "store"
        /\ \/ task'[w].step \notin {"cases", "measure", "store"}
           \/ task'[w].step = "cases" /\ task'[w].done = Answered(task[w].run)
           \/ /\ task[w].step = "cases" /\ task'[w].step \in {"cases", "measure"}
              /\ task'[w].done = task[w].done /\ task'[w].todo \subseteq task[w].todo
    BY ReadOnward, ListOnward, NextCaseOnward, SumOnward
  <1>2. /\ run' = run /\ mishaps' = mishaps /\ task'[w].run = task[w].run
        /\ \A v \in Handlers : v # w => task'[v] = task[v]
    BY <1>1 DEF Onward
  <1>3. NoFewer
    BY <1>2, NoneHappens DEF RunsTypeOK
  <1>4. \A r \in Runs, c \in Cases : w \notin AtStore(r, c)
    BY <1>1 DEF AtStore
  <1>5. ASSUME NEW r \in Runs, NEW c \in Cases, w \in Unaware(r, c)'
        PROVE  w \in Unaware(r, c) \/ results[r][c] = "none"
    <2>1. /\ task'[w].step \in {"cases", "measure", "store"} /\ task[w].run = r
          /\ c \notin task'[w].done
          /\ \E i \in task'[w].todo : run[r].caseIds[i] = c
      BY <1>2, <1>5 DEF Unaware
    <2>2. CASE task'[w].done = Answered(task[w].run)
      BY <2>1, <2>2 DEF Answered
    <2>3. CASE /\ task[w].step = "cases" /\ task'[w].step \in {"cases", "measure"}
               /\ task'[w].done = task[w].done /\ task'[w].todo \subseteq task[w].todo
      BY <2>1, <2>3 DEF Unaware
    <2>4. QED
      BY <1>1, <2>1, <2>2, <2>3
  <1>6. QED
    BY <1>1, <1>2, <1>3, <1>4, <1>5, HandlerPays

LEMMA LeftPays ==
  ASSUME RunsTypeOK, QueueInv, LoopInv, PayInv, NEW w \in Handlers, Left(w)
  PROVE  PayInv'
  <1>1. /\ NoFewer /\ UNCHANGED <<results, paid>>
        /\ \A v \in Handlers : v # w => task'[v] = task[v]
        /\ \A r \in Runs : run'[r].caseIds = run[r].caseIds
        /\ task'[w].step = "idle"
    BY DEF Left
  <1>2. ASSUME NEW r \in Runs, NEW c \in Cases, w \in AtStore(r, c)
        PROVE  Lost' >= Lost + 1 \/ results[r][c] # "none"
    BY <1>2 DEF AtStore, Left
  <1>3. \A r \in Runs, c \in Cases : w \notin Unaware(r, c)'
    BY <1>1 DEF Unaware
  <1>4. QED
    BY <1>1, <1>2, <1>3, HandlerPays

LEMMA BeginsPays ==
  ASSUME RunsTypeOK, PayInv, NEW w \in Handlers, NEW j \in JobIds, Begins(w, j)
  PROVE  PayInv'
  <1>1. /\ UNCHANGED <<run, results, paid, mishaps>>
        /\ \A v \in Handlers : v # w => task'[v] = task[v]
        /\ task[w].step = "idle" /\ task'[w].step \in {"read", "repair"}
    BY DEF Begins
  <1>2. NoFewer
    BY <1>1, NoneHappens DEF RunsTypeOK
  <1>3. \A r \in Runs, c \in Cases : w \notin AtStore(r, c)
    BY <1>1 DEF AtStore
  <1>4. \A r \in Runs, c \in Cases : w \notin Unaware(r, c)'
    BY <1>1 DEF Unaware
  <1>5. QED
    BY <1>1, <1>2, <1>3, <1>4, HandlerPays

LEMMA OpensPays ==
  ASSUME RunsTypeOK, RunsTypeOK', QueueInv, LoopInv, PayInv, NEW r0 \in Runs, Opens(r0)
  PROVE  PayInv'
  <1>1. /\ UNCHANGED <<results, paid, task, mishaps>> /\ run[r0].status = "absent"
        /\ \A q \in Runs : q # r0 => run'[q] = run[q]
    BY DEF Opens
  <1>2. NoFewer
    BY <1>1, NoneHappens DEF RunsTypeOK
  <1>3. ASSUME NEW c \in Cases
        PROVE  PayOK(r0, c)'
    <2>1. \A w \in Handlers : task[w].step = "idle" \/ task[w].run # r0
      BY <1>1 DEF QueueInv
    <2>2. AtStore(r0, c) = {} /\ Unaware(r0, c) = {} /\ Unaware(r0, c)' = {}
      BY <1>1, <2>1 DEF AtStore, Unaware
    <2>3. Mentions(r0, c) = 0
      <3>1. run[r0].caseIds = <<>>
        BY <1>1 DEF LoopInv
      <3>2. {i \in DOMAIN run[r0].caseIds : run[r0].caseIds[i] = c} = {}
        BY <3>1
      <3>3. QED
        BY <3>2, FS_EmptySet DEF Mentions
    <2>4. Mentions(r0, c)' \in Nat
      <3>1. PICK ids \in Seq(Cases) : ids = run'[r0].caseIds
        <4>1. run'[r0].caseIds \in Requests \cup {<<>>}
          BY DEF RunsTypeOK
        <4>2. <<>> \in Seq(Cases) /\ Requests \subseteq Seq(Cases)
          BY EvalRunsAssumption
        <4>3. QED
          BY <4>1, <4>2
      <3>2. QED
        BY <3>1, PositionsCount DEF Mentions
    <2>5. PayOK(r0, c)
      BY PayParts
    <2>6. Lost' = Lost /\ Lost \in Nat /\ mishaps'.stalls = mishaps.stalls
          /\ mishaps.stalls \in Nat /\ paid'[r0][c] = paid[r0][c] /\ paid[r0][c] \in Nat
          /\ results'[r0][c] = results[r0][c]
      BY <1>1, <1>2, LostGrows DEF Lost, RunsTypeOK
    <2>7. Cardinality({}) = 0 /\ Cardinality(AtStore(r0, c)') \in Nat
      BY Counted, FS_EmptySet
    <2>8. CASE results[r0][c] = "none"
      <3>1. paid[r0][c] <= Lost
        BY <2>2, <2>5, <2>6, <2>7, <2>8 DEF PayOK
      <3>2. paid'[r0][c] <= Lost' + Cardinality(AtStore(r0, c)')
        BY <2>6, <2>7, <3>1
      <3>3. QED
        BY <2>6, <2>8, <3>2 DEF PayOK
    <2>9. CASE results[r0][c] # "none"
      <3>1. paid[r0][c] <= Lost + mishaps.stalls
        BY <2>2, <2>3, <2>5, <2>6, <2>7, <2>9 DEF PayOK
      <3>2. Cardinality(Unaware(r0, c)') = 0
        BY <2>2, <2>7
      <3>3. paid'[r0][c] + Cardinality(Unaware(r0, c)')
               <= Mentions(r0, c)' + Lost' + mishaps'.stalls
        BY <2>4, <2>6, <3>1, <3>2
      <3>4. QED
        BY <2>6, <2>9, <3>3 DEF PayOK
    <2>10. QED
      BY <2>8, <2>9
  <1>4. ASSUME NEW r \in Runs, NEW c \in Cases, r # r0
        PROVE  PayOK(r, c)'
    BY <1>1, <1>2, <1>4, NobodyPays
  <1>5. QED
    BY <1>3, <1>4, PayParts

LEMMA PayKept ==
  ASSUME RunsTypeOK, QueueInv, StallInv, LoopInv, PayInv,
         \/ \E w \in Handlers : Goes(w) \/ Left(w)
         \/ \E w \in Handlers, j \in JobIds : Begins(w, j)
         \/ \E j \in JobIds : Expires(j)
         \/ \E r \in Runs : Opens(r)
         \/ Elsewhere
  PROVE  PayInv'
  <1>1. \A w \in Handlers : Goes(w) => Onward(w)
    BY StepsOnward DEF Goes
  <1>2. RunsTypeOK' /\ NoFewer
    BY <1>1, TypeKept
  <1>3. ASSUME (\E j \in JobIds : Expires(j)) \/ Elsewhere
        PROVE  PayInv'
    <2>1. UNCHANGED <<run, results, paid, task>>
      BY <1>3 DEF Expires, Elsewhere
    <2>2. QED
      BY <1>2, <2>1, NobodyPays, PayParts
  <1>4. ASSUME NEW w \in Handlers, Goes(w)
        PROVE  PayInv'
    BY <1>4, QuietPays, MeasurePays, StorePays DEF Goes
  <1>5. QED
    BY <1>2, <1>3, <1>4, LeftPays, BeginsPays, OpensPays

-----------------------------------------------------------------------------
(* All of it.                                                              *)

LEMMA RunsKept ==
  ASSUME RunsInv,
         \/ \E w \in Handlers : Goes(w) \/ Left(w)
         \/ \E w \in Handlers, j \in JobIds : Begins(w, j)
         \/ \E j \in JobIds : Expires(j)
         \/ \E r \in Runs : Opens(r)
         \/ Elsewhere
  PROVE  RunsInv' /\ NoFewer
  <1>1. /\ RunsTypeOK /\ QueueInv /\ RepairInv /\ JobInv /\ StallInv
        /\ LoopInv /\ SumInv /\ PayInv
    BY DEF RunsInv
  <1>2. \A w \in Handlers : Goes(w) => Onward(w)
    BY <1>1, StepsOnward DEF Goes
  <1>3. \/ \E w \in Handlers : Onward(w) \/ Left(w)
        \/ \E w \in Handlers, j \in JobIds : Begins(w, j)
        \/ \E j \in JobIds : Expires(j)
        \/ \E r \in Runs : Opens(r)
        \/ Elsewhere
    BY <1>2
  <1>4. RunsTypeOK' /\ NoFewer
    BY <1>1, <1>3, TypeKept
  <1>5. QueueInv'
    BY <1>1, <1>3, QueueKept DEF RunsTypeOK
  <1>6. RepairInv' /\ JobInv' /\ StallInv'
    BY <1>1, <1>3, RepairKept, JobKept, StallKept
  <1>7. LoopInv' /\ SumInv' /\ PayInv'
    BY <1>1, LoopKept, SumKept, PayKept
  <1>8. QED
    BY <1>4, <1>5, <1>6, <1>7 DEF RunsInv

LEMMA RunsStepKept ==
  ASSUME RunsInv, RunsNext \/ Asked
  PROVE  RunsInv' /\ NoFewer
  <1>1. RunsTypeOK /\ QueueInv /\ LoopInv
    BY DEF RunsInv
  <1>2. \A w \in Handlers : Leaves(w) => Left(w)
    BY <1>1, LeaverLeft
  <1>3. QED
    BY <1>1, <1>2, RunsKept, StepsOfRuns DEF Goes

LEMMA RunsStart == RunsInit => RunsInv
  <1> SUFFICES ASSUME RunsInit PROVE RunsInv
    OBVIOUS
  <1>1. /\ Queue!NoJob \in Queue!Job /\ Queue!NoJob.state = "free"
        /\ Queue!NoJob.item = "none"
    BY EvalRunsAssumption DEF Queue!NoJob, Queue!Job, Queue!JobStates
  <1>2. /\ \A j \in JobIds : jobs[j].state = "free"
        /\ \A w \in Handlers : held[w] = "none"
        /\ Queue!QueueTypeOK
    BY <1>1 DEF RunsInit, Queue!QueueInit, Queue!QueueTypeOK
  <1>3. \A w \in Handlers : task[w].step = "idle"
    BY IdleTask DEF RunsInit
  <1>4. mishaps \in Mishaps /\ mishaps.stalls = 0 /\ mishaps.crashes = 0
        /\ mishaps.failures = 0
    BY MishapBounds DEF RunsInit, Mishaps
  <1>5. \A r \in Runs : run[r].status = "absent" /\ run[r].caseIds = <<>>
    BY DEF RunsInit, NoRun
  <1>6. RunsTypeOK
    <2>1. Cardinality(Cases) \in Nat
      BY EvalRunsAssumption, FS_CardinalityType
    <2>2. NoRun \in [status : EVAL_RUN_STATUS \cup {"absent"},
                     caseIds : Requests \cup {<<>>},
                     matches : 0..Cardinality(Cases)]
      BY <2>1 DEF NoRun
    <2>3. run \in RunType
      BY <2>2 DEF RunsInit, RunType
    <2>4. results \in ResultsType /\ paid \in PaidType /\ known \in SUBSET Cases
      BY DEF RunsInit, ResultsType, PaidType
    <2>5. task \in [Handlers -> Task]
      BY IdleTask DEF RunsInit
    <2>6. QED
      BY <1>2, <1>4, <2>3, <2>4, <2>5, RunsTypeParts
  <1>7. QueueInv /\ RepairInv
    BY <1>2, <1>3 DEF QueueInv, RepairInv
  <1>8. JobInv
    BY <1>5 DEF JobInv
  <1>9. StallInv
    <2>1. Loose = {}
      BY <1>3 DEF Loose, Busy
    <2>2. QED
      BY <1>4, <2>1, FS_EmptySet DEF StallInv
  <1>10. LoopInv
    <2>1. known = Cases
      BY DEF RunsInit
    <2>2. QED
      BY <1>3, <1>5, <2>1 DEF LoopInv, LoopOK, Later
  <1>11. SumInv
    BY <1>3, <1>5, SumParts DEF WholeOK, ClosedOK, TotalOK
  <1>12. PayInv
    <2>1. SUFFICES ASSUME NEW r \in Runs, NEW c \in Cases PROVE PayOK(r, c)
      BY PayParts
    <2>2. results[r][c] = "none" /\ paid[r][c] = 0
      BY DEF RunsInit
    <2>3. Cardinality(AtStore(r, c)) \in Nat /\ Lost \in Nat
      BY <1>4, Counted DEF Lost
    <2>4. QED
      BY <2>2, <2>3 DEF PayOK
  <1>13. QED
    BY <1>6, <1>7, <1>8, <1>9, <1>10, <1>11, <1>12 DEF RunsInv

(* What it says of the three promises about the runs.                      *)
LEMMA RunsInvMeans == RunsInv => CompletedIsWhole /\ OpenRunHasJob /\ PaysOncePerMishap
  <1> SUFFICES ASSUME RunsInv PROVE CompletedIsWhole /\ OpenRunHasJob /\ PaysOncePerMishap
    OBVIOUS
  <1>1. /\ RunsTypeOK /\ QueueInv /\ RepairInv /\ JobInv /\ StallInv
        /\ LoopInv /\ SumInv /\ PayInv
    BY DEF RunsInv
  <1>2. CompletedIsWhole
    BY <1>1 DEF SumInv
  <1>3. OpenRunHasJob
    BY <1>1 DEF OpenRunHasJob, JobInv
  <1>4. ASSUME NEW r \in Runs, NEW c \in Cases
        PROVE  paid[r][c] <= Mentions(r, c) + Lost + mishaps.stalls
    <2>1. /\ Mentions(r, c) \in Nat /\ paid[r][c] \in Nat
          /\ Lost \in Nat /\ mishaps.stalls \in Nat
      <3>1. /\ mishaps.crashes \in Nat /\ mishaps.failures \in Nat
            /\ mishaps.stalls \in Nat
        BY <1>1, MishapBounds DEF RunsTypeOK, Mishaps
      <3>2. QED
        BY <1>1, <3>1, MentionsCount DEF RunsTypeOK, Lost
    <2>2. PayOK(r, c)
      BY <1>1, PayParts
    <2>3. CASE results[r][c] # "none"
      <3>1. Cardinality(Unaware(r, c)) \in Nat
        BY Counted
      <3>2. paid[r][c] + Cardinality(Unaware(r, c)) <= Mentions(r, c) + Lost + mishaps.stalls
        BY <2>2, <2>3 DEF PayOK
      <3>3. QED
        BY <2>1, <3>1, <3>2
    <2>4. CASE results[r][c] = "none" /\ AtStore(r, c) = {}
      <3>1. Cardinality(AtStore(r, c)) = 0
        BY <2>4, FS_EmptySet
      <3>2. paid[r][c] <= Lost
        BY <2>1, <2>2, <2>4, <3>1 DEF PayOK
      <3>3. QED
        BY <2>1, <3>2
    <2>5. CASE results[r][c] = "none" /\ AtStore(r, c) # {}
      <3>1. PICK w \in Handlers : w \in AtStore(r, c)
        BY <2>5 DEF AtStore
      <3>2. task[w].step = "store" /\ task[w].run = r /\ CaseOf(w) = c /\ Busy(w)
        BY <3>1 DEF AtStore, Busy
      <3> DEFINE A == AtStore(r, c)
                 M == {i \in DOMAIN run[r].caseIds : run[r].caseIds[i] = c}
      <3>3. A \ {w} \subseteq {v \in Handlers : Busy(v) /\ task[v].run = task[w].run} \ {w}
        BY <3>2 DEF AtStore, Busy
      <3>4. IsFiniteSet(A) /\ Cardinality(A) \in Nat
        BY Counted
      <3>5. task[w].at \in M
        BY <1>1, <3>2, HandlersCase DEF CaseOf
      <3>6. IsFiniteSet(M) /\ Cardinality(M) \in Nat
        <4>1. PICK ids \in Seq(Cases) : ids = run[r].caseIds
          BY <1>1, RunIds
        <4>2. QED
          BY <4>1, PositionsCount
      <3>7. Mentions(r, c) = Cardinality(M)
        BY DEF Mentions
      <3>8. paid[r][c] <= Lost + Cardinality(A)
        BY <2>2, <2>5 DEF PayOK
      <3> HIDE DEF A, M
      <3>9. Cardinality(A \ {w}) <= mishaps.stalls
        BY <1>1, <3>2, <3>3, RivalsCount
      <3>10. /\ Cardinality(A \ {w}) \in Nat
             /\ Cardinality(A) <= Cardinality(A \ {w}) + 1
        BY <3>4, OneLessCount
      <3>11. Cardinality(M) >= 1
        <4>1. Cardinality(M) # 0
          BY <3>5, <3>6, FS_EmptySet
        <4>2. QED
          BY <3>6, <4>1
      <3>12. QED
        BY <2>1, <3>4, <3>6, <3>7, <3>8, <3>9, <3>10, <3>11
    <2>6. QED
      BY <2>3, <2>4, <2>5
  <1>5. PaysOncePerMishap
    <2>1. /\ mishaps.crashes \in Nat /\ mishaps.failures \in Nat
          /\ mishaps.stalls \in Nat
      BY <1>1, MishapBounds DEF RunsTypeOK, Mishaps
    <2>2. \A r \in Runs, c \in Cases : Mentions(r, c) \in Nat /\ paid[r][c] \in Nat
      BY <1>1, MentionsCount DEF RunsTypeOK
    <2>3. QED
      BY <1>4, <2>1, <2>2 DEF PaysOncePerMishap, Lost
  <1>6. QED
    BY <1>2, <1>3, <1>5

-----------------------------------------------------------------------------
(* The plans' queue, typed.                                                *)

PlanQueueOK ==
    /\ PlanQueue!QueueTypeOK
    /\ \A j \in PlanJobIds : planJobs[j].state # "free" => planJobs[j].item \in Plans

LEMMA PlanNoJob ==
  PlanQueue!NoJob \in PlanQueue!Job /\ PlanQueue!NoJob.state = "free"
  BY EvalRunsAssumption DEF PlanQueue!NoJob, PlanQueue!Job, PlanQueue!JobStates

LEMMA PlanFailedJob ==
  ASSUME NEW job \in PlanQueue!Job, job.state # "free" => job.item \in Plans
  PROVE  LET next == PlanQueue!AfterFailure(job) IN
         /\ next \in PlanQueue!Job
         /\ next.state # "free" => next.item \in Plans
  <1>1. CASE job.state = "active" /\ job.tries < RetryLimit
    BY <1>1, EvalRunsAssumption
    DEF PlanQueue!AfterFailure, PlanQueue!NextAttempt, PlanQueue!Job, PlanQueue!JobStates
  <1>2. CASE job.state = "active" /\ ~(job.tries < RetryLimit)
    BY <1>2, EvalRunsAssumption
    DEF PlanQueue!AfterFailure, PlanQueue!NextAttempt, PlanQueue!Job, PlanQueue!JobStates
  <1>3. CASE job.state # "active"
    BY <1>3, PlanNoJob DEF PlanQueue!AfterFailure
  <1>4. QED
    BY <1>1, <1>2, <1>3

LEMMA PlanJobSet ==
  ASSUME PlanQueueOK, NEW j \in PlanJobIds, NEW job \in PlanQueue!Job,
         job.state # "free" => job.item \in Plans,
         planJobs' = [planJobs EXCEPT ![j] = job],
         planHeld' \in [PlanHandlers -> PlanJobIds \cup {"none"}]
  PROVE  PlanQueueOK'
  BY DEF PlanQueueOK, PlanQueue!QueueTypeOK

LEMMA PlanJobsSame ==
  ASSUME PlanQueueOK, planJobs' = planJobs,
         planHeld' \in [PlanHandlers -> PlanJobIds \cup {"none"}]
  PROVE  PlanQueueOK'
  BY DEF PlanQueueOK, PlanQueue!QueueTypeOK

LEMMA PlanQueueKept ==
  ASSUME PlanQueueOK,
         \/ UNCHANGED planQueueVars
         \/ \E p \in Plans : \/ PlanQueue!Send(p) /\ UNCHANGED planHeld
                            \/ PlanQueue!Cancel(p)
         \/ \E w \in PlanHandlers :
               PlanQueue!Complete(w) \/ PlanQueue!Fail(w) \/ PlanQueue!Abandon(w)
         \/ \E w \in PlanHandlers, j \in PlanJobIds :
               PlanQueue!Fetch(w, j) \/ PlanQueue!FetchDead(w, j)
         \/ \E j \in PlanJobIds : PlanQueue!Expire(j)
  PROVE  PlanQueueOK'
  <1>1. /\ planJobs \in [PlanJobIds -> PlanQueue!Job]
        /\ planHeld \in [PlanHandlers -> PlanJobIds \cup {"none"}]
        /\ \A j \in PlanJobIds : planJobs[j].state # "free" => planJobs[j].item \in Plans
    BY DEF PlanQueueOK, PlanQueue!QueueTypeOK
  <1>2. CASE UNCHANGED planQueueVars
    BY <1>1, <1>2, PlanJobsSame DEF planQueueVars
  <1>3. ASSUME NEW p \in Plans, PlanQueue!Send(p), UNCHANGED planHeld
        PROVE  PlanQueueOK'
    <2> DEFINE job == [state |-> "created", item |-> p, tries |-> 0]
    <2>1. job \in PlanQueue!Job /\ job.item \in Plans
      BY EvalRunsAssumption DEF PlanQueue!Job, PlanQueue!JobStates
    <2>2. PICK j \in PlanJobIds : planJobs' = [planJobs EXCEPT ![j] = job]
      BY <1>3 DEF PlanQueue!Send
    <2> HIDE DEF job
    <2>3. QED
      BY <1>1, <1>3, <2>1, <2>2, PlanJobSet
  <1>4. ASSUME NEW p \in Plans, PlanQueue!Cancel(p)
        PROVE  PlanQueueOK'
    <2> DEFINE gone == {j \in PlanJobIds : planJobs[j].item = p
                                           /\ planJobs[j].state \in {"created", "active"}}
    <2>1. /\ planJobs' = [j \in PlanJobIds |->
                            IF j \in gone THEN PlanQueue!NoJob ELSE planJobs[j]]
          /\ planHeld' = [w \in PlanHandlers |->
                            IF planHeld[w] \in gone THEN "none" ELSE planHeld[w]]
      BY <1>4 DEF PlanQueue!Cancel
    <2> HIDE DEF gone
    <2>2. /\ planJobs' \in [PlanJobIds -> PlanQueue!Job]
          /\ planHeld' \in [PlanHandlers -> PlanJobIds \cup {"none"}]
      BY <1>1, <2>1, PlanNoJob
    <2>3. \A j \in PlanJobIds : planJobs'[j].state # "free" => planJobs'[j].item \in Plans
      BY <1>1, <2>1, PlanNoJob
    <2>4. QED
      BY <2>2, <2>3 DEF PlanQueueOK, PlanQueue!QueueTypeOK
  <1>5. ASSUME NEW w \in PlanHandlers,
               PlanQueue!Complete(w) \/ PlanQueue!Fail(w) \/ PlanQueue!Abandon(w)
        PROVE  PlanQueueOK'
    <2>1. planHeld' \in [PlanHandlers -> PlanJobIds \cup {"none"}]
      BY <1>1, <1>5 DEF PlanQueue!Complete, PlanQueue!Fail, PlanQueue!Abandon
    <2>2. CASE planHeld[w] = "none" \/ PlanQueue!Abandon(w)
      BY <1>5, <2>1, <2>2, PlanJobsSame
      DEF PlanQueue!Complete, PlanQueue!Fail, PlanQueue!Abandon
    <2>3. CASE planHeld[w] # "none" /\ PlanQueue!Complete(w)
      BY <1>1, <2>1, <2>3, PlanNoJob, PlanJobSet DEF PlanQueue!Complete
    <2>4. CASE planHeld[w] # "none" /\ PlanQueue!Fail(w)
      <3>1. PICK j \in PlanJobIds : j = planHeld[w]
        BY <1>1, <2>4
      <3>2. PICK next : next = PlanQueue!AfterFailure(planJobs[j])
        OBVIOUS
      <3>3. next \in PlanQueue!Job /\ (next.state # "free" => next.item \in Plans)
        BY <1>1, <3>2, PlanFailedJob
      <3>4. planJobs' = [planJobs EXCEPT ![j] = next]
        BY <2>4, <3>1, <3>2 DEF PlanQueue!Fail
      <3>5. QED
        BY <2>1, <3>3, <3>4, PlanJobSet
    <2>5. QED
      BY <1>5, <2>2, <2>3, <2>4
  <1>6. ASSUME NEW w \in PlanHandlers, NEW j \in PlanJobIds,
               PlanQueue!Fetch(w, j) \/ PlanQueue!FetchDead(w, j)
        PROVE  PlanQueueOK'
    <2>1. PICK state \in {"active", "mending"} :
             planJobs' = [planJobs EXCEPT ![j].state = state]
      BY <1>6 DEF PlanQueue!Fetch, PlanQueue!FetchDead
    <2>2. planHeld' = [planHeld EXCEPT ![w] = j] /\ planJobs[j].state # "free"
      BY <1>6 DEF PlanQueue!Fetch, PlanQueue!FetchDead
    <2> DEFINE job == [planJobs[j] EXCEPT !.state = state]
    <2>3. job \in PlanQueue!Job /\ job.item = planJobs[j].item
      BY <1>1 DEF PlanQueue!Job, PlanQueue!JobStates
    <2>4. planJobs' = [planJobs EXCEPT ![j] = job]
      BY <2>1
    <2> HIDE DEF job
    <2>5. planHeld' \in [PlanHandlers -> PlanJobIds \cup {"none"}]
      BY <1>1, <2>2
    <2>6. QED
      BY <1>1, <2>2, <2>3, <2>4, <2>5, PlanJobSet
  <1>7. ASSUME NEW j \in PlanJobIds, PlanQueue!Expire(j)
        PROVE  PlanQueueOK'
    <2>1. PICK next : next = PlanQueue!AfterFailure(planJobs[j])
      OBVIOUS
    <2>2. next \in PlanQueue!Job /\ (next.state # "free" => next.item \in Plans)
      BY <1>1, <2>1, PlanFailedJob
    <2>3. planJobs' = [planJobs EXCEPT ![j] = next]
      BY <1>7, <2>1 DEF PlanQueue!Expire
    <2>4. planHeld' \in [PlanHandlers -> PlanJobIds \cup {"none"}]
      BY <1>1, <1>7 DEF PlanQueue!Expire
    <2>5. QED
      BY <2>2, <2>3, <2>4, PlanJobSet
  <1>8. QED
    BY <1>2, <1>3, <1>4, <1>5, <1>6, <1>7

-----------------------------------------------------------------------------
(* The firing worker, typed.                                               *)

LEMMA AtRestFiring == AtRest \in Firing /\ AtRest.step = "idle"
  BY DEF AtRest, Firing

LEMMA FiringSet ==
  ASSUME firing \in [PlanHandlers -> Firing], NEW w \in PlanHandlers, NEW f \in Firing,
         firing' = [firing EXCEPT ![w] = f]
  PROVE  /\ firing' \in [PlanHandlers -> Firing] /\ firing'[w] = f
         /\ \A v \in PlanHandlers : v # w => firing'[v] = firing[v]
  OBVIOUS

LEMMA FiringRests ==
  ASSUME firing \in [PlanHandlers -> Firing], NEW w \in PlanHandlers,
         firing' = [firing EXCEPT ![w] = AtRest]
  PROVE  /\ firing' \in [PlanHandlers -> Firing] /\ firing'[w].step = "idle"
         /\ \A v \in PlanHandlers : v # w => firing'[v] = firing[v]
  BY AtRestFiring, FiringSet

LEMMA FiringGoes ==
  ASSUME firing \in [PlanHandlers -> Firing], NEW w \in PlanHandlers,
         NEW step \in {"markMissed", "claim", "open"}, GoOn(w, step)
  PROVE  /\ firing' \in [PlanHandlers -> Firing] /\ firing'[w].step = step
         /\ firing'[w].plan = firing[w].plan
         /\ \A v \in PlanHandlers : v # w => firing'[v] = firing[v]
  <1> DEFINE f == [firing[w] EXCEPT !.step = step]
  <1>1. f \in Firing /\ f.step = step /\ f.plan = firing[w].plan
    BY DEF Firing
  <1>2. firing' = [firing EXCEPT ![w] = f]
    BY DEF GoOn
  <1> HIDE DEF f
  <1>3. QED
    BY <1>1, <1>2, FiringSet

LEMMA FiringLinks ==
  ASSUME firing \in [PlanHandlers -> Firing], NEW w \in PlanHandlers, NEW r \in Runs,
         firing' = [firing EXCEPT ![w].step = "link", ![w].run = r]
  PROVE  /\ firing' \in [PlanHandlers -> Firing] /\ firing'[w].step = "link"
         /\ firing'[w].plan = firing[w].plan /\ firing'[w].run = r
         /\ \A v \in PlanHandlers : v # w => firing'[v] = firing[v]
  <1> DEFINE f == [firing[w] EXCEPT !.step = "link", !.run = r]
  <1>1. f \in Firing /\ f.step = "link" /\ f.plan = firing[w].plan /\ f.run = r
    BY DEF Firing
  <1>2. firing' = [firing EXCEPT ![w] = f]
    OBVIOUS
  <1> HIDE DEF f
  <1>3. QED
    BY <1>1, <1>2, FiringSet

LEMMA FiringStarts ==
  ASSUME firing \in [PlanHandlers -> Firing], NEW w \in PlanHandlers, NEW p \in Plans,
         NEW step \in {"read", "repair"},
         firing' = [firing EXCEPT ![w] = [AtRest EXCEPT !.step = step, !.plan = p]]
  PROVE  /\ firing' \in [PlanHandlers -> Firing] /\ firing'[w].step = step
         /\ firing'[w].plan = p
         /\ \A v \in PlanHandlers : v # w => firing'[v] = firing[v]
  <1> DEFINE f == [AtRest EXCEPT !.step = step, !.plan = p]
  <1>1. f \in Firing /\ f.step = step /\ f.plan = p
    BY DEF Firing, AtRest
  <1> HIDE DEF f
  <1>2. firing' = [firing EXCEPT ![w] = f]
    BY DEF f
  <1>3. QED
    BY <1>1, <1>2, FiringSet

-----------------------------------------------------------------------------
(* What a step does to the plans.                                          *)

PlanType == [Plans -> EVAL_PLANNED_RUN_STATUS \cup {"absent"}]
PhaseType == [Plans -> {"early", "due", "late"}]

PlansTyped ==
    /\ plan \in PlanType /\ phase \in PhaseType
    /\ linked \in [Plans -> Runs \cup {"none"}]
    /\ opened \in [Plans -> SUBSET Runs]
    /\ releasing \in SUBSET Plans
    /\ firing \in [PlanHandlers -> Firing]
    /\ \A w \in PlanHandlers : firing[w].step # "idle" => firing[w].plan \in Plans
    /\ PlanQueueOK

(* No plan is fired, charged for or linked.                                *)
PlanQuiet ==
    /\ plan' \in PlanType /\ phase' \in PhaseType /\ releasing' \in SUBSET Plans
    /\ \A p \in Plans : plan'[p] = plan[p] \/ (plan[p] # "fired" /\ plan'[p] # "fired")
    /\ UNCHANGED <<opened, linked>>
    /\ firing' \in [PlanHandlers -> Firing]
    /\ \A w \in PlanHandlers :
          \/ firing'[w] = firing[w]
          \/ /\ firing'[w].step \notin {"open", "link"}
             /\ firing'[w].step # "idle" => firing'[w].plan \in Plans
             /\ firing[w].step \in {"open", "link"} => Lost' > 0
    /\ PlanQueueOK'

LEMMA SamePlans ==
  ASSUME PlansTyped
  PROVE  /\ UNCHANGED plan => /\ plan' \in PlanType
                              /\ \A p \in Plans : plan'[p] = plan[p]
         /\ UNCHANGED phase => phase' \in PhaseType
         /\ UNCHANGED releasing => releasing' \in SUBSET Plans
         /\ UNCHANGED firing => /\ firing' \in [PlanHandlers -> Firing]
                                /\ \A w \in PlanHandlers : firing'[w] = firing[w]
         /\ UNCHANGED planQueueVars => PlanQueueOK'
  BY PlanQueueKept DEF PlansTyped

LEMMA PlanSet ==
  ASSUME PlansTyped, NEW p \in Plans, plan[p] # "fired",
         NEW status \in {"planned", "cancelled", "missed"},
         plan' = [plan EXCEPT ![p] = status]
  PROVE  /\ plan' \in PlanType
         /\ \A q \in Plans : plan'[q] = plan[q] \/ (plan[q] # "fired" /\ plan'[q] # "fired")
  BY DEF PlansTyped, PlanType, EVAL_PLANNED_RUN_STATUS

(* The routes and the clock.                                               *)
LEMMA RoutesQuiet ==
  ASSUME PlansTyped,
         \/ \E p \in Plans : \/ PlanRun(p) \/ CancelPlan(p) \/ ReleaseJob(p)
                             \/ CancelDies(p) \/ TimePasses(p)
         \/ ReadPanel
         \/ \E j \in PlanJobIds : FiringExpires(j) \/ FiringStalls(j)
         \/ UNCHANGED planVars
  PROVE  PlanQuiet
  <1>1. ASSUME NEW p \in Plans, PlanRun(p) PROVE PlanQuiet
    <2>1. /\ plan' = [plan EXCEPT ![p] = "planned"] /\ plan[p] # "fired"
          /\ PlanQueue!Send(p) /\ UNCHANGED <<phase, linked, opened, releasing, firing, planHeld>>
      BY <1>1 DEF PlanRun
    <2>2. PlanQueueOK'
      BY <2>1, PlanQueueKept DEF PlansTyped
    <2>3. QED
      BY <2>1, <2>2, PlanSet, SamePlans DEF PlanQuiet
  <1>2. ASSUME NEW p \in Plans, CancelPlan(p) PROVE PlanQuiet
    <2>1. /\ plan' = [plan EXCEPT ![p] = "cancelled"] /\ plan[p] # "fired"
          /\ releasing' = releasing \cup {p}
          /\ UNCHANGED <<phase, linked, opened, firing, planQueueVars>>
      BY <1>2 DEF CancelPlan
    <2>2. releasing' \in SUBSET Plans
      BY <2>1 DEF PlansTyped
    <2>3. QED
      BY <2>1, <2>2, PlanSet, SamePlans DEF PlanQuiet
  <1>3. ASSUME NEW p \in Plans, ReleaseJob(p) PROVE PlanQuiet
    <2>1. /\ PlanQueue!Cancel(p) /\ releasing' = releasing \ {p}
          /\ UNCHANGED <<plan, phase, linked, opened, firing>>
      BY <1>3 DEF ReleaseJob
    <2>2. PlanQueueOK' /\ releasing' \in SUBSET Plans
      BY <2>1, PlanQueueKept DEF PlansTyped
    <2>3. QED
      BY <2>1, <2>2, SamePlans DEF PlanQuiet
  <1>4. ASSUME NEW p \in Plans, CancelDies(p) PROVE PlanQuiet
    <2>1. /\ releasing' = releasing \ {p}
          /\ UNCHANGED <<plan, phase, linked, opened, firing, planQueueVars>>
      BY <1>4 DEF CancelDies
    <2>2. releasing' \in SUBSET Plans
      BY <2>1 DEF PlansTyped
    <2>3. QED
      BY <2>1, <2>2, SamePlans DEF PlanQuiet
  <1>5. ASSUME NEW p \in Plans, TimePasses(p) PROVE PlanQuiet
    <2>1. /\ phase' = [phase EXCEPT ![p] = IF @ = "early" THEN "due" ELSE "late"]
          /\ UNCHANGED <<plan, linked, opened, releasing, firing, planQueueVars>>
      BY <1>5 DEF TimePasses
    <2>2. phase' \in PhaseType
      BY <2>1 DEF PlansTyped, PhaseType
    <2>3. QED
      BY <2>1, <2>2, SamePlans DEF PlanQuiet
  <1>6. ASSUME ReadPanel PROVE PlanQuiet
    <2>1. /\ plan' = [p \in Plans |-> IF plan[p] = "planned" /\ phase[p] = "late"
                                      THEN "missed" ELSE plan[p]]
          /\ UNCHANGED <<phase, linked, opened, releasing, firing, planQueueVars>>
      BY <1>6 DEF ReadPanel
    <2>2. /\ plan' \in PlanType
          /\ \A p \in Plans : plan'[p] = plan[p] \/ (plan[p] # "fired" /\ plan'[p] # "fired")
      BY <2>1 DEF PlansTyped, PlanType, EVAL_PLANNED_RUN_STATUS
    <2>3. QED
      BY <2>1, <2>2, SamePlans DEF PlanQuiet
  <1>7. ASSUME NEW j \in PlanJobIds, FiringExpires(j) \/ FiringStalls(j)
        PROVE  PlanQuiet
    <2>1. /\ PlanQueue!Expire(j)
          /\ UNCHANGED <<plan, phase, linked, opened, releasing, firing>>
      BY <1>7 DEF FiringExpires, FiringStalls
    <2>2. PlanQueueOK'
      BY <2>1, PlanQueueKept DEF PlansTyped
    <2>3. QED
      BY <2>1, <2>2, SamePlans DEF PlanQuiet
  <1>8. CASE UNCHANGED planVars
    <2>1. UNCHANGED <<plan, phase, linked, opened, releasing, firing, planQueueVars>>
      BY <1>8 DEF planVars, planQueueVars
    <2>2. QED
      BY <2>1, SamePlans DEF PlanQuiet
  <1>9. QED
    BY <1>1, <1>2, <1>3, <1>4, <1>5, <1>6, <1>7, <1>8

(* The firing worker, but for its claim and what follows it.               *)
WorkerQuiet(w) ==
    \/ ReadPlan(w) \/ MarkMissed(w)
    \/ Claim(w) /\ plan[firing[w].plan] # "planned"
    \/ FiringBreaks(w) \/ FiringDies(w)
    \/ \E j \in PlanJobIds : StartFiring(w, j) \/ StartMissing(w, j)

LEMMA WorkersQuiet ==
  ASSUME PlansTyped, mishaps \in Mishaps, NEW w \in PlanHandlers, WorkerQuiet(w)
  PROVE  PlanQuiet
  <1>1. firing \in [PlanHandlers -> Firing] /\ PlanQueueOK
    BY DEF PlansTyped
  <1>2. ASSUME Done(w), firing[w].step \notin {"open", "link"}
        PROVE  /\ PlanQueueOK' /\ firing' \in [PlanHandlers -> Firing]
               /\ firing'[w].step = "idle"
               /\ \A v \in PlanHandlers : v # w => firing'[v] = firing[v]
    BY <1>1, <1>2, FiringRests, PlanQueueKept DEF Done
  <1>3. CASE ReadPlan(w)
    <2>1. /\ firing[w].step = "read" /\ firing[w].plan \in Plans
          /\ UNCHANGED <<plan, phase, linked, opened, releasing>>
      BY <1>3 DEF ReadPlan, PlansTyped
    <2>2. CASE Done(w)
      BY <1>2, <2>1, <2>2, SamePlans DEF PlanQuiet
    <2>3. ASSUME NEW step \in {"markMissed", "claim"}, GoOn(w, step)
          PROVE  PlanQuiet
      <3>1. /\ firing' \in [PlanHandlers -> Firing] /\ firing'[w].step = step
            /\ firing'[w].plan = firing[w].plan
            /\ \A v \in PlanHandlers : v # w => firing'[v] = firing[v]
        BY <1>1, <2>3, FiringGoes
      <3>2. PlanQueueOK'
        BY <2>3, SamePlans DEF GoOn
      <3>3. QED
        BY <2>1, <3>1, <3>2, SamePlans DEF PlanQuiet
    <2>4. QED
      BY <1>3, <2>2, <2>3 DEF ReadPlan
  <1>4. CASE MarkMissed(w)
    <2>1. /\ firing[w].step \in {"markMissed", "repair"} /\ firing[w].plan \in Plans
          /\ UNCHANGED <<phase, linked, opened, releasing>> /\ Done(w)
      BY <1>4 DEF MarkMissed, PlansTyped
    <2>2. /\ plan' \in PlanType
          /\ \A p \in Plans : plan'[p] = plan[p] \/ (plan[p] # "fired" /\ plan'[p] # "fired")
      <3>1. CASE plan[firing[w].plan] = "planned"
        BY <1>4, <2>1, <3>1, PlanSet DEF MarkMissed
      <3>2. CASE plan[firing[w].plan] # "planned"
        BY <1>4, <3>2, SamePlans DEF MarkMissed
      <3>3. QED
        BY <3>1, <3>2
    <2>3. QED
      BY <1>2, <2>1, <2>2, SamePlans DEF PlanQuiet
  <1>5. CASE Claim(w) /\ plan[firing[w].plan] # "planned"
    <2>1. /\ firing[w].step = "claim" /\ Done(w)
          /\ UNCHANGED <<plan, phase, linked, opened, releasing>>
      BY <1>5 DEF Claim
    <2>2. QED
      BY <1>2, <2>1, SamePlans DEF PlanQuiet
  <1>6. CASE FiringBreaks(w) \/ FiringDies(w)
    <2>1. /\ firing' = [firing EXCEPT ![w] = AtRest]
          /\ PlanQueue!Fail(w) \/ PlanQueue!Abandon(w)
          /\ UNCHANGED <<plan, phase, linked, opened, releasing>>
      BY <1>6 DEF FiringBreaks, FiringDies
    <2>2. /\ firing' \in [PlanHandlers -> Firing] /\ firing'[w].step = "idle"
          /\ \A v \in PlanHandlers : v # w => firing'[v] = firing[v]
      BY <1>1, <2>1, FiringRests
    <2>3. PlanQueueOK'
      BY <1>1, <2>1, PlanQueueKept
    <2>4. firing[w].step \in {"open", "link"} => Lost' > 0
      <3>1. CASE FiringBreaks(w)
        <4>1. mishaps' \in Mishaps /\ mishaps'.failures = mishaps.failures + 1
          BY <3>1, FailureHappens DEF FiringBreaks, NoFewer
        <4>2. mishaps'.crashes \in Nat /\ mishaps.failures \in Nat
          BY <4>1, MishapBounds DEF Mishaps
        <4>3. QED
          BY <4>1, <4>2 DEF Lost
      <3>2. CASE FiringDies(w) /\ firing[w].step # "repair"
        <4>1. mishaps' \in Mishaps /\ mishaps'.crashes = mishaps.crashes + 1
          BY <3>2, CrashHappens DEF FiringDies, NoFewer
        <4>2. mishaps'.failures \in Nat /\ mishaps.crashes \in Nat
          BY <4>1, MishapBounds DEF Mishaps
        <4>3. QED
          BY <4>1, <4>2 DEF Lost
      <3>3. QED
        BY <1>6, <3>1, <3>2
    <2>5. QED
      BY <2>1, <2>2, <2>3, <2>4, SamePlans DEF PlanQuiet
  <1>7. ASSUME NEW j \in PlanJobIds, StartFiring(w, j) \/ StartMissing(w, j)
        PROVE  PlanQuiet
    <2>1. /\ PlanQueue!Fetch(w, j) \/ PlanQueue!FetchDead(w, j)
          /\ firing[w].step = "idle"
          /\ UNCHANGED <<plan, phase, linked, opened, releasing>>
      BY <1>7 DEF StartFiring, StartMissing
    <2>2. planJobs[j].item \in Plans
      BY <1>1, <2>1 DEF PlanQueueOK, PlanQueue!Fetch, PlanQueue!FetchDead
    <2>3. PICK p \in Plans : p = planJobs[j].item
      BY <2>2
    <2>4. PICK step \in {"read", "repair"} :
             firing' = [firing EXCEPT ![w] = [AtRest EXCEPT !.step = step, !.plan = p]]
      BY <1>7, <2>3 DEF StartFiring, StartMissing
    <2>5. /\ firing' \in [PlanHandlers -> Firing] /\ firing'[w].step = step
          /\ firing'[w].plan = p
          /\ \A v \in PlanHandlers : v # w => firing'[v] = firing[v]
      BY <1>1, <2>4, FiringStarts
    <2>6. PlanQueueOK'
      BY <1>1, <2>1, PlanQueueKept
    <2>7. QED
      BY <2>1, <2>5, <2>6, SamePlans DEF PlanQuiet
  <1>8. QED
    BY <1>3, <1>4, <1>5, <1>6, <1>7 DEF WorkerQuiet

-----------------------------------------------------------------------------
(* What a step keeps of the plans.                                         *)

PlansSound == PlansTyped /\ PlansInv /\ FiredHasRun

LEMMA PlanTypeParts ==
  /\ PlansTypeOK /\ PlansInv => PlansTyped
  /\ PlansTyped /\ RunsTypeOK => PlansTypeOK
  BY DEF PlansTypeOK, PlansTyped, PlansInv, PlanQueueOK, PlanType, PhaseType

RunsStand == \A r \in Runs : run[r].status # "absent" => run'[r].status # "absent"

LEMMA LostStands ==
  ASSUME mishaps \in Mishaps, NoFewer
  PROVE  Lost > 0 => Lost' > 0
  <1>1. /\ mishaps.crashes \in Nat /\ mishaps.failures \in Nat
        /\ mishaps'.crashes \in Nat /\ mishaps'.failures \in Nat
    BY MishapBounds DEF Mishaps, NoFewer
  <1>2. QED
    BY <1>1 DEF NoFewer, Lost

(* A step that fires nothing, opens nothing and links nothing.             *)
LEMMA QuietKeeps ==
  ASSUME PlansSound, mishaps \in Mishaps, PlanQuiet, RunsStand, NoFewer
  PROVE  PlansSound'
  <1>1. PlansTyped'
    <2>1. /\ linked' \in [Plans -> Runs \cup {"none"}] /\ opened' \in [Plans -> SUBSET Runs]
      BY DEF PlansSound, PlansTyped, PlanQuiet
    <2>2. \A w \in PlanHandlers : firing'[w].step # "idle" => firing'[w].plan \in Plans
      BY DEF PlansSound, PlansTyped, PlanQuiet
    <2>3. QED
      BY <2>1, <2>2 DEF PlanQuiet, PlansTyped, PlanType, PhaseType
  <1>2. \A w \in PlanHandlers : firing'[w].step \in {"open", "link"} => firing'[w] = firing[w]
    BY DEF PlanQuiet
  <1>3. \A p \in Plans : (plan'[p] = "fired") <=> (plan[p] = "fired")
    BY DEF PlanQuiet
  <1>4. opened' = opened /\ linked' = linked /\ \A p \in Plans : opened[p] \in SUBSET Runs
    BY DEF PlanQuiet, PlansSound, PlansTyped
  <1>5. PlansInv'
    <2>1. /\ \A w \in PlanHandlers : firing'[w].step # "idle" => firing'[w].plan \in Plans
          /\ \A j \in PlanJobIds : planJobs'[j].state # "free" => planJobs'[j].item \in Plans
      BY <1>1 DEF PlansTyped, PlanQueueOK
    <2>2. /\ \A w \in PlanHandlers : firing'[w].step = "open" => opened'[firing'[w].plan] = {}
          /\ \A w \in PlanHandlers :
                firing'[w].step = "link" => firing'[w].run \in opened'[firing'[w].plan]
      BY <1>2, <1>4 DEF PlansSound, PlansInv
    <2>3. \A w \in PlanHandlers, p \in Plans : Claimed(w, p)' => Claimed(w, p)
      BY <1>2 DEF Claimed
    <2>4. /\ \A v, w \in PlanHandlers, p \in Plans : Claimed(v, p)' /\ Claimed(w, p)' => v = w
          /\ \A w \in PlanHandlers, p \in Plans : Claimed(w, p)' => plan'[p] = "fired"
      BY <1>3, <2>3 DEF PlansSound, PlansInv
    <2>5. /\ \A p \in Plans : plan'[p] # "fired" => opened'[p] = {}
          /\ \A p \in Plans : \A r \in opened'[p] : run'[r].status # "absent"
      BY <1>3, <1>4 DEF PlansSound, PlansInv, RunsStand
    <2>6. QED
      BY <2>1, <2>2, <2>4, <2>5 DEF PlansInv
  <1>6. FiredHasRun'
    <2>1. SUFFICES ASSUME NEW p \in Plans, plan'[p] = "fired"
                   PROVE  \/ linked'[p] \in opened'[p]
                          \/ \E w \in PlanHandlers :
                                firing'[w].plan = p /\ firing'[w].step \in {"open", "link"}
                          \/ Lost' > 0
      BY DEF FiredHasRun, Lost
    <2>2. \/ linked[p] \in opened[p]
          \/ \E w \in PlanHandlers :
                firing[w].plan = p /\ firing[w].step \in {"open", "link"}
          \/ Lost > 0
      BY <1>3, <2>1 DEF FiredHasRun, Lost, PlansSound
    <2>3. QED
      BY <1>4, <2>2, LostStands DEF PlanQuiet
  <1>7. QED
    BY <1>1, <1>5, <1>6 DEF PlansSound

(* The worker claims its plan, opens a run for it, and links the two.      *)
LEMMA ClaimKeeps ==
  ASSUME PlansSound, NEW w \in PlanHandlers, Claim(w), plan[firing[w].plan] = "planned"
  PROVE  PlansSound'
  <1>1. /\ PlansTyped /\ PlansInv /\ FiredHasRun /\ firing \in [PlanHandlers -> Firing]
        /\ plan \in PlanType
    BY DEF PlansSound, PlansTyped
  <1>2. PICK p \in Plans : p = firing[w].plan
    BY <1>1 DEF Claim, PlansTyped
  <1>3. /\ firing[w].step = "claim" /\ plan[p] = "planned"
        /\ plan' = [plan EXCEPT ![p] = "fired"] /\ GoOn(w, "open")
        /\ UNCHANGED <<phase, linked, opened, releasing, run, mishaps, planQueueVars>>
    BY <1>2 DEF Claim, GoOn, runVars
  <1>4. /\ firing' \in [PlanHandlers -> Firing] /\ firing'[w].step = "open"
        /\ firing'[w].plan = p
        /\ \A v \in PlanHandlers : v # w => firing'[v] = firing[v]
    BY <1>1, <1>2, <1>3, FiringGoes
  <1>5. /\ plan' \in PlanType /\ plan'[p] = "fired"
        /\ \A q \in Plans : q # p => plan'[q] = plan[q]
    BY <1>1, <1>3 DEF PlanType, EVAL_PLANNED_RUN_STATUS
  <1>6. PlanQueueOK' /\ PlanQueueOK
    BY <1>1, <1>3, PlanQueueKept DEF PlansTyped
  <1>7. PlansTyped'
    <2>1. \A v \in PlanHandlers : firing'[v].step # "idle" => firing'[v].plan \in Plans
      BY <1>1, <1>4 DEF PlansTyped
    <2>2. QED
      BY <1>1, <1>3, <1>4, <1>5, <1>6, <2>1 DEF PlansTyped, PhaseType
  <1>8. opened[p] = {} /\ \A v \in PlanHandlers : ~Claimed(v, p)
    BY <1>1, <1>3 DEF PlansInv
  <1>9. PlansInv'
    <2>1. /\ \A v \in PlanHandlers : firing'[v].step # "idle" => firing'[v].plan \in Plans
          /\ \A j \in PlanJobIds : planJobs'[j].state # "free" => planJobs'[j].item \in Plans
      BY <1>7 DEF PlansTyped, PlanQueueOK
    <2>2. /\ \A v \in PlanHandlers : firing'[v].step = "open" => opened'[firing'[v].plan] = {}
          /\ \A v \in PlanHandlers :
                firing'[v].step = "link" => firing'[v].run \in opened'[firing'[v].plan]
      BY <1>1, <1>3, <1>4, <1>8, SMTT(30) DEF PlansInv
    <2>3. \A v \in PlanHandlers, q \in Plans :
             Claimed(v, q)' => (v = w /\ q = p) \/ (v # w /\ q # p /\ Claimed(v, q))
      BY <1>4, <1>8 DEF Claimed
    <2>4. /\ \A u, v \in PlanHandlers, q \in Plans : Claimed(u, q)' /\ Claimed(v, q)' => u = v
          /\ \A v \in PlanHandlers, q \in Plans : Claimed(v, q)' => plan'[q] = "fired"
      BY <1>1, <1>5, <2>3 DEF PlansInv
    <2>5. /\ \A q \in Plans : plan'[q] # "fired" => opened'[q] = {}
          /\ \A q \in Plans : \A r \in opened'[q] : run'[r].status # "absent"
      BY <1>1, <1>3, <1>5 DEF PlansInv
    <2>6. QED
      BY <2>1, <2>2, <2>4, <2>5 DEF PlansInv
  <1>10. FiredHasRun'
    <2>1. SUFFICES ASSUME NEW q \in Plans, plan'[q] = "fired"
                   PROVE  \/ linked'[q] \in opened'[q]
                          \/ \E v \in PlanHandlers :
                                firing'[v].plan = q /\ firing'[v].step \in {"open", "link"}
                          \/ Lost' > 0
      BY DEF FiredHasRun, Lost
    <2>2. CASE q = p
      BY <1>4, <2>2
    <2>3. CASE q # p
      <3>1. \/ linked[q] \in opened[q]
            \/ \E v \in PlanHandlers :
                  firing[v].plan = q /\ firing[v].step \in {"open", "link"}
            \/ Lost > 0
        BY <1>1, <1>5, <2>1, <2>3 DEF FiredHasRun, Lost
      <3>2. (Lost > 0) => Lost' > 0
        BY <1>3 DEF Lost
      <3>3. QED
        BY <1>3, <1>4, <3>1, <3>2
    <2>4. QED
      BY <2>2, <2>3
  <1>11. QED
    BY <1>7, <1>9, <1>10 DEF PlansSound

LEMMA OpenKeeps ==
  ASSUME PlansSound, NEW w \in PlanHandlers, NEW r \in Runs, OpenRun(w, r), Opens(r)
  PROVE  PlansSound'
  <1>1. /\ PlansTyped /\ PlansInv /\ FiredHasRun /\ firing \in [PlanHandlers -> Firing]
        /\ opened \in [Plans -> SUBSET Runs]
    BY DEF PlansSound, PlansTyped
  <1>2. PICK p \in Plans : p = firing[w].plan
    BY <1>1 DEF OpenRun, PlansTyped
  <1>3. /\ firing[w].step = "open" /\ opened[p] = {}
        /\ opened' = [opened EXCEPT ![p] = @ \cup {r}]
        /\ firing' = [firing EXCEPT ![w].step = "link", ![w].run = r]
        /\ UNCHANGED <<plan, phase, linked, releasing, planQueueVars>>
    BY <1>1, <1>2 DEF OpenRun, PlansInv
  <1>4. /\ firing' \in [PlanHandlers -> Firing] /\ firing'[w].step = "link"
        /\ firing'[w].plan = p /\ firing'[w].run = r
        /\ \A v \in PlanHandlers : v # w => firing'[v] = firing[v]
    BY <1>1, <1>2, <1>3, FiringLinks
  <1>5. /\ opened' \in [Plans -> SUBSET Runs] /\ opened'[p] = {r}
        /\ \A q \in Plans : q # p => opened'[q] = opened[q]
    BY <1>1, <1>3
  <1>6. PlanQueueOK'
    BY <1>1, <1>3, PlanQueueKept DEF PlansTyped
  <1>7. PlansTyped'
    <2>1. \A v \in PlanHandlers : firing'[v].step # "idle" => firing'[v].plan \in Plans
      BY <1>1, <1>4 DEF PlansTyped
    <2>2. QED
      BY <1>1, <1>3, <1>4, <1>5, <1>6, <2>1 DEF PlansTyped, PlanType, PhaseType
  <1>8. /\ Claimed(w, p) /\ plan[p] = "fired"
        /\ \A v \in PlanHandlers : Claimed(v, p) => v = w
    BY <1>1, <1>2, <1>3 DEF PlansInv, Claimed
  <1>9. PlansInv'
    <2>1. /\ \A v \in PlanHandlers : firing'[v].step # "idle" => firing'[v].plan \in Plans
          /\ \A j \in PlanJobIds : planJobs'[j].state # "free" => planJobs'[j].item \in Plans
      BY <1>7 DEF PlansTyped, PlanQueueOK
    <2>2. \A v \in PlanHandlers, q \in Plans : Claimed(v, q)' => Claimed(v, q)
      BY <1>2, <1>3, <1>4 DEF Claimed
    <2>3. \A v \in PlanHandlers : v # w /\ firing'[v].step \in {"open", "link"} =>
                                     firing'[v].plan \in Plans \ {p}
      BY <1>4, <1>8, <2>1 DEF Claimed
    <2>4. /\ \A v \in PlanHandlers : firing'[v].step = "open" => opened'[firing'[v].plan] = {}
          /\ \A v \in PlanHandlers :
                firing'[v].step = "link" => firing'[v].run \in opened'[firing'[v].plan]
      BY <1>1, <1>4, <1>5, <2>3 DEF PlansInv
    <2>5. /\ \A u, v \in PlanHandlers, q \in Plans : Claimed(u, q)' /\ Claimed(v, q)' => u = v
          /\ \A v \in PlanHandlers, q \in Plans : Claimed(v, q)' => plan'[q] = "fired"
      BY <1>1, <1>3, <2>2 DEF PlansInv
    <2>6. \A q \in Plans : plan'[q] # "fired" => opened'[q] = {}
      BY <1>1, <1>3, <1>5, <1>8 DEF PlansInv
    <2>7. \A q \in Plans : \A s \in opened'[q] : run'[s].status # "absent"
      BY <1>1, <1>5 DEF PlansInv, Opens
    <2>8. QED
      BY <2>1, <2>4, <2>5, <2>6, <2>7 DEF PlansInv
  <1>10. FiredHasRun'
    <2>1. SUFFICES ASSUME NEW q \in Plans, plan'[q] = "fired"
                   PROVE  \/ linked'[q] \in opened'[q]
                          \/ \E v \in PlanHandlers :
                                firing'[v].plan = q /\ firing'[v].step \in {"open", "link"}
                          \/ Lost' > 0
      BY DEF FiredHasRun, Lost
    <2>2. CASE q = p
      BY <1>4, <2>2
    <2>3. CASE q # p
      <3>1. \/ linked[q] \in opened[q]
            \/ \E v \in PlanHandlers :
                  firing[v].plan = q /\ firing[v].step \in {"open", "link"}
            \/ Lost > 0
        BY <1>1, <1>3, <2>1 DEF FiredHasRun, Lost
      <3>2. (Lost > 0) => Lost' > 0
        BY DEF Lost, Opens
      <3>3. QED
        BY <1>2, <1>3, <1>4, <1>5, <2>3, <3>1, <3>2
    <2>4. QED
      BY <2>2, <2>3
  <1>11. QED
    BY <1>7, <1>9, <1>10 DEF PlansSound

LEMMA LinkKeeps ==
  ASSUME PlansSound, NEW w \in PlanHandlers, LinkRun(w)
  PROVE  PlansSound'
  <1>1. /\ PlansTyped /\ PlansInv /\ FiredHasRun /\ firing \in [PlanHandlers -> Firing]
        /\ linked \in [Plans -> Runs \cup {"none"}] /\ opened \in [Plans -> SUBSET Runs]
    BY DEF PlansSound, PlansTyped
  <1>2. PICK p \in Plans : p = firing[w].plan
    BY <1>1 DEF LinkRun, PlansTyped
  <1>3. PICK r \in Runs : r = firing[w].run
    BY <1>1, <1>2 DEF LinkRun, PlansInv
  <1>4. /\ firing[w].step = "link" /\ r \in opened[p]
        /\ linked' = [linked EXCEPT ![p] = r]
        /\ PlanQueue!Complete(w) /\ firing' = [firing EXCEPT ![w] = AtRest]
        /\ UNCHANGED <<plan, phase, opened, releasing, run, mishaps>>
    BY <1>1, <1>2, <1>3 DEF LinkRun, PlansInv, Done, runVars
  <1>5. /\ firing' \in [PlanHandlers -> Firing] /\ firing'[w].step = "idle"
        /\ \A v \in PlanHandlers : v # w => firing'[v] = firing[v]
    BY <1>1, <1>4, FiringRests
  <1>6. /\ linked' \in [Plans -> Runs \cup {"none"}] /\ linked'[p] = r
        /\ \A q \in Plans : q # p => linked'[q] = linked[q]
    BY <1>1, <1>4
  <1>7. PlanQueueOK'
    BY <1>1, <1>4, PlanQueueKept DEF PlansTyped
  <1>8. PlansTyped'
    <2>1. \A v \in PlanHandlers : firing'[v].step # "idle" => firing'[v].plan \in Plans
      BY <1>1, <1>5 DEF PlansTyped
    <2>2. QED
      BY <1>1, <1>4, <1>5, <1>6, <1>7, <2>1 DEF PlansTyped, PlanType, PhaseType
  <1>9. PlansInv'
    <2>1. /\ \A v \in PlanHandlers : firing'[v].step # "idle" => firing'[v].plan \in Plans
          /\ \A j \in PlanJobIds : planJobs'[j].state # "free" => planJobs'[j].item \in Plans
      BY <1>8 DEF PlansTyped, PlanQueueOK
    <2>2. \A v \in PlanHandlers : firing'[v].step # "idle" => firing'[v] = firing[v]
      BY <1>5
    <2>3. /\ \A v \in PlanHandlers : firing'[v].step = "open" => opened'[firing'[v].plan] = {}
          /\ \A v \in PlanHandlers :
                firing'[v].step = "link" => firing'[v].run \in opened'[firing'[v].plan]
      BY <1>1, <1>4, <2>2 DEF PlansInv
    <2>4. \A v \in PlanHandlers, q \in Plans : Claimed(v, q)' => Claimed(v, q)
      BY <2>2 DEF Claimed
    <2>5. /\ \A u, v \in PlanHandlers, q \in Plans : Claimed(u, q)' /\ Claimed(v, q)' => u = v
          /\ \A v \in PlanHandlers, q \in Plans : Claimed(v, q)' => plan'[q] = "fired"
      BY <1>1, <1>4, <2>4 DEF PlansInv
    <2>6. /\ \A q \in Plans : plan'[q] # "fired" => opened'[q] = {}
          /\ \A q \in Plans : \A s \in opened'[q] : run'[s].status # "absent"
      BY <1>1, <1>4 DEF PlansInv
    <2>7. QED
      BY <2>1, <2>3, <2>5, <2>6 DEF PlansInv
  <1>10. FiredHasRun'
    <2>1. SUFFICES ASSUME NEW q \in Plans, plan'[q] = "fired"
                   PROVE  \/ linked'[q] \in opened'[q]
                          \/ \E v \in PlanHandlers :
                                firing'[v].plan = q /\ firing'[v].step \in {"open", "link"}
                          \/ Lost' > 0
      BY DEF FiredHasRun, Lost
    <2>2. CASE q = p
      BY <1>4, <1>6, <2>2
    <2>3. CASE q # p
      <3>1. \/ linked[q] \in opened[q]
            \/ \E v \in PlanHandlers :
                  firing[v].plan = q /\ firing[v].step \in {"open", "link"}
            \/ Lost > 0
        BY <1>1, <1>4, <2>1 DEF FiredHasRun, Lost
      <3>2. (Lost > 0) => Lost' > 0
        BY <1>4 DEF Lost
      <3>3. QED
        BY <1>2, <1>4, <1>5, <1>6, <2>3, <3>1, <3>2
    <2>4. QED
      BY <2>2, <2>3
  <1>11. QED
    BY <1>8, <1>9, <1>10 DEF PlansSound

-----------------------------------------------------------------------------
(* Plans and runs together.                                                *)

LEMMA RunStepKinds ==
  ASSUME RunsInv, RunsNext \/ Asked
  PROVE  \/ \E w \in Handlers : Left(w) \/ Onward(w)
         \/ \E w \in Handlers, j \in JobIds : Begins(w, j)
         \/ \E j \in JobIds : Expires(j)
         \/ \E r \in Runs : Opens(r)
         \/ Elsewhere
  <1>1. RunsTypeOK /\ QueueInv /\ LoopInv
    BY DEF RunsInv
  <1>2. \A w \in Handlers : (Leaves(w) => Left(w)) /\ (Goes(w) => Onward(w))
    BY <1>1, LeaverLeft, StepsOnward DEF Goes
  <1>3. QED
    BY <1>1, <1>2, StepsOfRuns DEF Goes

(* No run is ever taken back.                                              *)
LEMMA StepStands ==
  ASSUME RunsInv, RunsNext \/ Asked
  PROVE  RunsStand
  <1>1. \A w \in Handlers : Left(w) => RunsStand
    BY DEF Left, RunsStand
  <1>2. \A r \in Runs : Opens(r) => RunsStand
    BY DEF Opens, RunsStand
  <1>3. UNCHANGED run => RunsStand
    BY DEF RunsStand
  <1>4. QED
    BY <1>1, <1>2, <1>3, RunStepKinds DEF Onward, Begins, Expires, Elsewhere

(* What is left of a step of the plans for the runs: mishaps.              *)
Apart == UNCHANGED runRest /\ NoFewer

LEMMA ApartKeeps ==
  ASSUME RunsInv, Apart
  PROVE  RunsInv' /\ RunsStand
  <1>1. Elsewhere
    BY DEF Apart, Elsewhere, runRest
  <1>2. QED
    BY <1>1, RunsKept DEF Apart, RunsStand, runRest

LEMMA SameApart ==
  ASSUME mishaps \in Mishaps, UNCHANGED runVars
  PROVE  Apart
  BY NoneHappens DEF Apart, runVars, runRest

(* A step of the plans opens a run, or leaves the runs alone.              *)
LEMMA PlanStepKinds ==
  ASSUME mishaps \in Mishaps, PlanStep
  PROVE  \/ /\ Apart
            /\ \/ \E p \in Plans : \/ PlanRun(p) \/ CancelPlan(p) \/ ReleaseJob(p)
                                   \/ CancelDies(p) \/ TimePasses(p)
               \/ ReadPanel
               \/ \E j \in PlanJobIds : FiringExpires(j) \/ FiringStalls(j)
               \/ \E w \in PlanHandlers :
                     \/ WorkerQuiet(w) \/ LinkRun(w)
                     \/ Claim(w) /\ plan[firing[w].plan] = "planned"
         \/ \E w \in PlanHandlers, r \in Runs : OpenRun(w, r)
  <1>1. ASSUME NEW p \in Plans,
               PlanRun(p) \/ CancelPlan(p) \/ ReleaseJob(p) \/ CancelDies(p) \/ TimePasses(p)
        PROVE  Apart
    <2>1. CASE CancelDies(p)
      BY <2>1, CrashHappens DEF CancelDies, Apart
    <2>2. CASE PlanRun(p) \/ CancelPlan(p) \/ ReleaseJob(p) \/ TimePasses(p)
      BY <2>2, SameApart DEF PlanRun, CancelPlan, ReleaseJob, TimePasses
    <2>3. QED
      BY <1>1, <2>1, <2>2
  <1>2. CASE ReadPanel
    BY <1>2, SameApart DEF ReadPanel
  <1>3. ASSUME NEW w \in PlanHandlers, FiringStep(w) \/ FiringBreaks(w) \/ FiringDies(w)
        PROVE  \/ /\ Apart
                  /\ \/ WorkerQuiet(w) \/ LinkRun(w)
                     \/ Claim(w) /\ plan[firing[w].plan] = "planned"
               \/ \E r \in Runs : OpenRun(w, r)
    <2>1. CASE ReadPlan(w) \/ MarkMissed(w)
      BY <2>1, SameApart DEF ReadPlan, MarkMissed, WorkerQuiet
    <2>2. CASE Claim(w)
      BY <2>2, SameApart DEF Claim, WorkerQuiet
    <2>3. CASE LinkRun(w)
      BY <2>3, SameApart DEF LinkRun
    <2>4. CASE FiringBreaks(w)
      BY <2>4, FailureHappens DEF FiringBreaks, WorkerQuiet, Apart
    <2>5. CASE FiringDies(w)
      BY <2>5, CrashHappens, RepairCrashHappens DEF FiringDies, WorkerQuiet, Apart
    <2>6. QED
      BY <1>3, <2>1, <2>2, <2>3, <2>4, <2>5 DEF FiringStep
  <1>4. ASSUME NEW w \in PlanHandlers, NEW j \in PlanJobIds,
               StartFiring(w, j) \/ StartMissing(w, j)
        PROVE  Apart /\ WorkerQuiet(w)
    BY <1>4, SameApart DEF StartFiring, StartMissing, WorkerQuiet
  <1>5. ASSUME NEW j \in PlanJobIds, FiringExpires(j) \/ FiringStalls(j)
        PROVE  Apart
    <2>1. CASE FiringExpires(j)
      BY <2>1, SameApart DEF FiringExpires
    <2>2. CASE FiringStalls(j)
      BY <2>2, StallHappens DEF FiringStalls, Apart
    <2>3. QED
      BY <1>5, <2>1, <2>2
  <1>6. QED
    BY <1>1, <1>2, <1>3, <1>4, <1>5 DEF PlanStep

LEMMA OpenRunOpens ==
  ASSUME RunsInv, NEW w \in PlanHandlers, NEW r \in Runs, OpenRun(w, r)
  PROVE  Opens(r)
  BY StartOpens, EvalPlansAssumption DEF OpenRun, RunsInv

(* The inductive invariant of the whole.                                   *)
Sound == PlansSound /\ RunsInv

LEMMA SoundKept ==
  ASSUME Sound, [PlansNext]_evalVars
  PROVE  Sound'
  <1>1. PlansSound /\ RunsInv /\ PlansTyped /\ mishaps \in Mishaps
    BY DEF Sound, PlansSound, RunsInv, RunsTypeOK
  <1>2. ASSUME NEW w \in PlanHandlers, NEW r \in Runs, OpenRun(w, r)
        PROVE  Sound'
    <2>1. Opens(r)
      BY <1>1, <1>2, OpenRunOpens
    <2>2. QED
      BY <1>1, <1>2, <2>1, OpenKeeps, RunsKept DEF Sound
  <1>3. ASSUME Apart,
               \/ \E p \in Plans : \/ PlanRun(p) \/ CancelPlan(p) \/ ReleaseJob(p)
                                   \/ CancelDies(p) \/ TimePasses(p)
               \/ ReadPanel
               \/ \E j \in PlanJobIds : FiringExpires(j) \/ FiringStalls(j)
               \/ \E w \in PlanHandlers :
                     \/ WorkerQuiet(w) \/ LinkRun(w)
                     \/ Claim(w) /\ plan[firing[w].plan] = "planned"
        PROVE  Sound'
    <2>1. RunsInv' /\ RunsStand /\ NoFewer
      BY <1>1, <1>3, ApartKeeps DEF Apart
    <2>2. PlansSound'
      <3>1. PlanQuiet => PlansSound'
        BY <1>1, <2>1, QuietKeeps
      <3>2. QED
        BY <1>1, <1>3, <3>1, RoutesQuiet, WorkersQuiet, LinkKeeps, ClaimKeeps
    <2>3. QED
      BY <2>1, <2>2 DEF Sound
  <1>4. CASE RunStep
    <2>1. RunsInv' /\ RunsStand /\ NoFewer /\ UNCHANGED planVars
      BY <1>1, <1>4, RunsStepKept, StepStands DEF RunStep
    <2>2. QED
      BY <1>1, <2>1, RoutesQuiet, QuietKeeps DEF Sound
  <1>5. CASE UNCHANGED evalVars
    <2>1. UNCHANGED planVars /\ UNCHANGED runVars
      BY <1>5 DEF evalVars, planVars, runVars
    <2>2. Apart
      BY <1>1, <2>1, SameApart
    <2>3. RunsInv' /\ RunsStand /\ NoFewer
      BY <1>1, <2>2, ApartKeeps DEF Apart
    <2>4. QED
      BY <1>1, <2>1, <2>3, RoutesQuiet, QuietKeeps DEF Sound
  <1>6. QED
    BY <1>1, <1>2, <1>3, <1>4, <1>5, PlanStepKinds DEF PlansNext

LEMMA SoundStart == PlansInit => Sound
  <1> SUFFICES ASSUME PlansInit PROVE Sound
    OBVIOUS
  <1>1. RunsInv
    BY RunsStart DEF PlansInit
  <1>2. \A w \in PlanHandlers : firing[w].step = "idle"
    BY AtRestFiring DEF PlansInit
  <1>3. PlansTyped
    <2>1. /\ plan \in PlanType /\ phase \in PhaseType
          /\ linked \in [Plans -> Runs \cup {"none"}] /\ opened \in [Plans -> SUBSET Runs]
          /\ releasing \in SUBSET Plans
      BY DEF PlansInit, PlanType, PhaseType
    <2>2. firing \in [PlanHandlers -> Firing]
      BY AtRestFiring DEF PlansInit
    <2>3. PlanQueueOK
      BY PlanNoJob DEF PlansInit, PlanQueue!QueueInit, PlanQueueOK, PlanQueue!QueueTypeOK
    <2>4. QED
      BY <1>2, <2>1, <2>2, <2>3 DEF PlansTyped
  <1>4. PlansInv
    <2>1. \A j \in PlanJobIds : planJobs[j].state = "free"
      BY PlanNoJob DEF PlansInit, PlanQueue!QueueInit
    <2>2. \A p \in Plans : plan[p] = "absent" /\ opened[p] = {}
      BY DEF PlansInit
    <2>3. QED
      BY <1>2, <2>1, <2>2 DEF PlansInv, Claimed
  <1>5. FiredHasRun
    BY DEF PlansInit, FiredHasRun
  <1>6. QED
    BY <1>1, <1>3, <1>4, <1>5 DEF Sound, PlansSound

LEMMA SoundMeans == Sound => EvalInvariant
  BY RunsInvMeans, PlanTypeParts DEF Sound, PlansSound, RunsInv, EvalInvariant

(* Theorem: whatever is pressed, redelivered, killed, stalled or renamed,  *)
(* every state keeps EvalInvariant: a completed run answers every case it  *)
(* was asked for that the build still names and its headline is the sum of *)
(* its rows (the worker of jobs/eval-run.ts, resumed from what is stored); *)
(* an open run has its job or its dead-letter repair; a case is paid for   *)
(* once per mention and mishap; a fired plan has its run linked.           *)
THEOREM EvalsAreSound == PlansSpec => []EvalInvariant
  <1>1. PlansInit => Sound
    BY SoundStart
  <1>2. Sound /\ [PlansNext]_evalVars => Sound'
    BY SoundKept
  <1>3. Sound => EvalInvariant
    BY SoundMeans
  <1>4. QED
    BY <1>1, <1>2, <1>3, PTL DEF PlansSpec

-----------------------------------------------------------------------------
(* What is settled stands.                                                 *)

(* A run that is completed or failed keeps its status, its cases and its   *)
(* total, and a stored result is never overwritten.                        *)
SettledStands ==
    /\ \A r \in Runs : run[r].status \in {"completed", "failed"} => run'[r] = run[r]
    /\ \A r \in Runs, c \in Cases :
          results[r][c] # "none" => results'[r][c] = results[r][c]

LEMMA SettledKept ==
  ASSUME Sound, [PlansNext]_evalVars
  PROVE  SettledStands
  <1>1. RunsInv /\ mishaps \in Mishaps
    BY DEF Sound, RunsInv, RunsTypeOK
  <1>2. \A r \in Runs : Opens(r) => SettledStands
    BY DEF Opens, SettledStands
  <1>3. UNCHANGED <<run, results>> => SettledStands
    BY DEF SettledStands
  <1>4. \A w \in Handlers : Left(w) => SettledStands
    BY DEF Left, SettledStands
  <1>5. \A w \in Handlers : Onward(w) => SettledStands
    BY DEF Onward, ResultsStand, SettledStands
  <1>6. CASE PlanStep
    <2>1. Apart \/ \E r \in Runs : Opens(r)
      BY <1>1, <1>6, PlanStepKinds, OpenRunOpens
    <2>2. QED
      BY <1>2, <1>3, <2>1 DEF Apart, runRest
  <1>7. CASE RunStep
    <2>1. \/ \E w \in Handlers : Left(w) \/ Onward(w)
          \/ \E w \in Handlers, j \in JobIds : Begins(w, j)
          \/ \E j \in JobIds : Expires(j)
          \/ \E r \in Runs : Opens(r)
          \/ Elsewhere
      BY <1>1, <1>7, RunStepKinds DEF RunStep
    <2>2. QED
      BY <1>2, <1>3, <1>4, <1>5, <2>1 DEF Begins, Expires, Elsewhere
  <1>8. CASE UNCHANGED evalVars
    BY <1>3, <1>8 DEF evalVars
  <1>9. QED
    BY <1>6, <1>7, <1>8 DEF PlansNext

(* Theorem: whichever of a resumed delivery, a stalled worker that comes   *)
(* back and a dead-letter repair is last, a closed run of jobs/eval-run.ts *)
(* is not closed again and no stored case is measured over.                *)
THEOREM SettledIsFinal == PlansSpec => [][SettledStands]_evalVars
  <1>1. PlansInit => Sound
    BY SoundStart
  <1>2. Sound /\ [PlansNext]_evalVars => Sound'
    BY SoundKept
  <1>3. Sound /\ [PlansNext]_evalVars => SettledStands
    BY SettledKept
  <1>4. QED
    BY <1>1, <1>2, <1>3, PTL DEF PlansSpec

-----------------------------------------------------------------------------
(* The plans keep their promise.                                           *)

Fate == [p \in Plans |-> IF plan[p] = "absent" THEN "unmade" ELSE plan[p]]

LEMMA PlanDecides ==
  ASSUME plan \in PlanType, NEW p \in Plans,
         NEW status \in {"planned", "cancelled", "fired", "missed"},
         plan' = [plan EXCEPT ![p] = status]
  PROVE  Fate' = [Fate EXCEPT ![p] = status]
  BY DEF PlanType, Fate

LEMMA PromiseStart == PlansInit => Promised!Init
  BY DEF PlansInit, Promised!Init

(* Every step is one of the promise's, or none.                            *)
LEMMA PromiseStep ==
  ASSUME Sound, [PlansNext]_evalVars
  PROVE  [Promised!Next]_Promised!absVars
  <1>1. PlansTyped /\ PlansInv /\ RunsInv /\ plan \in PlanType /\ mishaps \in Mishaps
    BY DEF Sound, PlansSound, PlansTyped, RunsInv, RunsTypeOK
  <1>2. UNCHANGED <<plan, opened>> => UNCHANGED Promised!absVars
    BY DEF Promised!absVars
  <1>3. ASSUME NEW p \in Plans, PlanRun(p)
        PROVE  Promised!Make(p)
    BY <1>1, <1>3, PlanDecides DEF PlanRun, Promised!Make, Promised!Decide, Fate
  <1>4. ASSUME NEW p \in Plans, CancelPlan(p)
        PROVE  Promised!Cancel(p)
    BY <1>1, <1>4, PlanDecides DEF CancelPlan, Promised!Cancel, Promised!Decide, Fate
  <1>5. CASE ReadPanel
    <2>1. PICK S \in SUBSET Plans : S = {p \in Plans : plan[p] = "planned" /\ phase[p] = "late"}
      OBVIOUS
    <2>2. /\ plan' = [p \in Plans |-> IF p \in S THEN "missed" ELSE plan[p]]
          /\ opened' = opened
      BY <1>5, <2>1 DEF ReadPanel
    <2>3. Promised!Miss(S)
      BY <2>1, <2>2 DEF Promised!Miss
    <2>4. QED
      BY <2>3 DEF Promised!Next
  <1>6. ASSUME NEW w \in PlanHandlers, MarkMissed(w)
        PROVE  [Promised!Next]_Promised!absVars
    <2>1. PICK p \in Plans : p = firing[w].plan
      BY <1>1, <1>6 DEF MarkMissed, PlansTyped
    <2>2. /\ plan' = IF plan[p] = "planned" THEN [plan EXCEPT ![p] = "missed"] ELSE plan
          /\ opened' = opened
      BY <1>6, <2>1 DEF MarkMissed
    <2>3. CASE plan[p] = "planned"
      <3>1. Promised!Miss({p})
        BY <1>1, <2>2, <2>3 DEF Promised!Miss, PlanType
      <3>2. QED
        BY <3>1 DEF Promised!Next
    <2>4. CASE plan[p] # "planned"
      BY <1>2, <2>2, <2>4
    <2>5. QED
      BY <2>3, <2>4
  <1>7. ASSUME NEW w \in PlanHandlers, Claim(w)
        PROVE  [Promised!Next]_Promised!absVars
    <2>1. PICK p \in Plans : p = firing[w].plan
      BY <1>1, <1>7 DEF Claim, PlansTyped
    <2>2. CASE plan[p] = "planned"
      <3>1. plan' = [plan EXCEPT ![p] = "fired"] /\ opened' = opened
        BY <1>7, <2>1, <2>2 DEF Claim
      <3>2. Promised!Fire(p)
        BY <1>1, <2>2, <3>1, PlanDecides DEF Promised!Fire, Promised!Decide, Fate
      <3>3. QED
        BY <3>2 DEF Promised!Next
    <2>3. CASE plan[p] # "planned"
      BY <1>2, <1>7, <2>1, <2>3 DEF Claim
    <2>4. QED
      BY <2>2, <2>3
  <1>8. ASSUME NEW w \in PlanHandlers, NEW r \in Runs, OpenRun(w, r)
        PROVE  [Promised!Next]_Promised!absVars
    <2>1. PICK p \in Plans : p = firing[w].plan
      BY <1>1, <1>8 DEF OpenRun, PlansTyped
    <2>2. opened[p] = {} /\ plan[p] = "fired"
      BY <1>1, <1>8, <2>1 DEF OpenRun, PlansInv, Claimed
    <2>3. \A q \in Plans : r \notin opened[q]
      BY <1>1, <1>8 DEF OpenRun, StartEvalRun, PlansInv
    <2>4. /\ opened' = [opened EXCEPT ![p] = @ \cup {r}] /\ plan' = plan
          /\ opened \in [Plans -> SUBSET Runs]
      BY <1>1, <1>8, <2>1 DEF OpenRun, PlansTyped
    <2>5. opened' = [opened EXCEPT ![p] = {r}]
      BY <2>2, <2>4
    <2>6. Promised!Charge(p, r)
      BY <2>2, <2>3, <2>4, <2>5 DEF Promised!Charge
    <2>7. QED
      BY <2>6 DEF Promised!Next
  <1>9. ASSUME NEW p \in Plans, ReleaseJob(p) \/ CancelDies(p) \/ TimePasses(p)
        PROVE  UNCHANGED <<plan, opened>>
    BY <1>9 DEF ReleaseJob, CancelDies, TimePasses
  <1>10. ASSUME NEW w \in PlanHandlers,
                \/ ReadPlan(w) \/ LinkRun(w) \/ FiringBreaks(w) \/ FiringDies(w)
                \/ \E j \in PlanJobIds : StartFiring(w, j) \/ StartMissing(w, j)
         PROVE  UNCHANGED <<plan, opened>>
    BY <1>10 DEF ReadPlan, LinkRun, FiringBreaks, FiringDies, StartFiring, StartMissing
  <1>11. ASSUME NEW j \in PlanJobIds, FiringExpires(j) \/ FiringStalls(j)
         PROVE  UNCHANGED <<plan, opened>>
    BY <1>11 DEF FiringExpires, FiringStalls
  <1>12. RunStep \/ UNCHANGED evalVars => UNCHANGED <<plan, opened>>
    BY DEF RunStep, planVars, evalVars
  <1>13. QED
    BY <1>2, <1>3, <1>4, <1>5, <1>6, <1>7, <1>8, <1>9, <1>10, <1>11, <1>12
    DEF PlansNext, PlanStep, FiringStep, Promised!Next

(* Theorem: the plans of routes/eval-schedule.ts and the job that fires    *)
(* them (jobs/eval-planned-run.ts) implement PlanPromise: a plan is        *)
(* decided once -- cancelled, missed or fired -- and only a plan that      *)
(* fired is charged for, by one run, however often its job is delivered.   *)
THEOREM PlansKeepTheirPromise == PlansSpec => KeepsPlanPromise
  <1>1. PlansInit => Sound
    BY SoundStart
  <1>2. Sound /\ [PlansNext]_evalVars => Sound'
    BY SoundKept
  <1>3. PlansInit => Promised!Init
    BY PromiseStart
  <1>4. Sound /\ [PlansNext]_evalVars => [Promised!Next]_Promised!absVars
    BY PromiseStep
  <1>5. QED
    BY <1>1, <1>2, <1>3, <1>4, PTL DEF PlansSpec, KeepsPlanPromise, Promised!Spec
=============================================================================
