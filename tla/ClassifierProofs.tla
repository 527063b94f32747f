-------------------------- MODULE ClassifierProofs --------------------------
(***************************************************************************)
(* Proofs about Classifier, for any tickets, handlers, job slots and       *)
(* categories, any retry limit and whatever the bounds on what goes wrong. *)
(***************************************************************************)
EXTENDS Classifier, FiniteSetTheorems, TLAPS

-----------------------------------------------------------------------------
(* Types.  The queue's operations keep its own.                            *)

QueueOK ==
    /\ Queue!QueueTypeOK
    /\ \A j \in JobIds : jobs[j].state # "free" => jobs[j].item \in Tickets

(* What is left of a job whose attempt failed: it waits for the next one   *)
(* with the same payload, or it is gone.                                   *)
LEMMA FailedJob ==
  ASSUME NEW job \in Queue!Job, job.state # "free" => job.item \in Tickets
  PROVE  LET next == Queue!AfterFailure(job) IN
         /\ next \in Queue!Job
         /\ next.state # "free" =>
               /\ job.state = "active"
               /\ next.state \in {"created", "dead"}
               /\ next.item = job.item
               /\ next.item \in Tickets
         /\ job.state = "active" => next.state # "free"
  <1>1. CASE job.state = "active" /\ job.tries < RetryLimit
    BY <1>1, ClassifierAssumption
    DEF Queue!AfterFailure, Queue!NextAttempt, Queue!Job, Queue!JobStates
  <1>2. CASE job.state = "active" /\ ~(job.tries < RetryLimit)
    BY <1>2, ClassifierAssumption
    DEF Queue!AfterFailure, Queue!NextAttempt, Queue!Job, Queue!JobStates
  <1>3. CASE job.state # "active"
    BY <1>3, ClassifierAssumption
    DEF Queue!AfterFailure, Queue!NoJob, Queue!Job, Queue!JobStates
  <1>4. QED
    BY <1>1, <1>2, <1>3

LEMMA SendType ==
  ASSUME QueueOK, NEW t \in Tickets, Queue!Send(t), UNCHANGED held
  PROVE  QueueOK'
  BY ClassifierAssumption
  DEF QueueOK, Queue!QueueTypeOK, Queue!Send, Queue!Job, Queue!JobStates

LEMMA FetchType ==
  ASSUME QueueOK, NEW w \in Handlers, NEW j \in JobIds,
         Queue!Fetch(w, j) \/ Queue!FetchDead(w, j)
  PROVE  QueueOK' /\ jobs[j].item \in Tickets
  BY DEF QueueOK, Queue!QueueTypeOK, Queue!Fetch, Queue!FetchDead, Queue!Job,
         Queue!JobStates

LEMMA ReportType ==
  ASSUME QueueOK, NEW w \in Handlers,
         Queue!Complete(w) \/ Queue!Fail(w) \/ Queue!Abandon(w)
  PROVE  QueueOK'
  <1>1. held' \in [Handlers -> JobIds \cup {"none"}]
    BY DEF QueueOK, Queue!QueueTypeOK, Queue!Complete, Queue!Fail,
           Queue!Abandon
  <1>2. CASE held[w] = "none" \/ Queue!Abandon(w)
    BY <1>1, <1>2 DEF QueueOK, Queue!QueueTypeOK, Queue!Complete, Queue!Fail,
                      Queue!Abandon
  <1>3. CASE held[w] # "none" /\ Queue!Complete(w)
    BY <1>1, <1>3, ClassifierAssumption
    DEF QueueOK, Queue!QueueTypeOK, Queue!Complete, Queue!NoJob, Queue!Job,
        Queue!JobStates
  <1>4. CASE held[w] # "none" /\ Queue!Fail(w)
    <2>1. held[w] \in JobIds /\ jobs[held[w]] \in Queue!Job
      BY <1>4 DEF QueueOK, Queue!QueueTypeOK
    <2>2. /\ Queue!AfterFailure(jobs[held[w]]) \in Queue!Job
          /\ Queue!AfterFailure(jobs[held[w]]).state # "free" =>
                Queue!AfterFailure(jobs[held[w]]).item \in Tickets
      BY <2>1, FailedJob DEF QueueOK
    <2>3. QED
      BY <1>1, <1>4, <2>1, <2>2 DEF QueueOK, Queue!QueueTypeOK, Queue!Fail
  <1>5. QED
    BY <1>2, <1>3, <1>4

LEMMA ExpireType ==
  ASSUME QueueOK, NEW j \in JobIds, Queue!Expire(j)
  PROVE  QueueOK'
  <1>1. jobs[j] \in Queue!Job /\ jobs[j].item \in Tickets
    BY DEF QueueOK, Queue!QueueTypeOK, Queue!Expire
  <1>2. /\ Queue!AfterFailure(jobs[j]) \in Queue!Job
        /\ Queue!AfterFailure(jobs[j]).state # "free" =>
              Queue!AfterFailure(jobs[j]).item \in Tickets
    BY <1>1, FailedJob
  <1>3. QED
    BY <1>2 DEF QueueOK, Queue!QueueTypeOK, Queue!Expire

-----------------------------------------------------------------------------
(* The other variables, typed.                                             *)

WorkOK ==
    /\ work \in [Handlers -> Work]
    /\ \A w \in Handlers : work[w].step # "idle" => work[w].ticket \in Tickets

TicketsOK ==
    /\ rows \in [Tickets -> Row]
    /\ trail \in [Tickets -> Seq(Categories)]
    /\ age \in [Tickets -> {"unborn", "young", "ripe", "old"}]
    /\ clears \in [Tickets -> Nat]
    /\ dropped \in SUBSET Tickets

WorldOK ==
    /\ stale \in SUBSET Tickets
    /\ configured \in BOOLEAN
    /\ spent \in Budget

LEMMA TypeParts == TypeOK <=> TicketsOK /\ WorkOK /\ WorldOK /\ QueueOK
  BY DEF TypeOK, TicketsOK, WorkOK, WorldOK, QueueOK

(* A handler files, and logs, one of the categories.                       *)
Answered ==
    \A w \in Handlers :
       work[w].step \in {"file", "log"} => work[w].answer \in Categories

LEMMA WorkMoves ==
  ASSUME WorkOK, Answered, NEW w \in Handlers, NEW x \in Work,
         work' = [work EXCEPT ![w] = x], x.step # "idle" => x.ticket \in Tickets,
         x.step \in {"file", "log"} => x.answer \in Categories
  PROVE  /\ WorkOK' /\ Answered' /\ work'[w] = x
         /\ \A v \in Handlers : v # w => work'[v] = work[v]
  BY DEF WorkOK, Answered

LEMMA IdleMoves ==
  ASSUME WorkOK, Answered, NEW w \in Handlers, work' = [work EXCEPT ![w] = Idle]
  PROVE  /\ WorkOK' /\ Answered' /\ work'[w] = Idle
         /\ \A v \in Handlers : v # w => work'[v] = work[v]
  <1>1. Idle \in Work /\ Idle.step = "idle"
    BY DEF Idle, Work
  <1>2. QED
    BY <1>1, WorkMoves

LEMMA GotoMoves ==
  ASSUME WorkOK, Answered, NEW w \in Handlers, work[w].step # "idle",
         NEW step \in {"ask", "giveUp", "log", "offer"}, Goto(w, step),
         step = "log" => work[w].step = "file"
  PROVE  /\ WorkOK' /\ Answered'
         /\ work'[w] = [work[w] EXCEPT !.step = step]
         /\ \A v \in Handlers : v # w => work'[v] = work[v]
  <1> DEFINE x == [work[w] EXCEPT !.step = step]
  <1>1. x \in Work /\ x.ticket = work[w].ticket /\ x.answer = work[w].answer
        /\ x.step = step
    BY DEF WorkOK, Work
  <1>2. work' = [work EXCEPT ![w] = x]
    BY DEF Goto
  <1>3. /\ work[w].ticket \in Tickets
        /\ step = "log" => work[w].answer \in Categories
    BY DEF WorkOK, Answered
  <1> HIDE DEF x
  <1>4. QED
    BY <1>1, <1>2, <1>3, WorkMoves DEF x

LEMMA AnswerMoves ==
  ASSUME WorkOK, Answered, NEW w \in Handlers, work[w].step # "idle",
         NEW c \in Categories,
         work' = [work EXCEPT ![w].step = "file", ![w].answer = c]
  PROVE  /\ WorkOK' /\ Answered'
         /\ work'[w] = [work[w] EXCEPT !.step = "file", !.answer = c]
         /\ \A v \in Handlers : v # w => work'[v] = work[v]
  <1> DEFINE x == [work[w] EXCEPT !.step = "file", !.answer = c]
  <1>1. x \in Work /\ x.ticket = work[w].ticket /\ x.answer = c /\ x.step = "file"
    BY DEF WorkOK, Work
  <1>2. work' = [work EXCEPT ![w] = x]
    BY DEF WorkOK, Work
  <1>3. work[w].ticket \in Tickets
    BY DEF WorkOK
  <1> HIDE DEF x
  <1>4. x \in Work /\ x.ticket \in Tickets /\ x.answer \in Categories
    BY <1>1, <1>3
  <1>5. /\ WorkOK' /\ Answered' /\ work'[w] = x
        /\ \A v \in Handlers : v # w => work'[v] = work[v]
    BY <1>2, <1>4, WorkMoves
  <1>6. QED
    BY <1>5 DEF x

-----------------------------------------------------------------------------
(* The invariant.  Beside the types and the two properties: a handler that *)
(* is past its filing has left its mark on the row, and the entries that   *)
(* were written, with those that still may be, are covered by the filling  *)
(* the column shows and the fillings agents took away.                     *)

Loggers(t) == {w \in Handlers : work[w].step = "log" /\ work[w].ticket = t}

Fillings(t) == clears[t] + (IF rows[t].category = "none" THEN 0 ELSE 1)

EntriesCovered ==
    \A t \in Tickets : Len(trail[t]) + Cardinality(Loggers(t)) <= Fillings(t)

OneAnswer ==
    \A t \in Tickets :
       clears[t] = 0 =>
          /\ \A i \in DOMAIN trail[t] : trail[t][i] = rows[t].classifierCategory
          /\ \A w \in Loggers(t) : work[w].answer = rows[t].classifierCategory

PastFiling ==
    \A w \in Handlers :
       work[w].step \in {"log", "offer"} =>
          rows[work[w].ticket].classifierCategory # "none"

OfferedIsFiled ==
    \A t \in Tickets : rows[t].offered => rows[t].classifierCategory # "none"

Filings == EntriesCovered /\ OneAnswer /\ PastFiling /\ OfferedIsFiled /\ FiledIsOffered

ClassifierInductive == TypeOK /\ Answered /\ Filings

(* Most steps change nothing the filings are about: no handler starts to   *)
(* log or offer, and none stops but where it drops its ticket.             *)
Quiet ==
    /\ \A t \in Tickets : /\ rows'[t].category = rows[t].category
                          /\ rows'[t].classifierCategory = rows[t].classifierCategory
                          /\ rows'[t].offered = rows[t].offered
    /\ UNCHANGED <<trail, clears>>
    /\ \A w \in Handlers :
          \/ work'[w] = work[w]
          \/ /\ work'[w].step \notin {"log", "offer"}
             /\ work[w].step \notin {"log", "offer"} \/ work[w].ticket \in dropped'
    /\ dropped \subseteq dropped'

LEMMA LoggersFinite ==
  ASSUME NEW t
  PROVE  IsFiniteSet(Loggers(t)) /\ Cardinality(Loggers(t)) \in Nat
  <1>1. IsFiniteSet(Loggers(t))
    BY ClassifierAssumption, FS_Subset DEF Loggers
  <1>2. QED
    BY <1>1, FS_CardinalityType

LEMMA FewerLoggers ==
  ASSUME NEW t, Loggers(t)' \subseteq Loggers(t)
  PROVE  /\ Cardinality(Loggers(t))' \in Nat /\ Cardinality(Loggers(t)) \in Nat
         /\ Cardinality(Loggers(t))' <= Cardinality(Loggers(t))
         /\ \A w \in Loggers(t) : w \notin Loggers(t)' =>
               Cardinality(Loggers(t))' + 1 <= Cardinality(Loggers(t))
  <1>1. \A S, T : IsFiniteSet(S) /\ T \subseteq S =>
           /\ Cardinality(T) \in Nat /\ Cardinality(S) \in Nat
           /\ Cardinality(T) <= Cardinality(S)
    BY FS_Subset, FS_CardinalityType
  <1>2. \A w \in Loggers(t) : w \notin Loggers(t)' =>
           Cardinality(Loggers(t))' + 1 <= Cardinality(Loggers(t))
    <2>1. TAKE w \in Loggers(t)
    <2>2. HAVE w \notin Loggers(t)'
    <2>3. \A S : IsFiniteSet(S) /\ w \in S =>
             IsFiniteSet(S \ {w}) /\ Cardinality(S \ {w}) = Cardinality(S) - 1
      BY FS_RemoveElement
    <2>4. /\ IsFiniteSet(Loggers(t) \ {w})
          /\ Cardinality(Loggers(t) \ {w}) = Cardinality(Loggers(t)) - 1
          /\ Loggers(t)' \subseteq Loggers(t) \ {w}
      BY <2>2, <2>3, LoggersFinite
    <2>5. Cardinality(Loggers(t))' <= Cardinality(Loggers(t) \ {w})
          /\ Cardinality(Loggers(t))' \in Nat
      BY <1>1, <2>4
    <2>6. QED
      BY <2>4, <2>5, LoggersFinite
  <1>3. QED
    BY <1>1, <1>2, LoggersFinite

LEMMA OneMoreLogger ==
  ASSUME NEW t, NEW w, Loggers(t)' \subseteq Loggers(t) \cup {w}
  PROVE  /\ Cardinality(Loggers(t))' \in Nat /\ Cardinality(Loggers(t)) \in Nat
         /\ Cardinality(Loggers(t))' <= Cardinality(Loggers(t)) + 1
  <1>1. \A S : IsFiniteSet(S) =>
           /\ IsFiniteSet(S \cup {w})
           /\ Cardinality(S \cup {w}) \in Nat /\ Cardinality(S) \in Nat
           /\ Cardinality(S \cup {w}) <= Cardinality(S) + 1
    <2>1. TAKE S
    <2>2. HAVE IsFiniteSet(S)
    <2>3. /\ IsFiniteSet(S \cup {w})
          /\ Cardinality(S \cup {w}) = Cardinality(S)
             \/ Cardinality(S \cup {w}) = Cardinality(S) + 1
      BY <2>2, FS_AddElement
    <2>4. Cardinality(S) \in Nat
      BY <2>2, FS_CardinalityType
    <2>5. QED
      BY <2>3, <2>4
  <1>2. \A S, T : IsFiniteSet(S) /\ T \subseteq S =>
           Cardinality(T) \in Nat /\ Cardinality(T) <= Cardinality(S)
    BY FS_Subset, FS_CardinalityType
  <1>3. IsFiniteSet(Loggers(t))
    BY LoggersFinite
  <1>4. /\ IsFiniteSet(Loggers(t) \cup {w})
        /\ Cardinality(Loggers(t) \cup {w}) \in Nat /\ Cardinality(Loggers(t)) \in Nat
        /\ Cardinality(Loggers(t) \cup {w}) <= Cardinality(Loggers(t)) + 1
    BY <1>1, <1>3
  <1>5. Cardinality(Loggers(t))' \in Nat
        /\ Cardinality(Loggers(t))' <= Cardinality(Loggers(t) \cup {w})
    BY <1>2, <1>4
  <1>6. QED
    BY <1>4, <1>5

LEMMA QuietFilings ==
  ASSUME TypeOK, Filings, Quiet, WorkOK'
  PROVE  Filings'
  <1>1. TicketsOK /\ WorkOK
    BY TypeParts
  <1>2. \A t \in Tickets : Loggers(t)' \subseteq Loggers(t)
    BY DEF Quiet, Loggers
  <1>3. EntriesCovered'
    <2>1. SUFFICES ASSUME NEW t \in Tickets
                   PROVE  Len(trail'[t]) + Cardinality(Loggers(t))' <= Fillings(t)'
      BY DEF EntriesCovered
    <2>2. Fillings(t)' = Fillings(t) /\ trail' = trail
      BY DEF Quiet, Fillings
    <2>3. Len(trail[t]) \in Nat /\ Fillings(t) \in Nat
      BY <1>1 DEF TicketsOK, Fillings
    <2>4. QED
      BY <1>2, <2>2, <2>3, FewerLoggers DEF Filings, EntriesCovered
  <1>4. OneAnswer'
    BY <1>2 DEF Filings, OneAnswer, Quiet, Loggers
  <1>5. PastFiling' /\ OfferedIsFiled'
    BY <1>1 DEF Filings, PastFiling, OfferedIsFiled, Quiet, WorkOK
  <1>6. FiledIsOffered'
    BY <1>1 DEF Filings, FiledIsOffered, Quiet
  <1>7. QED
    BY <1>3, <1>4, <1>5, <1>6 DEF Filings

-----------------------------------------------------------------------------
(* The handler's steps.                                                    *)

LEMMA RowSet ==
  ASSUME TicketsOK, NEW t \in Tickets, NEW r \in Row, rows' = [rows EXCEPT ![t] = r]
  PROVE  /\ rows' \in [Tickets -> Row] /\ rows'[t] = r
         /\ \A u \in Tickets : u # t => rows'[u] = rows[u]
  BY DEF TicketsOK

LEMMA Reports ==
  ASSUME WorkOK, QueueOK, Answered, NEW w \in Handlers, Return(w) \/ Throw(w)
  PROVE  /\ WorkOK' /\ Answered' /\ QueueOK' /\ work'[w] = Idle
         /\ \A v \in Handlers : v # w => work'[v] = work[v]
  <1>1. work' = [work EXCEPT ![w] = Idle]
    BY DEF Return, Throw
  <1>2. QueueOK'
    BY ReportType DEF Return, Throw
  <1>3. QED
    BY <1>1, <1>2, IdleMoves

LEMMA QueueStays ==
  ASSUME QueueOK, UNCHANGED queueVars
  PROVE  QueueOK'
  BY DEF QueueOK, Queue!QueueTypeOK, queueVars

(* The writes that say only that the classifier is done with a ticket.     *)
LEMMA StampedRow ==
  ASSUME TicketsOK, NEW t \in Tickets, rows' = [rows EXCEPT ![t].classified = TRUE]
  PROVE  /\ rows' \in [Tickets -> Row]
         /\ \A u \in Tickets :
               /\ rows'[u].category = rows[u].category
               /\ rows'[u].classifierCategory = rows[u].classifierCategory
               /\ rows'[u].offered = rows[u].offered
  BY DEF TicketsOK, Row

(* Up to its filing, and if there is nothing to file.                      *)
QuietHandlerStep(w) ==
    \/ Read(w) \/ Ask(w) \/ GiveUp(w) \/ Repair(w)
    \/ File(w) /\ rows[work[w].ticket].category # "none"

LEMMA QuietHandlerMoves ==
  ASSUME TypeOK, Answered, NEW w \in Handlers, QuietHandlerStep(w)
  PROVE  /\ WorkOK' /\ Answered' /\ QueueOK'
         /\ work'[w].step \notin {"log", "offer"}
         /\ \A v \in Handlers : v # w => work'[v] = work[v]
  <1>1. WorkOK /\ QueueOK
    BY TypeParts
  <1>2. work[w].step # "idle"
    BY DEF QuietHandlerStep, Read, Ask, GiveUp, Repair, File
  <1>3. CASE Return(w) \/ Throw(w)
    BY <1>1, <1>3, Reports DEF Idle
  <1>4. CASE UNCHANGED queueVars /\ \E step \in {"ask", "giveUp"} : Goto(w, step)
    <2>1. PICK step \in {"ask", "giveUp"} : Goto(w, step)
      BY <1>4
    <2>2. [work[w] EXCEPT !.step = step].step = step
      BY <1>1 DEF WorkOK, Work
    <2>3. QED
      BY <1>1, <1>2, <1>4, <2>1, <2>2, GotoMoves, QueueStays
  <1>5. CASE /\ UNCHANGED queueVars
             /\ \E c \in Categories :
                   work' = [work EXCEPT ![w].step = "file", ![w].answer = c]
    <2>1. PICK c \in Categories :
             work' = [work EXCEPT ![w].step = "file", ![w].answer = c]
      BY <1>5
    <2>2. [work[w] EXCEPT !.step = "file", !.answer = c].step = "file"
      BY <1>1 DEF WorkOK, Work
    <2>3. QED
      BY <1>1, <1>2, <1>5, <2>1, <2>2, AnswerMoves, QueueStays
  <1>6. QED
    BY <1>3, <1>4, <1>5 DEF QuietHandlerStep, Read, Ask, GiveUp, Repair, File

LEMMA QuietHandler ==
  ASSUME TypeOK, Answered, NEW w \in Handlers, QuietHandlerStep(w)
  PROVE  TypeOK' /\ Answered' /\ Quiet
  <1>1. TicketsOK /\ WorkOK /\ WorldOK
    BY TypeParts
  <1>2. /\ work[w].step \in {"read", "ask", "giveUp", "file", "repair"}
        /\ work[w].ticket \in Tickets
    BY <1>1 DEF QuietHandlerStep, Read, Ask, GiveUp, Repair, File, WorkOK
  <1>3. /\ WorkOK' /\ Answered' /\ QueueOK'
        /\ work'[w].step \notin {"log", "offer"}
        /\ \A v \in Handlers : v # w => work'[v] = work[v]
    BY QuietHandlerMoves
  <1>4. UNCHANGED <<trail, age, clears, dropped, stale, configured, spent>>
    BY DEF QuietHandlerStep, Read, Ask, GiveUp, Repair, File, ticketVars
  <1>5. /\ rows' \in [Tickets -> Row]
        /\ \A u \in Tickets :
              /\ rows'[u].category = rows[u].category
              /\ rows'[u].classifierCategory = rows[u].classifierCategory
              /\ rows'[u].offered = rows[u].offered
    <2>1. CASE rows' = rows
      BY <1>1, <2>1 DEF TicketsOK
    <2>2. CASE GiveUp(w) \/ Repair(w)
      BY <1>1, <1>2, <2>2, StampedRow DEF GiveUp, Repair
    <2>3. QED
      BY <2>1, <2>2 DEF QuietHandlerStep, Read, Ask, File, ticketVars
  <1>6. TypeOK'
    <2>1. TicketsOK' /\ WorldOK'
      BY <1>1, <1>4, <1>5 DEF TicketsOK, WorldOK
    <2>2. QED
      BY <1>3, <2>1 DEF TypeOK, TicketsOK, WorkOK, WorldOK, QueueOK
  <1>7. Quiet
    BY <1>2, <1>3, <1>4, <1>5 DEF Quiet
  <1>8. QED
    BY <1>3, <1>6, <1>7

(* The filing: the column fills, and an entry becomes due.                 *)
LEMMA FileFilings ==
  ASSUME ClassifierInductive, NEW w \in Handlers, File(w),
         rows[work[w].ticket].category = "none"
  PROVE  ClassifierInductive'
  <1>1. TicketsOK /\ WorkOK /\ WorldOK /\ QueueOK /\ Answered /\ Filings
    BY TypeParts DEF ClassifierInductive
  <1>2. PICK t \in Tickets : t = work[w].ticket
    BY <1>1 DEF WorkOK, File
  <1>3. PICK c \in Categories : c = work[w].answer
    BY <1>1 DEF Answered, File
  <1>4. c # "none" /\ rows[t].category = "none"
    BY <1>2, ClassifierAssumption
  <1>5. /\ rows' = [rows EXCEPT ![t] = Filed(rows[t], c)]
        /\ Goto(w, "log") /\ UNCHANGED queueVars
        /\ UNCHANGED <<trail, age, clears, dropped, stale, configured, spent>>
        /\ work[w].step = "file"
    BY <1>2, <1>3, <1>4 DEF File
  <1>6. /\ Filed(rows[t], c) \in Row
        /\ Filed(rows[t], c).category = c /\ Filed(rows[t], c).classifierCategory = c
        /\ Filed(rows[t], c).offered = rows[t].offered
    BY <1>1 DEF Filed, TicketsOK, Row
  <1>7. /\ rows' \in [Tickets -> Row]
        /\ rows'[t] = Filed(rows[t], c)
        /\ \A u \in Tickets : u # t => rows'[u] = rows[u]
    BY <1>1, <1>5, <1>6, RowSet
  <1>8. /\ WorkOK' /\ Answered'
        /\ work'[w] = [work[w] EXCEPT !.step = "log"]
        /\ \A v \in Handlers : v # w => work'[v] = work[v]
    BY <1>1, <1>5, GotoMoves
  <1>9. work'[w].step = "log" /\ work'[w].ticket = t /\ work'[w].answer = c
    BY <1>1, <1>2, <1>3, <1>8 DEF WorkOK, Work
  <1>10. TypeOK'
    <2>1. TicketsOK' /\ WorldOK'
      BY <1>1, <1>5, <1>7 DEF TicketsOK, WorldOK
    <2>2. QueueOK'
      BY <1>1, <1>5, QueueStays
    <2>3. QED
      BY <1>8, <2>1, <2>2 DEF TypeOK, TicketsOK, WorkOK, WorldOK, QueueOK
  <1>11. Loggers(t)' \subseteq Loggers(t) \cup {w}
         /\ \A u \in Tickets : u # t => Loggers(u)' \subseteq Loggers(u)
    BY <1>8, <1>9 DEF Loggers
  <1>12. EntriesCovered'
    <2>1. SUFFICES ASSUME NEW u \in Tickets
                   PROVE  Len(trail'[u]) + Cardinality(Loggers(u))' <= Fillings(u)'
      BY DEF EntriesCovered
    <2>2. trail' = trail /\ Len(trail[u]) \in Nat /\ Fillings(u) \in Nat
          /\ Len(trail[u]) + Cardinality(Loggers(u)) <= Fillings(u)
      BY <1>1, <1>5 DEF TicketsOK, Fillings, Filings, EntriesCovered
    <2>3. CASE u = t
      <3>1. Fillings(t)' = Fillings(t) + 1
        BY <1>1, <1>4, <1>5, <1>6, <1>7 DEF Fillings, TicketsOK
      <3>2. /\ Cardinality(Loggers(t))' \in Nat /\ Cardinality(Loggers(t)) \in Nat
            /\ Cardinality(Loggers(t))' <= Cardinality(Loggers(t)) + 1
        BY <1>11, OneMoreLogger
      <3>3. QED
        BY <2>2, <2>3, <3>1, <3>2
    <2>4. CASE u # t
      <3>1. Fillings(u)' = Fillings(u)
        BY <1>5, <1>7, <2>4 DEF Fillings
      <3>2. QED
        BY <1>11, <2>2, <2>4, <3>1, FewerLoggers
    <2>5. QED
      BY <2>3, <2>4
  <1>13. OneAnswer'
    <2>1. SUFFICES ASSUME NEW u \in Tickets, clears'[u] = 0
                   PROVE  /\ \A i \in DOMAIN trail'[u] :
                                trail'[u][i] = rows'[u].classifierCategory
                          /\ \A v \in Loggers(u)' :
                                work'[v].answer = rows'[u].classifierCategory
      BY DEF OneAnswer
    <2>2. CASE u = t
      <3>1. Len(trail[t]) + Cardinality(Loggers(t)) <= 0
        BY <1>1, <1>4, <1>5, <2>1, <2>2 DEF Filings, EntriesCovered, Fillings
      <3>2. Len(trail[t]) = 0 /\ Cardinality(Loggers(t)) = 0
        BY <1>1, <3>1, LoggersFinite DEF TicketsOK
      <3>3. DOMAIN trail[t] = {} /\ Loggers(t) = {}
        BY <1>1, <3>2, LoggersFinite, FS_EmptySet DEF TicketsOK
      <3>4. QED
        BY <1>5, <1>6, <1>7, <1>9, <1>11, <2>2, <3>3
    <2>3. CASE u # t
      BY <1>1, <1>5, <1>7, <1>8, <1>11, <2>1, <2>3, <1>9
      DEF Filings, OneAnswer, Loggers
    <2>4. QED
      BY <2>2, <2>3
  <1>14. PastFiling'
    <2>1. \A v \in Handlers : v # w /\ work[v].step # "idle" => work[v].ticket \in Tickets
      BY <1>1 DEF WorkOK
    <2>2. \A u \in Tickets : rows[u].classifierCategory # "none" =>
             rows'[u].classifierCategory # "none"
      BY <1>4, <1>6, <1>7
    <2>3. rows'[work'[w].ticket].classifierCategory # "none"
      BY <1>4, <1>6, <1>7, <1>9
    <2>4. \A v \in Handlers : v # w /\ work'[v].step \in {"log", "offer"} =>
             rows'[work'[v].ticket].classifierCategory # "none"
      BY <1>1, <1>8, <2>1, <2>2 DEF Filings, PastFiling
    <2>5. QED
      BY <2>3, <2>4 DEF PastFiling
  <1>15. OfferedIsFiled'
    BY <1>1, <1>4, <1>6, <1>7 DEF Filings, OfferedIsFiled
  <1>16. FiledIsOffered'
    <2>1. SUFFICES ASSUME NEW u \in Tickets, rows'[u].classifierCategory # "none"
                   PROVE  \/ rows'[u].offered
                          \/ u \in dropped'
                          \/ \E v \in Handlers : /\ work'[v].ticket = u
                                                 /\ work'[v].step \in {"log", "offer"}
      BY DEF FiledIsOffered
    <2>2. CASE u = t
      BY <1>9, <2>2
    <2>3. CASE u # t
      BY <1>1, <1>5, <1>7, <1>8, <2>1, <2>3 DEF Filings, FiledIsOffered
    <2>4. QED
      BY <2>2, <2>3
  <1>17. QED
    BY <1>8, <1>10, <1>12, <1>13, <1>14, <1>15, <1>16
    DEF ClassifierInductive, Filings

(* The entry: written or lost, it is no longer due.                        *)
LEMMA LogFilings ==
  ASSUME ClassifierInductive, NEW w \in Handlers, Log(w)
  PROVE  ClassifierInductive'
  <1>1. TicketsOK /\ WorkOK /\ WorldOK /\ QueueOK /\ Answered /\ Filings
    BY TypeParts DEF ClassifierInductive
  <1>2. PICK t \in Tickets : t = work[w].ticket
    BY <1>1 DEF WorkOK, Log
  <1>3. /\ Goto(w, "offer") /\ work[w].step = "log"
        /\ UNCHANGED <<rows, age, clears, dropped, stale, configured, spent, queueVars>>
        /\ trail' = trail \/ trail' = [trail EXCEPT ![t] = Append(@, work[w].answer)]
    BY <1>2 DEF Log
  <1>4. work[w].answer \in Categories
    BY <1>1, <1>3 DEF Answered
  <1>5. /\ WorkOK' /\ Answered'
        /\ work'[w] = [work[w] EXCEPT !.step = "offer"]
        /\ \A v \in Handlers : v # w => work'[v] = work[v]
    BY <1>1, <1>3, GotoMoves
  <1>6. work'[w].step = "offer" /\ work'[w].ticket = t
    BY <1>1, <1>2, <1>5 DEF WorkOK, Work
  <1>7. /\ w \in Loggers(t) /\ w \notin Loggers(t)'
        /\ \A u \in Tickets : Loggers(u)' \subseteq Loggers(u)
    BY <1>2, <1>3, <1>5, <1>6 DEF Loggers
  <1>8. /\ trail' \in [Tickets -> Seq(Categories)]
        /\ \A u \in Tickets : u # t => trail'[u] = trail[u]
        /\ Len(trail'[t]) \in Nat /\ Len(trail[t]) \in Nat
        /\ Len(trail'[t]) <= Len(trail[t]) + 1
        /\ \A i \in DOMAIN trail'[t] :
              (i \in DOMAIN trail[t] /\ trail'[t][i] = trail[t][i])
                 \/ trail'[t][i] = work[w].answer
    <2>1. trail[t] \in Seq(Categories)
      BY <1>1 DEF TicketsOK
    <2>2. CASE trail' = trail
      BY <1>1, <2>1, <2>2 DEF TicketsOK
    <2>3. CASE trail' = [trail EXCEPT ![t] = Append(@, work[w].answer)]
      <3>1. Append(trail[t], work[w].answer) \in Seq(Categories)
        BY <1>4, <2>1
      <3>2. /\ trail' \in [Tickets -> Seq(Categories)]
            /\ trail'[t] = Append(trail[t], work[w].answer)
            /\ \A u \in Tickets : u # t => trail'[u] = trail[u]
        BY <1>1, <2>3, <3>1 DEF TicketsOK
      <3>3. QED
        BY <1>4, <2>1, <3>2
    <2>4. QED
      BY <1>3, <2>2, <2>3
  <1>9. TypeOK'
    <2>1. TicketsOK' /\ WorldOK'
      BY <1>1, <1>3, <1>8 DEF TicketsOK, WorldOK
    <2>2. QueueOK'
      BY <1>1, <1>3, QueueStays
    <2>3. QED
      BY <1>5, <2>1, <2>2 DEF TypeOK, TicketsOK, WorkOK, WorldOK, QueueOK
  <1>10. EntriesCovered'
    <2>1. SUFFICES ASSUME NEW u \in Tickets
                   PROVE  Len(trail'[u]) + Cardinality(Loggers(u))' <= Fillings(u)'
      BY DEF EntriesCovered
    <2>2. Fillings(u)' = Fillings(u) /\ Fillings(u) \in Nat
          /\ Len(trail[u]) \in Nat
          /\ Len(trail[u]) + Cardinality(Loggers(u)) <= Fillings(u)
      BY <1>1, <1>3 DEF TicketsOK, Fillings, Filings, EntriesCovered
    <2>3. /\ Cardinality(Loggers(u))' \in Nat /\ Cardinality(Loggers(u)) \in Nat
          /\ Cardinality(Loggers(u))' <= Cardinality(Loggers(u))
          /\ u = t => Cardinality(Loggers(u))' + 1 <= Cardinality(Loggers(u))
      BY <1>7, FewerLoggers
    <2>4. QED
      BY <1>8, <2>2, <2>3
  <1>11. OneAnswer'
    <2>1. SUFFICES ASSUME NEW u \in Tickets, clears[u] = 0
                   PROVE  /\ \A i \in DOMAIN trail'[u] :
                                trail'[u][i] = rows[u].classifierCategory
                          /\ \A v \in Loggers(u)' :
                                work'[v].answer = rows[u].classifierCategory
      BY <1>3 DEF OneAnswer
    <2>2. /\ \A i \in DOMAIN trail[u] : trail[u][i] = rows[u].classifierCategory
          /\ \A v \in Loggers(u) : work[v].answer = rows[u].classifierCategory
      BY <1>1, <2>1 DEF Filings, OneAnswer
    <2>3. \A v \in Loggers(u)' : v \in Loggers(u) /\ work'[v] = work[v]
      BY <1>5, <1>6, <1>7 DEF Loggers
    <2>4. \A v \in Loggers(u)' : work'[v].answer = rows[u].classifierCategory
      BY <2>2, <2>3
    <2>5. CASE u = t
      <3>1. work[w].answer = rows[u].classifierCategory
        BY <1>7, <2>2, <2>5
      <3>2. \A i \in DOMAIN trail'[u] : trail'[u][i] = rows[u].classifierCategory
        BY <1>8, <2>2, <2>5, <3>1
      <3>3. QED
        BY <2>4, <3>2
    <2>6. CASE u # t
      BY <1>8, <2>2, <2>4, <2>6
    <2>7. QED
      BY <2>5, <2>6
  <1>12. PastFiling'
    <2>1. rows' = rows /\ PastFiling /\ rows[t].classifierCategory # "none"
      BY <1>1, <1>2, <1>3 DEF Filings, PastFiling
    <2>2. SUFFICES ASSUME NEW v \in Handlers, work'[v].step \in {"log", "offer"}
                   PROVE  rows[work'[v].ticket].classifierCategory # "none"
      BY <2>1 DEF PastFiling
    <2>3. CASE v = w
      BY <1>6, <2>1, <2>3
    <2>4. CASE v # w
      BY <1>5, <2>1, <2>2, <2>4 DEF PastFiling
    <2>5. QED
      BY <2>3, <2>4
  <1>13. OfferedIsFiled'
    BY <1>1, <1>3 DEF Filings, OfferedIsFiled
  <1>14. FiledIsOffered'
    <2>1. SUFFICES ASSUME NEW u \in Tickets, rows[u].classifierCategory # "none",
                          ~rows[u].offered, u \notin dropped
                   PROVE  \E v \in Handlers : /\ work'[v].ticket = u
                                             /\ work'[v].step \in {"log", "offer"}
      BY <1>3 DEF FiledIsOffered
    <2>2. PICK v \in Handlers : work[v].ticket = u /\ work[v].step \in {"log", "offer"}
      BY <1>1, <2>1 DEF Filings, FiledIsOffered
    <2>3. QED
      BY <1>2, <1>5, <1>6, <2>2
  <1>15. QED
    BY <1>5, <1>9, <1>10, <1>11, <1>12, <1>13, <1>14
    DEF ClassifierInductive, Filings

LEMMA OfferFilings ==
  ASSUME ClassifierInductive, NEW w \in Handlers, Offer(w)
  PROVE  ClassifierInductive'
  <1>1. TicketsOK /\ WorkOK /\ WorldOK /\ QueueOK /\ Answered /\ Filings
    BY TypeParts DEF ClassifierInductive
  <1>2. PICK t \in Tickets : t = work[w].ticket
    BY <1>1 DEF WorkOK, Offer
  <1>3. /\ rows' = [rows EXCEPT ![t].offered = TRUE] /\ Return(w)
        /\ work[w].step = "offer"
        /\ UNCHANGED <<trail, age, clears, dropped, stale, configured, spent>>
    BY <1>2 DEF Offer
  <1>4. /\ rows' \in [Tickets -> Row] /\ rows'[t].offered
        /\ \A u \in Tickets :
              /\ rows'[u].category = rows[u].category
              /\ rows'[u].classifierCategory = rows[u].classifierCategory
              /\ u # t => rows'[u].offered = rows[u].offered
    BY <1>1, <1>3 DEF TicketsOK, Row
  <1>5. /\ WorkOK' /\ Answered' /\ QueueOK' /\ work'[w].step = "idle"
        /\ \A v \in Handlers : v # w => work'[v] = work[v]
    BY <1>1, <1>3, Reports DEF Idle
  <1>6. TypeOK'
    <2>1. TicketsOK' /\ WorldOK'
      BY <1>1, <1>3, <1>4 DEF TicketsOK, WorldOK
    <2>2. QED
      BY <1>5, <2>1 DEF TypeOK, TicketsOK, WorkOK, WorldOK, QueueOK
  <1>7. \A u \in Tickets : Loggers(u)' \subseteq Loggers(u)
    BY <1>5 DEF Loggers
  <1>8. EntriesCovered'
    <2>1. SUFFICES ASSUME NEW u \in Tickets
                   PROVE  Len(trail'[u]) + Cardinality(Loggers(u))' <= Fillings(u)'
      BY DEF EntriesCovered
    <2>2. /\ Fillings(u)' = Fillings(u) /\ trail' = trail
          /\ Fillings(u) \in Nat /\ Len(trail[u]) \in Nat
      BY <1>1, <1>3, <1>4 DEF TicketsOK, Fillings
    <2>3. QED
      BY <1>1, <1>7, <2>2, FewerLoggers DEF Filings, EntriesCovered
  <1>9. OneAnswer'
    BY <1>1, <1>3, <1>4, <1>5, <1>7 DEF Filings, OneAnswer, Loggers
  <1>10. rows[t].classifierCategory # "none"
    BY <1>1, <1>2, <1>3 DEF Filings, PastFiling
  <1>11. PastFiling' /\ OfferedIsFiled'
    BY <1>1, <1>4, <1>5, <1>10 DEF Filings, PastFiling, OfferedIsFiled, WorkOK
  <1>12. FiledIsOffered'
    <2>1. SUFFICES ASSUME NEW u \in Tickets, rows'[u].classifierCategory # "none",
                          u # t, ~rows[u].offered, u \notin dropped
                   PROVE  \E v \in Handlers : /\ work'[v].ticket = u
                                             /\ work'[v].step \in {"log", "offer"}
      BY <1>3, <1>4 DEF FiledIsOffered
    <2>2. PICK v \in Handlers : work[v].ticket = u /\ work[v].step \in {"log", "offer"}
      BY <1>1, <1>4, <2>1 DEF Filings, FiledIsOffered
    <2>3. QED
      BY <1>2, <1>5, <2>1, <2>2
  <1>13. QED
    BY <1>5, <1>6, <1>8, <1>9, <1>11, <1>12 DEF ClassifierInductive, Filings

-----------------------------------------------------------------------------
(* Everybody else's.                                                       *)

(* The agent who empties the column adds to the fillings what the column   *)
(* shows no longer.                                                        *)
LEMMA AgentFilings ==
  ASSUME ClassifierInductive, NEW t \in Tickets, AgentFiles(t)
  PROVE  ClassifierInductive'
  <1>1. TicketsOK /\ WorkOK /\ WorldOK /\ QueueOK /\ Answered /\ Filings
    BY TypeParts DEF ClassifierInductive
  <1>2. PICK c \in Categories \cup {"none"} :
           /\ c # rows[t].category
           /\ rows' = [rows EXCEPT ![t].category = c]
           /\ clears' = [clears EXCEPT ![t] = IF c = "none" THEN @ + 1 ELSE @]
    BY DEF AgentFiles
  <1>3. /\ UNCHANGED <<trail, age, dropped, work, stale, configured, queueVars>>
        /\ Spend("edits")
    BY DEF AgentFiles
  <1>4. /\ rows' \in [Tickets -> Row] /\ rows'[t].category = c
        /\ \A u \in Tickets :
              /\ rows'[u].offered = rows[u].offered
              /\ rows'[u].classifierCategory = rows[u].classifierCategory
              /\ u # t => rows'[u].category = rows[u].category
    BY <1>1, <1>2 DEF TicketsOK, Row
  <1>5. /\ clears' \in [Tickets -> Nat]
        /\ clears'[t] = (IF c = "none" THEN clears[t] + 1 ELSE clears[t])
        /\ \A u \in Tickets : u # t => clears'[u] = clears[u]
    BY <1>1, <1>2 DEF TicketsOK
  <1>6. spent' \in Budget
    BY <1>1, <1>3 DEF WorldOK, Budget, Spend
  <1>7. TypeOK'
    <2>1. TicketsOK' /\ WorldOK'
      BY <1>1, <1>3, <1>4, <1>5, <1>6 DEF TicketsOK, WorldOK
    <2>2. WorkOK' /\ QueueOK'
      BY <1>1, <1>3, QueueStays DEF WorkOK
    <2>3. QED
      BY <2>1, <2>2 DEF TypeOK, TicketsOK, WorkOK, WorldOK, QueueOK
  <1>8. \A u \in Tickets : Loggers(u)' = Loggers(u)
    BY <1>3 DEF Loggers
  <1>9. EntriesCovered'
    <2>1. \A u \in Tickets : /\ Fillings(u)' >= Fillings(u)
                             /\ Fillings(u)' \in Nat /\ Fillings(u) \in Nat
                             /\ Len(trail[u]) \in Nat
      BY <1>1, <1>2, <1>4, <1>5 DEF Fillings, TicketsOK
    <2>2. QED
      BY <1>1, <1>3, <1>8, <2>1, LoggersFinite DEF Filings, EntriesCovered
  <1>10. OneAnswer'
    <2>1. \A u \in Tickets : clears'[u] = 0 => clears[u] = 0
      BY <1>1, <1>5 DEF TicketsOK
    <2>2. QED
      BY <1>1, <1>3, <1>4, <1>8, <2>1 DEF Filings, OneAnswer
  <1>11. PastFiling' /\ OfferedIsFiled' /\ FiledIsOffered'
    BY <1>1, <1>3, <1>4, <1>6
    DEF Filings, PastFiling, OfferedIsFiled, FiledIsOffered, WorkOK
  <1>12. Answered'
    BY <1>1, <1>3 DEF Answered
  <1>13. QED
    BY <1>7, <1>9, <1>10, <1>11, <1>12 DEF ClassifierInductive, Filings

(* The machinery, the sweep and the world beside the ticket.               *)
LEMMA CrashQuiet ==
  ASSUME TypeOK, Answered, NEW w \in Handlers, Crash(w) \/ DatabaseThrows(w)
  PROVE  TypeOK' /\ Answered' /\ Quiet
  <1>1. TicketsOK /\ WorkOK /\ WorldOK /\ QueueOK
    BY TypeParts
  <1>2. QueueOK'
    BY <1>1, ReportType DEF Crash, DatabaseThrows, Throw
  <1>3. /\ WorkOK' /\ Answered' /\ work'[w].step = "idle"
        /\ \A v \in Handlers : v # w => work'[v] = work[v]
    <2>1. Idle.step = "idle"
      BY DEF Idle
    <2>2. work' = [work EXCEPT ![w] = Idle]
      BY DEF Crash, DatabaseThrows, Throw
    <2>3. QED
      BY <1>1, <2>1, <2>2, IdleMoves
  <1>4. BreaksOff(w)
    BY DEF Crash, DatabaseThrows
  <1>5. /\ UNCHANGED <<rows, trail, age, clears, stale, configured>>
        /\ spent' \in Budget
    BY <1>1, <1>4 DEF BreaksOff, WorldOK, Budget, Spend
  <1>6. /\ dropped' \in SUBSET Tickets /\ dropped \subseteq dropped'
        /\ work[w].step \in {"log", "offer"} => work[w].ticket \in dropped'
    BY <1>1, <1>4 DEF BreaksOff, TicketsOK, WorkOK
  <1>7. TypeOK'
    BY <1>1, <1>2, <1>3, <1>5, <1>6
    DEF TypeOK, TicketsOK, WorkOK, WorldOK, QueueOK
  <1>8. Quiet
    BY <1>3, <1>5, <1>6 DEF Quiet
  <1>9. QED
    BY <1>3, <1>7, <1>8

LEMMA QueueQuiet ==
  ASSUME TypeOK, Answered, QueueStep
  PROVE  TypeOK' /\ Answered' /\ Quiet
  <1>1. TicketsOK /\ WorkOK /\ WorldOK /\ QueueOK
    BY TypeParts
  <1>2. ASSUME NEW w \in Handlers, NEW j \in JobIds, Start(w, j) \/ StartRepair(w, j)
        PROVE  TypeOK' /\ Answered' /\ Quiet
    <2> DEFINE x == [step |-> IF Start(w, j) THEN "read" ELSE "repair",
                     ticket |-> jobs[j].item, answer |-> "none"]
    <2>1. QueueOK' /\ jobs[j].item \in Tickets
      BY <1>1, <1>2, FetchType DEF Start, StartRepair
    <2>2. x \in Work /\ x.step \in {"read", "repair"} /\ x.ticket \in Tickets
      BY <2>1 DEF Work
    <2>3. work' = [work EXCEPT ![w] = x] /\ work[w].step = "idle"
      BY <1>2 DEF Start, StartRepair
    <2> HIDE DEF x
    <2>4. /\ WorkOK' /\ Answered' /\ work'[w] = x
          /\ \A v \in Handlers : v # w => work'[v] = work[v]
      BY <1>1, <2>2, <2>3, WorkMoves
    <2>5. UNCHANGED <<rows, trail, age, clears, dropped, stale, configured, spent>>
      BY <1>2 DEF Start, StartRepair, ticketVars
    <2>6. TypeOK'
      BY <1>1, <2>1, <2>4, <2>5
      DEF TypeOK, TicketsOK, WorkOK, WorldOK, QueueOK
    <2>7. QED
      BY <2>2, <2>3, <2>4, <2>5, <2>6 DEF Quiet
  <1>3. ASSUME NEW j \in JobIds, ExpireOrphan(j) \/ ExpireStalled(j)
        PROVE  TypeOK' /\ Answered' /\ Quiet
    <2>1. QueueOK'
      BY <1>1, <1>3, ExpireType DEF ExpireOrphan, ExpireStalled
    <2>2. spent' \in Budget
      BY <1>1, <1>3 DEF ExpireOrphan, ExpireStalled, WorldOK, Budget, Spend
    <2>3. UNCHANGED <<rows, trail, age, clears, dropped, work, stale, configured>>
      BY <1>3 DEF ExpireOrphan, ExpireStalled, ticketVars
    <2>4. TypeOK' /\ Answered'
      BY <1>1, <2>1, <2>2, <2>3
      DEF TypeOK, TicketsOK, WorkOK, WorldOK, QueueOK, Answered
    <2>5. QED
      BY <2>2, <2>3, <2>4 DEF Quiet
  <1>4. QED
    BY <1>2, <1>3 DEF QueueStep

LEMMA SendsType ==
  ASSUME QueueOK, NEW t \in Tickets, EnqueueClassification(t), UNCHANGED held
  PROVE  QueueOK'
  <1>1. CASE Queue!Send(t)
    BY <1>1, SendType
  <1>2. CASE UNCHANGED jobs
    BY <1>2, QueueStays DEF queueVars
  <1>3. QED
    BY <1>1, <1>2 DEF EnqueueClassification

LEMMA WorldQuiet ==
  ASSUME TypeOK, Answered,
         \/ SweepStep \/ SwitchKey \/ UNCHANGED vars
         \/ \E t \in Tickets : Arrive(t) \/ Ages(t)
  PROVE  TypeOK' /\ Answered' /\ Quiet
  <1>1. TicketsOK /\ WorkOK /\ WorldOK /\ QueueOK
    BY TypeParts
  <1>2. UNCHANGED <<rows, trail, clears, dropped, work, spent>>
    BY DEF SweepStep, SweepReads, SweepOffers, SwitchKey, vars, Arrive, Ages,
           ticketVars
  <1>3. age' \in [Tickets -> {"unborn", "young", "ripe", "old"}]
    BY <1>1 DEF TicketsOK, SweepStep, SweepReads, SweepOffers, SwitchKey, vars,
                Arrive, Ages, ticketVars
  <1>4. stale' \in SUBSET Tickets /\ configured' \in BOOLEAN
    BY <1>1 DEF WorldOK, SweepStep, SweepReads, SweepOffers, SwitchKey, vars,
                Arrive, Ages
  <1>5. QueueOK'
    <2>1. CASE UNCHANGED queueVars
      BY <1>1, <2>1, QueueStays
    <2>2. CASE \E t \in Tickets : EnqueueClassification(t) /\ UNCHANGED held
      BY <1>1, <2>2, SendsType
    <2>3. QED
      BY <1>1, <2>1, <2>2
      DEF WorldOK, SweepStep, SweepReads, SweepOffers, SwitchKey, vars, queueVars,
          Arrive, Ages
  <1>6. TypeOK' /\ Answered'
    BY <1>1, <1>2, <1>3, <1>4, <1>5
    DEF TypeOK, TicketsOK, WorkOK, WorldOK, QueueOK, Answered
  <1>7. QED
    BY <1>2, <1>6 DEF Quiet

-----------------------------------------------------------------------------
(* The theorems.                                                           *)

LEMMA InitInductive == Init => ClassifierInductive
  <1> SUFFICES ASSUME Init PROVE ClassifierInductive
    OBVIOUS
  <1>1. TypeOK
    <2>1. Idle \in Work /\ Idle.step = "idle"
      BY DEF Idle, Work
    <2>2. Queue!NoJob \in Queue!Job /\ Queue!NoJob.state = "free"
      BY ClassifierAssumption DEF Queue!NoJob, Queue!Job, Queue!JobStates
    <2>3. WorkOK /\ QueueOK
      BY <2>1, <2>2 DEF Init, WorkOK, QueueOK, Queue!QueueInit, Queue!QueueTypeOK
    <2>4. TicketsOK /\ WorldOK
      BY DEF Init, TicketsOK, WorldOK, Row, Budget
    <2>5. QED
      BY <2>3, <2>4, TypeParts
  <1>2. \A w \in Handlers : work[w].step = "idle"
    BY DEF Init, Idle
  <1>3. \A t \in Tickets : /\ rows[t].category = "none"
                           /\ rows[t].classifierCategory = "none"
                           /\ rows[t].offered = FALSE
                           /\ trail[t] = <<>> /\ clears[t] = 0
    BY DEF Init
  <1>4. \A t \in Tickets : Loggers(t) = {}
    BY <1>2 DEF Loggers
  <1>5. Answered /\ PastFiling
    BY <1>2 DEF Answered, PastFiling
  <1>6. OfferedIsFiled /\ FiledIsOffered
    BY <1>3 DEF OfferedIsFiled, FiledIsOffered
  <1>7. EntriesCovered
    <2>1. Cardinality({}) = 0
      BY FS_EmptySet
    <2>2. \A t \in Tickets : Len(trail[t]) = 0 /\ Fillings(t) = 0
      <3>1. Len(<<>>) = 0
        OBVIOUS
      <3>2. QED
        BY <1>3, <3>1 DEF Fillings
    <2>3. \A t \in Tickets : Cardinality(Loggers(t)) = 0
      BY <1>4, <2>1, Zenon
    <2>4. QED
      BY <2>2, <2>3 DEF EntriesCovered
  <1>8. OneAnswer
    BY <1>3, <1>4 DEF OneAnswer
  <1>9. QED
    BY <1>1, <1>5, <1>6, <1>7, <1>8 DEF ClassifierInductive, Filings

LEMMA StepInductive == ClassifierInductive /\ [Next]_vars => ClassifierInductive'
  <1> SUFFICES ASSUME ClassifierInductive, [Next]_vars PROVE ClassifierInductive'
    OBVIOUS
  <1>1. TypeOK /\ Answered /\ Filings
    BY DEF ClassifierInductive
  <1>2. ASSUME TypeOK', Answered', Quiet
        PROVE  ClassifierInductive'
    <2>1. WorkOK'
      BY <1>2 DEF TypeOK, WorkOK
    <2>2. Filings'
      BY <1>1, <1>2, <2>1, QuietFilings
    <2>3. QED
      BY <1>2, <2>2 DEF ClassifierInductive
  <1>3. ASSUME NEW w \in Handlers, HandlerStep(w)
        PROVE  ClassifierInductive'
    <2>1. CASE QuietHandlerStep(w)
      BY <1>1, <1>2, <2>1, QuietHandler
    <2>2. CASE File(w) /\ rows[work[w].ticket].category = "none"
      BY <2>2, FileFilings
    <2>3. CASE Log(w) \/ Offer(w)
      BY <2>3, LogFilings, OfferFilings
    <2>4. QED
      BY <1>3, <2>1, <2>2, <2>3 DEF HandlerStep, QuietHandlerStep
  <1>4. CASE \E w \in Handlers : Crash(w) \/ DatabaseThrows(w)
    BY <1>1, <1>2, <1>4, CrashQuiet
  <1>5. CASE QueueStep
    BY <1>1, <1>2, <1>5, QueueQuiet
  <1>6. CASE \E t \in Tickets : AgentFiles(t)
    BY <1>6, AgentFilings
  <1>7. CASE \/ SweepStep \/ SwitchKey \/ UNCHANGED vars
             \/ \E t \in Tickets : Arrive(t) \/ Ages(t)
    BY <1>1, <1>2, <1>7, WorldQuiet
  <1>8. QED
    BY <1>3, <1>4, <1>5, <1>6, <1>7 DEF Next

LEMMA ClassifierHolds == Spec => []ClassifierInductive
  BY InitInductive, StepInductive, PTL DEF Spec

(* In every state of every run the machine's history is its filing, one    *)
(* entry and one more for each time an agent cleared the column, and what  *)
(* it filed is offered to the auto-reply unless its handler broke off.     *)
THEOREM ClassifierIsSound == Spec => []ClassifierInvariant
  <1>1. ClassifierInductive => ClassifierInvariant
    <2> SUFFICES ASSUME ClassifierInductive PROVE ClassifierInvariant
      OBVIOUS
    <2>1. TypeOK /\ TicketsOK /\ Filings
      BY TypeParts DEF ClassifierInductive
    <2>2. \A t \in Tickets : Len(trail[t]) <= 1 + clears[t]
      <3>1. \A t \in Tickets : /\ Len(trail[t]) \in Nat /\ clears[t] \in Nat
                               /\ Fillings(t) \in Nat /\ Fillings(t) <= 1 + clears[t]
        BY <2>1 DEF TicketsOK, Fillings
      <3>2. \A t \in Tickets : Len(trail[t]) + Cardinality(Loggers(t)) <= Fillings(t)
        BY <2>1 DEF Filings, EntriesCovered
      <3>3. QED
        BY <3>1, <3>2, LoggersFinite
    <2>3. HistoryIsTheFiling
      BY <2>1, <2>2 DEF Filings, OneAnswer, OfferedIsFiled, HistoryIsTheFiling
    <2>4. QED
      BY <2>1, <2>3 DEF Filings, ClassifierInvariant
  <1>2. QED
    BY <1>1, ClassifierHolds, PTL

(* The category an agent chose stands: only an agent's edit changes a      *)
(* column that is filled, however many deliveries of the job are thinking. *)
THEOREM AgentsFilingIsKept == Spec => AgentsFilingStands
  <1> DEFINE Stands ==
        \A t \in Tickets :
           rows[t].category # "none" /\ rows'[t].category # rows[t].category =>
              spent'.edits = spent.edits + 1
  <1>1. ASSUME ClassifierInductive, [Next]_vars PROVE Stands
    <2>1. TypeOK /\ Answered /\ TicketsOK /\ WorkOK /\ WorldOK
      BY <1>1, TypeParts DEF ClassifierInductive
    <2>2. Quiet => Stands
      BY DEF Quiet
    <2>3. ASSUME NEW w \in Handlers, HandlerStep(w)
          PROVE  Stands
      <3>1. CASE QuietHandlerStep(w)
        BY <2>1, <2>2, <3>1, QuietHandler
      <3>2. CASE File(w) /\ rows[work[w].ticket].category = "none"
        BY <2>1, <3>2 DEF File, TicketsOK, WorkOK
      <3>3. CASE Log(w)
        BY <3>3 DEF Log
      <3>4. CASE Offer(w)
        <4>1. rows' = [rows EXCEPT ![work[w].ticket].offered = TRUE]
          BY <3>4 DEF Offer
        <4>2. \A t \in Tickets : rows'[t].category = rows[t].category
          BY <2>1, <4>1 DEF TicketsOK, Row
        <4>3. QED
          BY <4>2
      <3>5. QED
        BY <2>3, <3>1, <3>2, <3>3, <3>4 DEF HandlerStep, QuietHandlerStep
    <2>4. CASE \E t \in Tickets : AgentFiles(t)
      BY <2>1, <2>4 DEF AgentFiles, WorldOK, Budget, Spend
    <2>5. CASE QueueStep \/ \E w \in Handlers : Crash(w) \/ DatabaseThrows(w)
      BY <2>1, <2>2, <2>5, QueueQuiet, CrashQuiet
    <2>6. CASE \/ SweepStep \/ SwitchKey \/ UNCHANGED vars
               \/ \E t \in Tickets : Arrive(t) \/ Ages(t)
      BY <2>1, <2>2, <2>6, WorldQuiet
    <2>7. QED
      BY <1>1, <2>3, <2>4, <2>5, <2>6 DEF Next
  <1>2. ClassifierInductive /\ [Next]_vars => [Stands]_vars
    BY <1>1
  <1>3. QED
    BY <1>2, ClassifierHolds, PTL DEF Spec, AgentsFilingStands
=============================================================================
