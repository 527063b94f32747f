----------------------------- MODULE LiveEvents -----------------------------
(***************************************************************************)
(* The push channel from a commit to a screen: apps/api/src/events/        *)
(* (publish, the hub), routes/events.ts (a stream's life), index.ts (the   *)
(* shutdown) and apps/web/src/lib/realtime*.ts(x) (the tab), with the      *)
(* query cache of the tab as the library the code uses.                    *)
(*                                                                         *)
(* Events carry no data.  A screen is right only because it reads again    *)
(* after it was told, so the model follows one watched query of each tab:  *)
(* `truth` counts the changes of its answer at the server, and a tab holds *)
(* the count it last read.                                                 *)
(***************************************************************************)
EXTENDS Naturals, Sequences, SequencesExt

CONSTANTS
    Tabs,         \* browser tabs
    Procs,        \* the API processes, one deployed after the other
    Workers,      \* routes and jobs in flight
    Watchable,    \* bound: the queries a tab may be watching
    Follow,       \* bound: the places whose commits are followed
    MaxCommits,   \* bound: transactions that commit
    MaxFrames,    \* MAX_BUFFERED_BYTES, in frames
    MaxBreaks     \* bound: cut streams, killed processes and failed reads

Queries == {"detail", "activity", "list", "views", "unread", "pipeline", "evals"}

(* The query keys under ticketKeys.all.                                    *)
TicketQueries == Queries \ {"pipeline", "evals"}

(* What an event is about.  "assigned" is ticket_updated naming the field  *)
(* assignee, "updated" is one that does not.                               *)
TICKET_EVENT == {"created", "updated", "assigned", "message", "pipeline", "eval"}

(* EVENT_EFFECT: the queries an event has a tab read again ...             *)
Refetched == [created  |-> {"views"},
              updated  |-> {"views", "detail", "activity"},
              assigned |-> {"views", "detail", "activity", "unread"},
              message  |-> {"views", "detail"},
              pipeline |-> {"pipeline"},
              eval     |-> {"evals"}]

(* ... and those it only marks.                                            *)
Marked == [e \in TICKET_EVENT |-> IF e \in {"pipeline", "eval"} THEN {} ELSE TicketQueries]

(* EVENT_AUDIENCE, by the query of an admin's screen.                      *)
AdminQueries == {"pipeline", "evals"}
Hears(query, e) == e \in {"pipeline", "eval"} => query \in AdminQueries

(* The queries read again when a lost stream is back.                      *)
Resynced == TicketQueries \cup {"pipeline"}

(* The places that commit: the answers each changes, as far as a screen    *)
(* shows them, and what it publishes.  A change that nothing it publishes  *)
(* is about shows in the table: lists and counts leave a ticket out while  *)
(* it is claimed, on purpose not told; the pipeline's rows carry status    *)
(* and category, whoever sets them.                                        *)
Site == [moves : SUBSET Queries, tells : SUBSET TICKET_EVENT]

Sites ==
    LET S(moves, tells) == [moves |-> moves, tells |-> tells] IN
    [opened     |-> S({"list", "views", "pipeline"}, {"pipeline", "created"}),
     followUp   |-> S({"detail", "list"}, {"message"}),
     reopened   |-> S({"detail", "activity", "list", "views", "unread", "pipeline"},
                      {"message", "assigned"}),
     classified |-> S({"detail", "activity", "list", "views", "pipeline"},
                      {"pipeline", "updated"}),
     gaveUp     |-> S({"pipeline"}, {"pipeline"}),
     offered    |-> S({"pipeline"}, {}),
     claimed    |-> S({"detail", "list", "views", "pipeline"}, {"pipeline"}),
     released   |-> S({"detail", "list", "views", "pipeline"}, {"pipeline"}),
     handedBack |-> S({"detail", "activity", "list", "views", "unread", "pipeline"},
                      {"pipeline", "assigned"}),
     answered   |-> S({"detail", "activity", "list", "views", "unread", "pipeline"},
                      {"pipeline", "assigned", "message"}),
     patched    |-> S({"detail", "activity", "list", "views", "pipeline"}, {"updated"}),
     assigned   |-> S({"detail", "activity", "list", "views", "unread"}, {"assigned"}),
     seen       |-> S({"unread"}, {}),
     replied    |-> S({"detail", "list", "pipeline"}, {"message"}),
     unassigned |-> S({"detail", "activity", "list", "views", "unread"}, {}),
     measured   |-> S({"evals"}, {"eval"})]

ASSUME LiveEventsAssumption ==
    /\ "none" \notin Tabs \cup Procs
    /\ Watchable \subseteq Queries
    /\ Follow \subseteq DOMAIN Sites
    /\ MaxFrames \in Nat \ {0}
    /\ MaxBreaks \in Nat

VARIABLES
    truth,    \* how often the answer to each query has changed
    work,     \* the routes and jobs under way
    proc,     \* each API process: "next", "up" or "draining"
    tab,      \* each tab: its watched query and its stream
    breaks    \* how much of MaxBreaks has been used

liveVars == <<truth, work, proc, tab, breaks>>

NoWork == [step |-> "idle", at |-> "none", site |-> "none"]

Work == [step : {"idle", "commit", "publish"}, at : Procs \cup {"none"},
         site : DOMAIN Sites \cup {"none"}]

(* A tab.  `data` is the count last read, 0 before the first answer;       *)
(* `read` is what a request under way has read at the server, 0 before.    *)
(* `gap`, a ghost, says that the tab shows an old answer and will not be   *)
(* told: one of the ways the design accepts.                               *)
Tab == [watch : Queries, data : Nat, stale : BOOLEAN,
        asking : BOOLEAN, read : Nat,
        stream : {"closed", "open", "ended"}, at : Procs \cup {"none"},
        hasConnected : BOOLEAN,
        wire : Seq(TICKET_EVENT), pending : SUBSET TICKET_EVENT, gap : BOOLEAN]

NewTab(q) == [watch |-> q, data |-> 0, stale |-> FALSE, asking |-> TRUE, read |-> 0,
              stream |-> "closed", at |-> "none", hasConnected |-> FALSE,
              wire |-> <<>>, pending |-> {}, gap |-> FALSE]

LiveTypeOK ==
    /\ truth \in [Queries -> Nat \ {0}]
    /\ work \in [Workers -> Work]
    /\ proc \in [Procs -> {"next", "up", "draining"}]
    /\ tab \in [Tabs -> Tab]
    /\ \A t \in Tabs : Len(tab[t].wire) <= MaxFrames
    /\ breaks \in 0..MaxBreaks

LiveInit ==
    /\ truth = [q \in Queries |-> 1]
    /\ work = [w \in Workers |-> NoWork]
    /\ proc = [p \in Procs |-> IF p = (CHOOSE o \in Procs : TRUE) THEN "up" ELSE "next"]
    /\ tab \in [Tabs -> {NewTab(q) : q \in Watchable}]
    /\ breaks = 0

Break == breaks < MaxBreaks /\ breaks' = breaks + 1

Serving == \E p \in Procs : proc[p] = "up"

(* What the tab will hold once its request under way, if any, is answered. *)
Holds(c) == IF ~c.asking THEN c.data ELSE IF c.read = 0 THEN truth[c.watch] ELSE c.read

Concerns(s, q) == \E e \in Sites[s].tells : q \in Refetched[e] \cup Marked[e]

(* A change is told and this tab does not hear it: nothing will have it    *)
(* read again, unless a lost stream comes back and brings the query along. *)
Misses(c, s) ==
    /\ Concerns(s, c.watch)
    /\ Holds(c) < truth[c.watch]
    /\ c.stream = "open" \/ ~c.hasConnected \/ c.watch \notin Resynced

Unheard(c, s) == [c EXCEPT !.gap = @ \/ Misses(c, s)]

(* The stream is gone, and the frames on it.                               *)
Closed(c) ==
    [c EXCEPT !.stream = "closed", !.at = "none", !.wire = <<>>,
              !.gap = @ \/ /\ c.watch \notin Resynced
                           /\ \E i \in DOMAIN c.wire : c.watch \in Refetched[c.wire[i]]
                           /\ Holds(c) < truth[c.watch]]

-----------------------------------------------------------------------------
(* Mutant: the event goes out from inside the transaction.                 *)
StepsInside == <<"publish", "commit">>

(* A route or job opens a transaction, commits and then publishes.  Only   *)
(* commits that change a watched answer are followed.                      *)
Steps == <<"commit", "publish">>

Advance(w) ==
    work' = [work EXCEPT ![w] = IF work[w].step = Steps[1]
                                THEN [work[w] EXCEPT !.step = Steps[2]]
                                ELSE NoWork]

Begin(w, p, s) ==
    /\ work[w].step = "idle"
    /\ proc[p] = "up"
    /\ \E t \in Tabs : tab[t].watch \in Sites[s].moves
    /\ \A t \in Tabs : truth[tab[t].watch] <= MaxCommits
    /\ work' = [work EXCEPT ![w] = [step |-> Steps[1], at |-> p, site |-> s]]
    /\ UNCHANGED <<truth, proc, tab, breaks>>

Commit(w) ==
    LET s == work[w].site
        watched == {tab[t].watch : t \in Tabs} IN
    /\ work[w].step = "commit"
    /\ truth' = [q \in Queries |->
                    IF q \in Sites[s].moves \cap watched THEN truth[q] + 1 ELSE truth[q]]
    /\ tab' = [t \in Tabs |->
                 [tab[t] EXCEPT !.gap = @ \/ /\ tab[t].watch \in Sites[s].moves
                                             /\ ~Concerns(s, tab[t].watch)]]
    /\ Advance(w)
    /\ UNCHANGED <<proc, breaks>>

(* A connection that does not drain is ended, not fed: the rest of what is *)
(* being told is lost, and for a query that no reopened stream reads again *)
(* it is lost for good.                                                    *)
Send(c, evs) ==
    LET room == MaxFrames - Len(c.wire) IN
    IF Len(evs) <= room THEN [c EXCEPT !.wire = @ \o evs]
    ELSE [c EXCEPT !.wire = @ \o SubSeq(evs, 1, room), !.stream = "ended",
                   !.gap = @ \/ /\ c.watch \notin Resynced
                                /\ \E i \in room + 1..Len(evs) : c.watch \in Refetched[evs[i]]
                                /\ Holds(c) < truth[c.watch]]

(* `publish` in its loop over the hub's connections, which are those of    *)
(* this process, once for each event of the site.                          *)
FanOut(p, s) ==
    [t \in Tabs |->
       LET c == tab[t] IN
       IF c.stream = "open" /\ c.at = p
       THEN Send(c, SetToSeq({e \in Sites[s].tells : Hears(c.watch, e)}))
       ELSE Unheard(c, s)]

Publish(w) ==
    /\ work[w].step = "publish"
    /\ tab' = FanOut(work[w].at, work[w].site)
    /\ Advance(w)
    /\ UNCHANGED <<truth, proc, breaks>>

-----------------------------------------------------------------------------
(* The processes.                                                          *)

(* What replaces a process may start while it is still finishing its jobs. *)
Deploy(p) ==
    /\ proc[p] = "next"
    /\ ~Serving
    /\ proc' = [proc EXCEPT ![p] = "up"]
    /\ UNCHANGED <<truth, work, tab, breaks>>

(* shutdown: no new request, every stream ended, jobs left to finish.      *)
Drain(p) ==
    /\ proc[p] = "up"
    /\ Break
    /\ proc' = [proc EXCEPT ![p] = "draining"]
    /\ tab' = [t \in Tabs |-> IF tab[t].at = p /\ tab[t].stream = "open"
                              THEN [tab[t] EXCEPT !.stream = "ended"] ELSE tab[t]]
    /\ UNCHANGED <<truth, work>>

Exit(p) ==
    /\ proc[p] = "draining"
    /\ \A w \in Workers : work[w].at # p
    /\ proc' = [proc EXCEPT ![p] = "next"]
    /\ UNCHANGED <<truth, work, tab, breaks>>

(* Killed: what was committed and not yet published never is.              *)
Kill(p) ==
    LET lost == {w \in Workers : work[w].at = p /\ work[w].step = "publish"}
        After(c) == IF c.at = p THEN Closed(c) ELSE c IN
    /\ proc[p] # "next"
    /\ Break
    /\ proc' = [proc EXCEPT ![p] = "next"]
    /\ work' = [w \in Workers |-> IF work[w].at = p THEN NoWork ELSE work[w]]
    /\ tab' = [t \in Tabs |->
                 LET c == After(tab[t]) IN
                 [c EXCEPT !.gap = @ \/ \E w \in lost : Misses(c, work[w].site)]]
    /\ UNCHANGED truth

-----------------------------------------------------------------------------
(* A stream.                                                               *)

SetTab(t, c) == tab' = [tab EXCEPT ![t] = c] /\ UNCHANGED <<truth, work, proc>>

(* react-query's invalidate with its default refetch: a request under way  *)
(* is begun again, but not the very first one.                             *)
Invalidated(c) ==
    IF c.asking /\ c.data = 0
    THEN [c EXCEPT !.gap = @ \/ c.read \notin {0, truth[c.watch]}]
    ELSE [c EXCEPT !.stale = TRUE, !.asking = TRUE, !.read = 0]

(* Marked without a refetch: a request under way goes on, and its answer,  *)
(* however old, takes the mark away.                                       *)
MarkedOnly(c) ==
    [c EXCEPT !.stale = TRUE,
              !.gap = @ \/ (c.asking /\ c.read \notin {0, truth[c.watch]})]

(* Mutant: a stream that is back is treated like the first.                *)
OpenQuietly(t, p) ==
    /\ tab[t].stream = "closed"
    /\ proc[p] = "up"
    /\ SetTab(t, [tab[t] EXCEPT !.stream = "open", !.at = p, !.hasConnected = TRUE])
    /\ UNCHANGED breaks

(* The stream opens; a reopened one has its screens read again.            *)
Open(t, p) ==
    LET c == [tab[t] EXCEPT !.stream = "open", !.at = p, !.hasConnected = TRUE] IN
    /\ tab[t].stream = "closed"
    /\ proc[p] = "up"
    /\ SetTab(t, IF tab[t].hasConnected /\ c.watch \in Resynced THEN Invalidated(c) ELSE c)
    /\ UNCHANGED breaks

Receive(t) ==
    LET c == tab[t] IN
    /\ c.wire # <<>>
    /\ SetTab(t, [c EXCEPT !.wire = Tail(@), !.pending = @ \cup {Head(c.wire)}])
    /\ UNCHANGED breaks

(* STREAM_MAX_MS.                                                          *)
Expire(t) ==
    /\ tab[t].stream = "open"
    /\ Break
    /\ SetTab(t, [tab[t] EXCEPT !.stream = "ended"])

(* The end of an ended stream reaches the tab after its last frame.        *)
SeeEnd(t) ==
    /\ tab[t].stream = "ended"
    /\ tab[t].wire = <<>>
    /\ SetTab(t, Closed(tab[t]))
    /\ UNCHANGED breaks

Cut(t) ==
    /\ tab[t].stream # "closed"
    /\ Break
    /\ SetTab(t, Closed(tab[t]))

-----------------------------------------------------------------------------
(* The tab's cache.                                                        *)

(* `flush`, every FLUSH_MS.                                                *)
Flush(t) ==
    LET c == [tab[t] EXCEPT !.pending = {}]
        told(table) == \E e \in tab[t].pending : c.watch \in table[e] IN
    /\ tab[t].pending # {}
    /\ SetTab(t, IF told(Refetched) THEN Invalidated(c)
                 ELSE IF told(Marked) THEN MarkedOnly(c)
                 ELSE c)
    /\ UNCHANGED breaks

Read(t) ==
    /\ tab[t].asking /\ tab[t].read = 0
    /\ Serving
    /\ SetTab(t, [tab[t] EXCEPT !.read = truth[tab[t].watch]])
    /\ UNCHANGED breaks

ReadLands(t) ==
    LET c == tab[t] IN
    /\ c.read # 0
    /\ SetTab(t, [c EXCEPT !.data = c.read, !.stale = FALSE, !.asking = FALSE, !.read = 0,
                           !.gap = @ /\ c.read # truth[c.watch]])
    /\ UNCHANGED breaks

(* A request that fails leaves its query marked.                           *)
ReadFails(t) ==
    /\ tab[t].asking /\ tab[t].data # 0
    /\ Break
    /\ SetTab(t, [tab[t] EXCEPT !.asking = FALSE, !.read = 0])

(* Coming back to the window reads what is marked, or older than 30 s.     *)
ComeBack(t) ==
    /\ ~tab[t].asking
    /\ tab[t].stale \/ tab[t].gap
    /\ SetTab(t, [tab[t] EXCEPT !.asking = TRUE, !.read = 0])
    /\ UNCHANGED breaks

-----------------------------------------------------------------------------
WorkerStep(w) == Commit(w) \/ Publish(w)

TabStep(t) ==
    Receive(t) \/ SeeEnd(t) \/ Flush(t) \/ Read(t) \/ ReadLands(t) \/ \E p \in Procs : Open(t, p)

LiveNext ==
    \/ \E w \in Workers : \/ WorkerStep(w)
                          \/ \E p \in Procs, s \in Follow : Begin(w, p, s)
    \/ \E p \in Procs : Deploy(p) \/ Drain(p) \/ Exit(p) \/ Kill(p)
    \/ \E t \in Tabs : TabStep(t) \/ Expire(t) \/ Cut(t) \/ ReadFails(t) \/ ComeBack(t)

LiveSpec == LiveInit /\ [][LiveNext]_liveVars

(* A running process goes on, a deploy brings the next one up, and a tab   *)
(* reads what it was told.  Nobody has to come back to the window.         *)
Fairness ==
    /\ \A w \in Workers : WF_liveVars(WorkerStep(w))
    /\ WF_liveVars(\E p \in Procs : Deploy(p))
    /\ \A t \in Tabs : /\ WF_liveVars(Receive(t)) /\ WF_liveVars(SeeEnd(t)) /\ WF_liveVars(Flush(t))
                       /\ WF_liveVars(Read(t)) /\ WF_liveVars(ReadLands(t))
                       /\ WF_liveVars(\E p \in Procs : Open(t, p))

FairLiveSpec == LiveSpec /\ Fairness

-----------------------------------------------------------------------------
(* Properties.                                                             *)

(* Nothing is on its way to this tab any more.                             *)
Quiet(t) ==
    /\ tab[t].data # 0 /\ ~tab[t].asking
    /\ tab[t].stream = "open" /\ tab[t].wire = <<>> /\ tab[t].pending = {}
    /\ \A w \in Workers : work[w].step = "idle"

(* A connected screen with nothing on its way to it shows the truth, or    *)
(* knows that it does not, whatever streams were cut, ended for a full     *)
(* buffer or died with their process on the way -- except where the design *)
(* gives nobody the word: a change no event tells of, a change before the  *)
(* tab's first stream, one told by a process that is draining, one that is *)
(* only marked while a read is under way, and the eval screen, which a     *)
(* reopened stream does not read again.                                    *)
QuietScreenIsHonest ==
    \A t \in Tabs :
       Quiet(t) /\ tab[t].data # truth[tab[t].watch] => tab[t].stale \/ tab[t].gap

(* And without an end to cuts and changes it still gets there: from        *)
(* wherever it is, a screen comes to show the truth, be marked, or be      *)
(* beyond telling.  A query that is read again on every event is marked    *)
(* and left only if its request failed.                                    *)
ScreenCatchesUp ==
    \A t \in Tabs :
       []<>(\/ tab[t].data = truth[tab[t].watch]
            \/ tab[t].gap
            \/ tab[t].stale /\ (tab[t].watch = "list" \/ breaks > 0))

(* What every reachable state satisfies: its type, and honest screens.     *)
LiveInvariant == LiveTypeOK /\ QuietScreenIsHonest
=============================================================================
