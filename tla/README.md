# A verification project for the ticket manager

TLA+ models of the ticket manager: the mail it receives, the jobs that classify
and answer it, the outbox it answers through, the agents' and admins' routes
beside them, the eval runs that measure the answers, the knowledge base, demo
mode, and the two places where the browser keeps state of its own that must
agree with the server. TLC model-checks them on small instances; TLAPS proves
the most important properties for every value of the constants. Paths below are
relative to the repository's root; most of the code is in `apps/api/src`.

## 1. Inventory

The system is one Express process over Postgres (Prisma), with pg-boss for
background jobs, a mail provider in front and behind, a model provider, and a
browser client that reads over HTTP and listens to server-sent events. During a
deploy two processes run side by side. Components share the database rows;
nothing else is shared between them. Jobs are delivered at least once.

| component | state it keeps | operations | modelled in |
|---|---|---|---|
| Ingestion (`ingest.ts`, `routes/webhooks/*`) | `Message`, `Ticket` | receive an email: duplicate check, parent search, append or create; reopen | `Ingestion`, `AutoReply` |
| Classifier job (`jobs/classify-ticket.ts`) | `category`, `classifierCategory`, `classifiedAt`, trail | handle, give up, repair, reconcile sweep, offer | `Classifier` |
| Auto-reply job (`jobs/auto-reply-ticket.ts`) | `status`, `assignedToId`, `autoReplyDecline`, `autoResolvedAt`, `autoReplyOfferedAt`, trail | claim, gates, ask, resolve, release, handoff, recovery sweep, repair | `AutoReply`, `ReplyGates` |
| Outbox (`jobs/send-email.ts`, `routes/outbox.ts`, `jobs/prune-outbox.ts`, `outbound.ts`, `mail/transport.ts`) | `OutboundEmail` | enqueue, withhold, send, repair, retry, prune | `Outbox` |
| Job queue recipe (`jobs/boss.ts`) | pg-boss's tables | send, fetch, complete, fail, expire, cancel, dead-letter | `JobQueue` |
| Agents' routes (`routes/tickets.ts`) | ticket columns, trail | assign, move, file, open, reply | `Desk`; as actions of `AutoReply` and `Classifier` |
| Users and sessions (`routes/users.ts`, `auth.ts`, `middleware/*`) | accounts, sessions and their cookies, admins' trail | create, rename, change role, delete, sign in, guard | `Roster`, `Desk` |
| Handoff settings (`automation.ts`) | `AutomationSettings` | resolve, change, replace on deletion | `Desk`; a constant of `AutoReply` |
| Activity trail (`ticket-activity.ts`, `activity-diff.ts`, `jobs/prune-activity-trails.ts`) | `TicketActivity`, `AdminActivity`, `KnowledgeArticleRevision` | record, diff, prune | `Desk`, `Roster`, `Knowledge`, each with its prune; the machine's entries in `AutoReply` |
| Live events (`events/*`, `routes/events.ts`, `apps/web/src/lib/realtime*`) | open streams, the tab's cache | publish, subscribe, drop, drain, refetch | `LiveEvents` |
| Evals (`evals/start-run.ts`, `jobs/eval-*.ts`, `routes/eval-schedule.ts`) | `EvalRun`, `EvalCaseResult`, `EvalPlannedRun` | start, resume, close, plan, fire, miss, cancel | `EvalRuns`, `EvalPlans` |
| Knowledge base (`routes/knowledge.ts`) | articles and revisions | create, edit, propose, approve, turn down, archive, prune | `Knowledge` |
| Demo mode (`demo/*`, `jobs/demo-reset.ts`) | spend, identities, showcase | admit, mint, refuse, charge, reset | `DemoMode`; withheld mail in `Outbox` |
| AI helpers (`routes/ai.ts`) | none but the demo's budget | polish, summarise | the budget in `DemoMode`, the polish in `Composer` |
| Reply box (`apps/web/src/pages/TicketReplyComposer.tsx`, `lib/use-ticket-field.ts`) | the draft, the polish, the intent to resolve, the cached ticket | type, polish, undo, send, send and resolve | `Composer` |
| Pipeline screen (`routes/pipeline.ts`, `assistant-decisions.ts`, `packages/shared/src/pipeline.ts`) | none | a reading of the ticket columns | `Pipeline` |
| Statistics, lists, tutorials, changelog, dashboard layout, other pages, tools | per-user rows or none | queries, last write wins | not modelled (section 6) |

How they interact. A webhook call writes the message and, in the same
transaction, sends the classification job. The classifier files the ticket with
a conditional update and, some calls later, stamps and enqueues the auto-reply
in one transaction. The auto-reply claims the ticket by moving it to
`Processing`, asks the model, and commits the resolve, the message and the
outgoing email's row and job together, if nothing changed meanwhile. The send
worker takes it from there. While all of this runs, customers write, agents edit
the same columns, admins change who the agents are and what the machine may
say, two sweeps repair what died, dead-letter handlers repair what ran out of
retries, and after each commit an event tells the browsers to read again.
Nothing holds a lock across two calls: every coordination is a conditional
`updateMany` and its count, a unique index, or nothing.

What is hard, and what makes each component correct:

- *auto-reply*: two handlers of one ticket (redelivery, a stalled handler, the
  sweep); a message or an edit between the re-check and the resolve; death
  between any two calls. Correct when a customer gets at most one automated
  answer, only to an opening, with one verdict and one line of history, and no
  claim or offer is kept for good.
- *classifier*: a slow model call against an agent's filing; a second job from
  the sweep; an unfileable ticket. Correct when an agent's filing stands, the
  history is what was filed, what is filed is offered, and every ticket gets a
  verdict.
- *outbox*: the provider cannot be part of a transaction. Correct when a queued
  row has a job, is settled in the end, a second copy needs a named misfortune,
  and the prune takes only settled rows.
- *ingestion*: concurrent and repeated deliveries, out of order. Correct when an
  email is one message on one ticket, the best one there was, and success is
  answered only for what is stored.
- *evals*: each case costs money, and a run survives the worker that answers it.
  Correct when a completed run is whole, a case is paid for once per mishap, an
  open run has a job, and a plan is decided once and charged for at most once.
- *desk and roster*: every route checks one reading and writes another moment,
  and an assignee is recorded by a name that somebody else may change. Correct
  when an admin remains, a stale reading damages a trail no further than its own
  entry, the deleted own nothing and stay out, and a mark "seen" means that the
  assignee looked.
- *knowledge*: an edit needs a second admin only if it could reach the corpus,
  and that is decided on a reading. Correct when nothing reaches the corpus
  unseen, what is live is in the trail, and a decision stands.
- *live events*: at-most-once, over a stream that is cut, expires, overflows or
  dies with its process. Correct when a quiet screen is right or known to be
  wrong, and every screen gets there.
- *demo mode*: strangers, a clock, a cookie that is a copy of a row. Correct when
  the limits hold under concurrency, a refused session stays refused, and the
  reset removes those whose time is up and nobody else.
- *reply box*: intent and draft live between a press and an answer. Correct when
  nothing is resolved unasked, no draft is lost, no copy goes out without a
  failure, and an unmarked screen is true.

## 2. Modules and how they correspond to the code

**The jobs**

- `JobQueue` - one queue and its dead-letter twin, as `registerWorker` sets
  them up. `jobs` are the rows, `held` the job a running handler will report on;
  a job that expires is taken from its handler, whose report then counts for
  nothing. Retries have no delay: a delay only removes interleavings. The job
  modules instantiate it and add their handlers.
- `ReplyGates` - `gateDecline`, the gates in their order, as a function of the
  three facts they read.
- `AutoReply` - `handle` as a chain of actions, one per database call
  (`Claim`, `Read`, `Ask`, `Recheck`, `Resolve`, `Reread`, `File`,
  `LogResolved`, `Release`, `Handoff`, `LogDeclined`), `onExhausted`
  (`StartRepair`, then the release), `recoverStuck` (`SweepReads`,
  `SweepReleases`, `SweepEnqueues`, `SweepDies`), the end of the classifier's
  handler, the thread branch of ingestion with the reopen after its commit
  (`ReopenLogs`, `ReopenReroutes`, `ReopenTells`: an entry, an assignment and its
  entry are three writes), and the agents' writes. The resolving transaction is two actions, the re-check and
  the conditional update, because under READ COMMITTED another commit may fall
  between them; the update and the message it goes with are one.
  `lastMessageAt` is a counter: the code compares timestamps for equality, so
  two messages within one millisecond are not told apart by the code and are by
  the model.
- `OpeningAnswer` - what the feature promises: an opening is answered or
  declined, once. `AutoReply` implements it with a ticket's verdict read off its
  thread and its decline column.
- `Pipeline` - the screen that draws the unattended path, as a reader of
  `AutoReply`'s rows: what `toRun` says of a ticket, and what `pipelineCounts` and
  `pipelineStageCounts` add up to.
- `Classifier` - `handle` (`Read`, `Ask`, `GiveUp`, `File`, `Log`, `Offer`),
  `onExhausted` (`Repair`), `reconcile` (`SweepReads`, `SweepOffers`), and agents
  filing and clearing by hand. Behind the filing, `assistantActor` and the enqueue
  may throw (`DatabaseThrows`) where the write of the entry may only fail quietly. The auto-reply is taken to be switched on here.
- `Outbox` - `enqueueEmail`, `withholdEmail`, `handle` (`Read`, `NoProvider`,
  `Deliver`, `Settle`), `onExhausted`, the admin's retry, the prune in its two
  statements, and a ghost, `copies`: how often the provider took an email.
  `deliver` is external: today's `mail/transport.ts` binds no provider and
  throws when one is configured, and its doc comment lists the outcomes a
  provider may produce, all of which the model has.
- `MailPromise` - what a row promises: queued mail is kept until it is settled,
  only failed or undeliverable mail is revived, demo mail never leaves, only
  settled mail is discarded.
- `Ingestion` - a webhook request as `Dedupe`, `FindParent`, then `AppendMessage`
  or `Create`, then `Answer`; the unique index makes the two inserts conditional.
  `Post` is the provider, which is external. `known` is a ghost: what was stored
  when the delivery that stored an email began.
- `Correspondence` - one email, one message, one ticket, for good, and success
  answered only for what is stored.
- `EvalRuns` - a run and its job written together (`StartEvalRun`), the worker
  that reads the run, lists what is answered, and measures and stores case after
  case under the unique index on case results, then closes it conditionally with
  the totals it read; the repair behind the last retry. What is left of the
  loop is the set of positions (`todo`) still to come to, taken in order; `at` is
  the one being measured. `paid` is a ghost: how often a case was measured. A
  deploy may drop a case from the set.
- `EvalPlans` - a plan with its deferred job: fired by a claim before its run is
  opened and linked after, missed past its grace or by the repair, cancelled in
  two writes. Its clock is three phases: before, within the grace, past it.
- `PlanPromise` - a plan is decided once, and only a plan that fired is charged
  for, once.

**The desk**

- `Roster` - accounts with their name and role, the admins' routes over them (let
  in, read, write, record: four steps), the guard, sign-in in two steps (the
  check for a ban, and the row behind the awaited hook), sessions with their copy
  in a cookie, and the yearly prune of the admins' trail. Better Auth is modelled
  from how `auth.ts` configures and calls it.
- `Desk` - `Roster` composed with the agents' ticket routes: a PATCH reads, then
  writes in a transaction and records the difference to what it read, an
  assignee by the name they have then; "seen" is a conditional write behind a
  read; deleting a colleague lists their tickets, then clears them in a
  transaction with the account; the handoff fills in an owner conditionally; an
  account's new name is at once the assignee's of every ticket they own; the
  prune takes the oldest entry of a trail, one at a time, whatever is under way.
  Ghosts name what the code knows to be weaker, as narrowly as it can be named.
  An *entry* is `loose` if it was written from a reading that no longer held, or
  is the first since a move nobody told: nothing is claimed of where it starts.
  A *field* of a ticket is `muted` from a move without an entry (a rename, a
  handoff, a PATCH whose stale reading hid it, a deletion's unlisted ticket) to
  its next entry, and a field of an account is `overlapped` from an edit that
  died unrecorded or overlapped another to the next edit recorded by itself:
  meanwhile the trail may end elsewhere than at the row. `base` and `adminBase`
  keep what the pruned entries left. Further: `overtaken` (assigned on a check
  from before the deletion), `swayed` (a request acted on a role that had
  changed), `slipped` (deleted with a sign-in under way), `unnoticed`.
- `Knowledge` - each route as its reads and its transaction; `needsApproval` on
  what was read; the yearly prune of the revisions, which keeps each article's
  newest.
- `DemoMode` - the sliding window per address, the identity and its session, the
  refresh and the cookie's copy, refusal by a call of the page's, which answers
  the browser with cookies, and by a guard's, of which only the verdict comes
  back (`middleware/session.ts:35-40`): the row is gone and the copy stays, the budget asked before and charged
  after a call, the midnight reset and the showcase in its two steps. The times
  the window keeps are a set, each with whose start it was: the code only
  filters and counts them.

**The browser**

- `LiveEvents` - sixteen kinds of commit (`Sites`: which queries' answers each
  changes and what it publishes), the hub and a stream's life, a deploy with a draining process, and
  a tab with one watched query. Events carry no data, so `truth` counts changes
  of the query's answer and a tab holds the count it last read. React Query is
  external, modelled from the options `query-client.ts` and `realtime.tsx` give it.
- `Composer` - one reply box on one ticket: typing, polish, undo, send, "Send &
  resolve", the status change behind it, the status select beside it (disabled
  while its own request is under way), and the cached ticket that answers,
  events and reads write to in whatever order they arrive.

`MCAutoReply`, `MCIngestion`, `MCEvals`, `MCDesk`, `MCKnowledge` hold instances for
TLC; the other modules are checked directly. `AutoReplyProofs` (which covers
`Pipeline` too), `IngestionProofs`, `ClassifierProofs`, `OutboxProofs`,
`DeskProofs` (with `Roster`), `KnowledgeProofs`, `ScreenProofs` (`Composer` and
`LiveEvents`) and `DemoEvalProofs` (`DemoMode`, and `EvalPlans` with `EvalRuns`)
hold theorems and proofs. The last two each prove about two components whose
names are disjoint.

Left out of the models: the wording and checks of a reply (one choice of
outcome), and, except in `LiveEvents`, event publishes. `recordActivity` swallows
a database error: `Classifier` has it; in `AutoReply` the machine's entry is a
handler's last call, so a crash there says the same.

## 3. Runs

Every module has one state invariant that is a conjunction of named parts, its
type invariant among them; what has a mutant, a theorem or a question of its own
stands beside it.

| run | instance | what it shows |
|---|---|---|
| `AutoReplyRaces` | 1 ticket, 2 handlers, 2 job slots, 1 retry, 3 categories, 2 inbound mails, one each of edit, model failure, crash, sweep crash, stall; the switch moves; 2.3 million states | `AutoReplyInvariant` (`TypeOK`, `OneAutomatedReply`, `OneVerdict`, `ClaimInvariant`), `HistoryTellsOneVerdict`, `HandedBackIsOwned`, `AnswersOpenings`, `OpeningAnswer` implemented (`KeepsPromise`), and on the screen `RailAddsUp` |
| `AutoReplyProgress` | the same with 2 retries, one failure, one crash, tickets that age; fair | `WaitingHasJob`, `ClaimIsGivenUp`, and on the screen `PendingIsDecided` |
| `Outbox` | 2 emails of a ticket (one a demo's), 2 handlers, 2 job slots, one each of admin retry, crash, killed repair, stall, lost answer; moving provider, deleted tickets; fair; 0.66 million states | `OutboxInvariant` (`TypeOK`, `QueuedHasJob`, `DuplicatesNeedTrouble`), `MailPromise` implemented (`KeepsMailPromise`), `QueuedIsSettled` |
| `Classifier` | 1 ticket, 2 handlers, 2 job slots, an edit, crash, stall, key comes and goes, ticket ages; fair; 0.96 million states | `ClassifierInvariant` (`TypeOK`, `HistoryIsTheFiling`, `FiledIsOffered`), `AgentsFilingStands`, `GetsVerdict` |
| `Ingestion` | 4 emails of one conversation (an opening, the desk's reply, two answers quoting both), 2 requests, 2 killed; fair | `JoinsBestRelative`, `Correspondence` implemented (`KeepsCorrespondence`), `PostedIsReceived` |
| `Evals` | 1 run, 2 cases (one may be dropped), 2 handlers, 1 plan with its worker, at most 2 mishaps of a crash, a killed repair, a stall, a rename and 2 failed writes; fair; 0.35 million states | `EvalInvariant` (`PlansTypeOK`, `CompletedIsWhole`, `OpenRunHasJob`, `PaysOncePerMishap`, `FiredHasRun`), `RunIsClosed`, `PlanPromise` implemented (`KeepsPlanPromise`), `PlanIsDecided` |
| `LiveEvents` | 1 tab on any of four screens, 2 processes, 2 routes at once, 2 commits of five kinds, a buffer of 2 frames, 1 break; fair; 1.1 million states | `LiveInvariant` (`LiveTypeOK`, `QuietScreenIsHonest`), `ScreenCatchesUp` |
| `Desk` | 2 admins, an agent, a colleague yet to be created, the assistant, 1 ticket, 2 names, 2 bodies of an edit (a promotion under one name, a demotion under the other), 2 admins' and 2 agents' requests, 3 events; 1.0 million states | `DeskInvariant` (`TypeOK`, `EditsAreRecorded`, `TrailTells`), `AdminRemains`, `DeletedOwnsNothing`, `SeenWasOpened`, `DeletedStaysOut` |
| `Knowledge` | 2 admins, 2 requests at once, 2 articles, 3 requests in all; 1.7 million states | `KnowledgeInvariant` (`TypeOK`, `LiveIsInTrail`, `ArticleKeepsRevision`, `QueueIsBounded`), `FourEyes`, `DecisionStands` |
| `Demo` | 2 visitors, 2 calls at once, 2 restarts, an hour of 2 ticks, a session of 3, a day of 4, watched past midnight, a day's allowance of one call; 3.7 million states | `DemoInvariant` (`TypeOK`, `NoHourIsOverfull`, `GoneIsOut`, `ShowcaseStands`), `RefusedIsNotRevived`, `NobodyLingers`, `BudgetHolds` |
| `Composer` | 2 texts, 3 calls, a failure, a refused draft, someone else's write, a page left; 3.8 million states | `ComposerInvariant` (`TypeOK`, `OneCallEach`, `CopiesNeedFailure`, `PolishIsTraceable`, `NoBubbleTwice`), `ResolveIsAsked`, `UnmarkedScreenIsTrue`, `DraftIsKept` |

One run checks a statement of a comment and TLC finds the code doing otherwise:
`AutoReplyExhausted` (`WaitingHasJob`). Out of retries a ticket should go to an
agent, but the handler has already put it back in New, and the repair matches
Processing only. Section 5 lists what the passing runs' exceptions stand for.

**Bounds.** Every bound is a constant whose name starts with `Max`, a set whose
comment says `bound`, or the number of handlers, slots and requests.
One ticket is enough for the job modules: their properties speak of one ticket,
handlers of different tickets touch different rows, and the proofs cover every
set of tickets. Two handlers and two jobs are what a race over one ticket needs
(a stalled first delivery and its successor; the sweep's job beside pg-boss's
own). Two inbound mails make an opening and a follow-up; a third changes no
gate. One crash, one stall and one edit can each fall between any two calls, and
together. In `Ingestion` two requests let two deliveries of one email overlap, or
a reply overtake what it answers. A second email in `Outbox` lets the prune hold
two rows and the queue two payloads. In `Evals` one run and one plan compete for
nothing with others of their kind; two handlers are a stalled delivery and its
successor. In `Desk`, two requests of each kind interleave at every read and
write, and three events are what a demotion under a sign-in under a death takes,
or two edits and a prune, a rename between two assignments, a deletion of one
who is signing in. The two bodies move, of an account as it is at first, one its
name and one its role, and of one that has moved both. The proofs cover any number. In `Knowledge` three requests are a proposal, and
two decisions or edits over it. `Demo`'s lengths are pairwise different, so that
an hour, a session and a day end at different ticks and every edge is met; its
two restarts are demo mode going off and on again, and its allowance of one call
is passed by the second of two under way (the proof has any allowance).
`Composer`'s two texts are a draft and its polish, or two replies; three calls are
a send, the resolve behind it, and one more; a second failure or reader adds no
new order. In `LiveEvents` two commits are one told while the other is read.
`CHECK_DEADLOCK FALSE` is in every cfg because a bounded world ends: once its
tickets are settled and its bounds spent nothing has to happen.
Symmetry permutes handlers and jobs in `AutoReplyRaces`, and alike admins in
`Desk` and `Knowledge`, none of which checks liveness.

**Fairness.** Weak fairness of: a handler's next call, a worker's polling of a
created or dead job, the expiry of a dead handler's job, the cron sweeps, the
end of the classifier's handler, the passing of a plan's time; in `LiveEvents` of
a running process's publishes, the next process of a deploy, and the tab's
receiving, reopening and reading. These are what a running process and browser
do (`jobs/boss.ts` registers workers and schedules at start-up and pg-boss
monitors expiry; `EventSource` reconnects by itself). None for a crash, a stall,
a person, the model's answer or the mail provider's. In `Ingestion`, strong
fairness of the posting of each email: the mail provider retries until it is told
of success, and a slot for its call is free again and again. (A real provider
gives up after hours; the property is about outages shorter than that.)

**Mutants.** `PROJECT.json` lists, for every property of a passing run, a
plausible bug of one definition under which TLC finds the property violated.
The mutated forms stand above the definitions they would replace and are
marked `Mutant`.

## 4. What is proved

Every state invariant, action property and refinement of the runs, for every
value of the constants; `WaitingHasJob` as long as five named misfortunes stay
away, since without that it is false. Each component's theorems follow one argument: an inductive invariant, checked with
TLC before it was proved; a lemma that `Init` implies it; one lemma per action or
group of actions; and PTL. The bounds (`Max...`) are constants like any other, so
the theorems hold for every number of crashes, edits or retries.

The assumptions on constants are the named `ASSUME`s of the component modules:
the limits are naturals, the sets are disjoint where the code's are, and
`Tickets`, `Handlers`, `JobIds` and `Requests` are finite where a property counts
their members (`PipelineAssumption`, `OutboxAssumption`, `ClassifierAssumption`,
`KnowledgeAssumption`), and `Cases` and `Handlers` in `EvalRunsAssumption`. The
other components' theorems need no finiteness.

`AutoReplyProofs`, for any tickets, handlers, jobs, agents and retry limit:

- `AutoReplyIsSound` (`AutoReplyInvariant`), from `TypeCorrect`, `ClaimsAreSound`,
  `AnsweredOnce` and `OneVerdictEver`. Neither of the last two is inductive. `IInv`
  adds why the resolve's `where` is enough: `VersionCountsMessages`
  (`lastMessageAt` moves with every message, whoever writes it),
  `SnapshotIsOpening` (a handler past its gates remembers a thread of one
  message and an answerable category) and `VerdictEndsClaims` (a ticket with a
  verdict is neither New nor Processing, so no claim and no release reaches it).
  When the resolve matches, the version says that the thread still has one
  message; so nothing automated is in it, and the one it adds is the first.
- `OnlyOpeningsAnswered` (`AnswersOpenings`) and `PromiseKept` (`KeepsPromise`):
  the action property, and the refinement of `OpeningAnswer`, each step mapped
  to a step or a stutter.
- `HistoryIsTold` (`HistoryTellsOneVerdict`). `Told` says who owes an entry: a
  handler between its verdict and its log, at most one per ticket, and none once
  the entry is written.
- `HandedBack` (`HandedBackIsOwned`): a ticket declined and unowned has a handler
  at its `handoff`, until a crash or an edit.
- `RailIsWhole` (`RailAddsUp`): the stages of the pipeline screen are a partition
  of the checked tickets. `FiledFirst` adds that nothing but the classifier has
  touched a ticket that is not filed.

`IngestionProofs`, for any emails and any quoting between them, any number
of requests:

- `TypeCorrect`, `BestRelativeJoined` (`JoinsBestRelative`) and
  `CorrespondenceKept` (`KeepsCorrespondence`). The invariant `IInv` adds what a
  request in flight knows: where it was before its parent search, the
  candidates it will look at; after it, that every relative known when it began
  is no better than the one it chose. Rows never move to another ticket, so
  what was true at the search is true at the insert.

`ClassifierProofs`, for any tickets, deliveries and categories:

- `ClassifierIsSound` (`ClassifierInvariant`) and `AgentsFilingIsKept`
  (`AgentsFilingStands`). A filed ticket is offered unless its handler was killed
  or thrown out between the two (`dropped`). `EntriesCovered` is the counting argument: the entries
  written, and the handlers about to write one, are no more than the times the
  column was filled (the filling it shows, and those agents cleared);
  `PastFiling` says a handler past its filing has left its mark on the row.

`OutboxProofs`, for any emails, handlers, jobs and retry limit:

- `OutboxIsSound` (`OutboxInvariant`). For `QueuedHasJob`, `Holding` ties every
  handler to the job it will report on, and `RepairsHeld` a dead job in repair to
  its handler. For `DuplicatesNeedTrouble`, `CopiesAccounted` counts what may
  still send: jobs nobody holds and handlers that have not been told, each worth
  one copy, plus the copies there are, are at most the misfortunes so far plus
  the one a row is allowed. Hence finite handlers and jobs.
- `MailPromiseKept` (`KeepsMailPromise`): the rows implement `MailPromise`;
  `DemoWithheld` and `Written` are what the mapping needs of the rows, `ToldTrue`
  that a handler says "accepted" only of mail that was taken.

`DeskProofs`, for any accounts, tickets and requests under way:

- `AnAdminRemains` (`AdminRemains`). `RosterInv` adds what a request that got
  past its checks carries: an edit about to be written is not its caller's own
  demotion, and a deletion under way is not of an admin, as each read them. So
  the last admin could only be demoted by another, who is one too, unless what
  a request read has changed under it (`swayed`).
- `TheDeletedOwnNothing` (`DeletedOwnsNothing`). `TicketInv` adds that a PATCH
  about to assign carries somebody who was there when it was checked.
- `SeenOnlyIfOpened` (`SeenWasOpened`), with what a request about to mark read;
  `TheDeletedStayOut` (`DeletedStaysOut`), with `LeftOut`: a deleted account has no
  session and no sign-in under way, unless it is named in `slipped`, so nothing
  renews its cookie.
- `DeskIsSound` (`DeskInvariant`): the trails. `EditsInv` follows each field of an
  account through an edit written and not yet recorded: `EditTold` says that what
  the trail leaves is what that edit read, and that an edit which is `alone` has
  no other beside it. `FieldTold` is the same for a field of a ticket, which needs
  no such memory: a PATCH writes the row and the entry together. A trail that
  grows at its end or loses its oldest entry keeps what it leaves (`OwnEntry`,
  `OtherEntry`, `OldestGoes`), and every step is shown to write no entry of the
  field, one that tells its move, or a move and a mark (`Spares`, `Tells`). Trails
  are compared by index (`JoinUp`, `Leave`), since what a recursive walk over a
  sequence computes is out of the prover's reach.

`KnowledgeProofs`, for any articles, admins and requests under way:

- `FourEyesAlways` (`FourEyes`), `KnowledgeIsSound` (`KnowledgeInvariant`).
  `RequestsSound` is what a request past its checks knows: who is let in, that
  the article is there, that a direct edit takes the flag away, that nobody
  approves their own. `Vouched` says of every flagged article, archived or not,
  which revision vouches for it: restoring one asks nobody. `Spared` says which
  revision of an article the sweep under way will not take.
- `DecisionsStand` (`DecisionStands`), from the claims' `where`.

`DemoEvalProofs`, of the demo, for sessions, hours and days of any length and any
limits:

- `DemoIsSound` (`DemoInvariant`); of its parts `HoursAreKept` (`NoHourIsOverfull`:
  `StartsInv` says that every start less than an hour old is in the window, so
  the last of any hour's starts was admitted with the others counted),
  `RemovedIsOut` (`GoneIsOut`) and `ShowcaseIsKept` (`ShowcaseStands`: the reset's
  transaction swaps the whole showcase or nothing, since a ticket left behind
  trips the unique index).
- `BudgetIsKept` (`BudgetHolds`): the calls under way and answered, which are at
  most `MaxCalls`, are all that can be charged past the limit.
- `RefusalStands` (`RefusedIsNotRevived`), `ResetRemovesTheEnded` (`NobodyLingers`).
  `VisitInv` ties a row's end to its start whatever the refreshes made of it, a
  cookie to the row it copies, and a refusal to both: by the page neither is
  left, by a guard the row is gone and the copy is the one refused, which
  nothing renews. `RemovedIsOut` excepts that copy, and nothing else.

and of the eval screen, for any plans, runs, cases, workers, retry limit and
number of mishaps:

- `EvalsAreSound` (`EvalInvariant`). `Sound`, the inductive invariant, is `RunsInv`
  for the runs and `PlansSound` for the plans. None of the promises is inductive:
  - `OpenRunHasJob` needs `QueueInv` (a run has one job, a job one holder, and the
    holder is at that job's run) and `RepairInv` (a dead job being repaired is in
    somebody's hands, or its repair was killed).
  - `CompletedIsWhole` needs `LoopInv`: what a worker has still to do and what is
    stored are, together, all the cases the build names, so one at `sum` leaves
    none out; and it skips only what is stored. `SumInv` adds that a total
    is not overtaken before the close, which takes two workers on one run, and so
    a stall (`StallInv`: workers whose job expired under them are no more than
    the stalls) with a rename under it: the corner `CompletedIsWhole` names.
  - `PaysOncePerMishap` needs `PayInv`, the counting argument. Before a case is
    stored, its payments are those still held at `store` and those lost with
    a worker; afterwards, payments made and payments still to come (`Unaware`:
    workers who listed the results before the case was stored and have yet to
    reach it) are at most its mentions, the losses and the stalls. The insert
    turns the first bound into the second: every rival at `store` or unaware is
    a worker stalled on the run.
  - `FiredHasRun` needs `PlansInv`: a claimed plan has one claimer and no run
    until that claimer opens it.
- `PlansKeepTheirPromise` (`KeepsPlanPromise`): the routes and the firing job
  implement `PlanPromise`. `OpenRun` is the only step that charges; `PlansInv` says
  that the plan has fired, was not charged for, and that the run is new.
- `SettledIsFinal`: a closed run is not closed again and a stored case not stored
  over, whoever of a resumed, a stalled and a repairing worker comes last.

A step of the runs first becomes one of six kinds (`Onward`, `Left`, `Begins`,
`Expires`, `Opens`, `Elsewhere`), a step of the plans `PlanQuiet`, a claim, an
opening or a link; the invariant's parts are proved over those kinds and not
over thirty actions.

`ScreenProofs`, of the composer, for any number of texts, calls, failures and visits:

- `ComposerIsSound` (`ComposerInvariant`). `LocksInv`: calls belong to this visit
  to the page or an earlier one. `BoxInv`, `CallsInv`: while a call is out the box
  holds what it was given. `HoldersApart`: nothing that may still be sent is held
  twice, not by two calls, nor by a call of an earlier visit and the box.
  `CopiesInv` then accounts for copies: a text that may still be sent has one
  fewer to its name than the failures allow; `DraftsInv` does it for polishes.
- `ResolveWasAsked` (`ResolveIsAsked`), by `IntentInv`: until a draft over the cap is
  refused, an intent to resolve has its press.
- `ScreenIsTrue` (`UnmarkedScreenIsTrue`), by `PageInv`: a read under way marks the
  screen, and one that came back has what the server has unless an event is
  about to tell otherwise.
- `DraftStays` (`DraftIsKept`).

and of the push channel, for any tabs, processes, routes, commits and buffer:

- `QuietScreensAreHonest` (`LiveInvariant`). `Tidy` is a tab by itself: never ahead
  of the truth, asking until it has a first answer, marked whenever it asks
  again. A tab that is behind has something that will bring it the truth
  (`Reached`: a mark, an event on the wire or pending, a lost stream whose return
  reads the query again) or a route has committed and is about to say so
  (`AboutToHear`). Quiet is when none of these is left but the mark or the gap.

Only model-checked, because the prover has neither fairness nor ENABLED: the
liveness properties (`ClaimIsGivenUp`, `PendingIsDecided`, `QueuedIsSettled`,
`GetsVerdict`, `PostedIsReceived`, `RunIsClosed`, `PlanIsDecided`,
`ScreenCatchesUp`). `SettledStands` is only proved: no run repeats it.

## 5. Where the code, its comments and the models part

Each of these was met while modelling. Where a property holds but for it, the
property names the exception (a ghost, or a count of mishaps), so that nothing
else can hide behind it.

*The jobs*

- Out of retries: `AutoReplyExhausted`, above (`auto-reply-ticket.ts:720`).
- The sweep dies between its release and its enqueue, and no sweep looks at New
  (`auto-reply-ticket.ts:696`, against `boss.ts:407`): `AutoReplyProgress` has
  `MaxSweepCrashes = 0`.
- A worker dies between handing back and naming the owner
  (`auto-reply-ticket.ts:271`, against `docs/standards/domain.md:19`):
  `HandedBackIsOwned` excepts a crash.
- The customer's reply overtakes the assignment to the assistant
  (`auto-reply-ticket.ts:625`, against `domain.md:37`): the open ticket is then
  the assistant's. No property excludes it.
- The classifier's handler dies between filing and offering, or a call there
  throws (`assistantActor()`, `classify-ticket.ts:296`, outside what
  `recordActivity` catches; `enqueueAutoReply`, `:320`): the retry finds the ticket
  classified and returns (`:213`), and the offer is lost. `FiledIsOffered` excepts
  the tickets of those handlers. A slow delivery
  files what an agent has cleared (`classify-ticket.ts:258`, against the comment
  at `:337`): `HistoryIsTheFiling` counts it.
- The outbox's dead-letter repair is not retried (`send-email.ts:306`, against
  `:300` and `schema.prisma:819`): `QueuedHasJob` and `QueuedIsSettled` except a
  killed repair.
- A worker that dies between the provider's acceptance and the write of it sends
  a second copy on redelivery. `send-email.ts:48-60` accepts that;
  `DuplicatesNeedTrouble` bounds it by the misfortunes that happened.
- An eval run or plan whose repair is killed stays open or planned; a fired plan
  whose worker dies between claim and link has no run, which the order was
  chosen for (`eval-planned-run.ts:154`).
- On the pipeline screen an offered ticket a person took without replying reads
  `pending` (`domain.md:29`): `TakenUnanswered`. A ticket filed but not yet
  offered, or answered by hand but not yet claimed, reads `notOffered` for a
  moment and then goes on, although `toRun`'s comment says it is not coming back.

*The desk*

- Two admins who demote each other on cookies older than the demotion leave no
  admin, and an admin's own role can move through a stale edit, against
  `routes/users.ts:231-236`: `swayed`. A PATCH of a user does not look at
  `deletedAt`.
- The trail can disagree with the row, against `routes/tickets.ts:218-220`, and the
  next entry of the field then starts from a value the trail never reached:
  after two PATCHes of one field overlapped, the second asking for what it read
  (it writes no entry and undoes the first); after a rename of the assignee,
  which the ticket's trail does not record (`users.ts:263`); after a hand-back,
  whose entry tells why and not to whom (`auto-reply-ticket.ts:194-223`); after a
  deletion, for a ticket assigned between its listing and its transaction, which
  loses its owner without an entry, or reassigned there, which gets one for a
  move that did not happen (`users.ts:444`). `muted`, and `loose` for the entry.
  A ticket that is `muted` agrees again from the field's next entry on.
- An account's edit that dies before its entry, or overlaps another, leaves the
  admins' trail behind (`users.ts:263-290`): `overlapped`, until an edit of that
  field is recorded by itself.
- "Deleting the sessions is what signs the user out" (`users.ts:429`): a sign-in
  past Better Auth's check for a ban inserts its session after that, since the
  hook before the insert (`auth.ts:345-357`) is awaited and asks only whether
  the user is a demo's: `slipped`.
- A ticket assigned on a check from before the deletion stays with the deleted
  colleague: `overtaken`. `assignmentSeenAt` is not cleared by a deletion nor by
  `assignIfUnowned`, against "sole writer" (`tickets.ts:730-733`), and a ticket
  taken away and given back can be marked seen by the first reading: `unnoticed`.
- `routes/knowledge.ts:403-407` promises one proposal at a time; two requests at
  once make two: `QueueIsBounded`. An article created with the flag on is live
  unreviewed. Approving a proposal overwrites a newer direct edit. An archive
  that finds the article archived records an event again (`:618-619`).

- "The row is deleted and the cookies expired first, so switching demo mode back
  on does not revive it" (`auth.ts:480-481`) holds of a refusal the page hears. A
  guard calls `auth.api.getSession` and drops the headers of its answer
  (`middleware/session.ts:35-40`), so the copy in the browser stays for the rest
  of its 60 seconds; with the switch on again meanwhile it is served, past a
  midnight reset too. `RefusedIsNotRevived` says that this copy is the last, and
  `GoneIsOut` excepts it.

*The browser*

- A tab misses what was published before its first stream, and what a draining
  process publishes after the tab moved on; the eval screen is not read again
  after a reconnect (`realtime.tsx:113-116`), so an eval event lost with a cut
  stream, or dropped with its frames when a slow stream overflows, is not made
  up for (the overflow was found while making `LiveInv` inductive); a mark that
  lands under a read is wiped by it; a user's deletion publishes nothing. All
  are `gap`.
- What a commit changes and no event tells, all `gap` too: a claim takes the ticket
  out of the list and the views and changes the status its page shows, and a
  release brings it back (`pipeline_changed` alone is published, the ticket being
  hidden while it is claimed by design); `patched` and `reopened` change the
  status or category the pipeline's rows carry (`pipeline.ts:389-394`) and do not
  publish `pipeline_changed`; an offer and a mark "seen" publish nothing. An
  assignment does not move the pipeline: its rows have no assignee.
- "Send & resolve" on a draft over the cap leaves the intent behind, and the next
  plain send resolves the ticket too (`TicketReplyComposer.tsx:308-312`, which
  its comment at `:263` rules out): `ResolveIsAsked` excepts it.

## 6. Not modelled, and why

- `GET` routes (statistics, lists, search), tutorials, changelog, dashboard
  layout: queries, or one user's rows that the last write wins. There is no
  interaction to check.
- The pages of the web client but the reply box and the push channel, including
  `EvalsPage.tsx`: they draw what they are given.
- The checks on a reply's text (`ai/*`), the eval cases (`core/src/cases`), the
  showcase's contents (`demo/showcase.ts`, of which the swap is modelled), the
  citations' checker (`doc-citations.ts`): text and data. One choice of outcome
  stands for them.
- `routes/evals.ts` reads; the one write in it is `StartEvalRun`.
- The nightly eval schedule's two writes (`eval-schedule.ts:228`), the demo's
  weekly tally and per-user AI window, invitations' mail and
  tokens, an account's address, signing out and what signing in checks (Better
  Auth's), the prune of `AutomationSettingsRevision`.
- `apps/web/dev`, scripts and tests: tools.

That is also why the map covers about a tenth of the repository's lines: most of
the rest is pages, cases, prose, wire types and reads. Of the server files that
write state which others read, it covers between half and nearly all.

## 7. Plan

1. The nightly schedule beside `EvalPlans`; the weekly tally in `DemoMode`.
2. An edit or a redelivery more in the small instances as machines allow: the
   proofs already cover the safety of any number, the liveness runs would gain.
