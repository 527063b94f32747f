----------------------------- MODULE EvalPlans -----------------------------
(***************************************************************************)
(* Runs asked for at a future time: the plans of                           *)
(* apps/api/src/routes/eval-schedule.ts and the deferred job of            *)
(* apps/api/src/jobs/eval-planned-run.ts that fires them, composed with    *)
(* the runs they open.                                                     *)
(*                                                                         *)
(* A plan is claimed before its run is opened, and a cancel is two writes: *)
(* the row, then the queue.  The clock of a plan is abstracted to three    *)
(* phases: before its time, within the grace window, and past it.          *)
(***************************************************************************)
EXTENDS EvalRuns

CONSTANTS
    Plans,         \* the planned runs' ids
    PlanHandlers,  \* activations of the firing worker
    PlanJobIds,    \* job slots of its queue
    AllCaseIds     \* ALL_EVAL_CASE_IDS: what an unattended run is asked

ASSUME EvalPlansAssumption ==
    /\ "none" \notin Plans \cup PlanJobIds
    /\ AllCaseIds \in Requests

VARIABLES
    plan,       \* EvalPlannedRun.status, "absent" before it is written
    phase,      \* where its time is: "early", "due" or "late"
    linked,     \* EvalPlannedRun.runId
    opened,     \* ghost: the runs opened for each plan
    releasing,  \* cancels whose second write is still to come
    firing,     \* what each activation of the firing worker is doing
    planJobs, planHeld

planQueueVars == <<planJobs, planHeld>>
planVars == <<plan, phase, linked, opened, releasing, firing, planJobs, planHeld>>
evalVars == <<plan, phase, linked, opened, releasing, firing, planJobs, planHeld,
          run, results, paid, known, task, mishaps, jobs, held>>

(* Everything of the runs but the count of mishaps, which is shared.       *)
runRest == <<run, results, paid, known, task, jobs, held>>

PlanQueue == INSTANCE JobQueue WITH
    Items <- Plans, Handlers <- PlanHandlers, JobIds <- PlanJobIds,
    jobs <- planJobs, held <- planHeld

EVAL_PLANNED_RUN_STATUS == {"planned", "cancelled", "fired", "missed"}

Firing == [step : {"idle", "read", "markMissed", "claim", "open", "link", "repair"},
           plan : Plans \cup {"none"}, run : Runs \cup {"none"}]

AtRest == [step |-> "idle", plan |-> "none", run |-> "none"]

(* The type invariant of the whole: plans, runs and both queues.           *)
PlansTypeOK ==
    /\ plan \in [Plans -> EVAL_PLANNED_RUN_STATUS \cup {"absent"}]
    /\ phase \in [Plans -> {"early", "due", "late"}]
    /\ linked \in [Plans -> Runs \cup {"none"}]
    /\ opened \in [Plans -> SUBSET Runs]
    /\ releasing \in SUBSET Plans
    /\ firing \in [PlanHandlers -> Firing]
    /\ PlanQueue!QueueTypeOK
    /\ RunsTypeOK

PlansInit ==
    /\ plan = [p \in Plans |-> "absent"]
    /\ phase = [p \in Plans |-> "early"]
    /\ linked = [p \in Plans |-> "none"]
    /\ opened = [p \in Plans |-> {}]
    /\ releasing = {}
    /\ firing = [w \in PlanHandlers |-> AtRest]
    /\ PlanQueue!QueueInit
    /\ RunsInit

-----------------------------------------------------------------------------
(* The routes.                                                             *)

(* POST /planned-runs: the row and its deferred job in one transaction.    *)
PlanRun(p) ==
    /\ plan[p] = "absent"
    /\ plan' = [plan EXCEPT ![p] = "planned"]
    /\ PlanQueue!Send(p)
    /\ UNCHANGED <<phase, linked, opened, releasing, firing, planHeld, runVars>>

(* DELETE /planned-runs/:id flips the row if it is still planned ...       *)
CancelPlan(p) ==
    /\ plan[p] = "planned"
    /\ plan' = [plan EXCEPT ![p] = "cancelled"]
    /\ releasing' = releasing \cup {p}
    /\ UNCHANGED <<phase, linked, opened, firing, planQueueVars, runVars>>

(* ... and then has the queue forget the job, if it lives that long.       *)
ReleaseJob(p) ==
    /\ p \in releasing
    /\ PlanQueue!Cancel(p)
    /\ releasing' = releasing \ {p}
    /\ UNCHANGED <<plan, phase, linked, opened, firing, runVars>>

CancelDies(p) ==
    /\ p \in releasing
    /\ Happens("crashes", MaxCrashes)
    /\ releasing' = releasing \ {p}
    /\ UNCHANGED <<plan, phase, linked, opened, firing, planQueueVars, runRest>>

(* GET /schedule marks what is overdue before it lists the plans.          *)
ReadPanel ==
    /\ plan' = [p \in Plans |->
                  IF plan[p] = "planned" /\ phase[p] = "late" THEN "missed" ELSE plan[p]]
    /\ UNCHANGED <<phase, linked, opened, releasing, firing, planQueueVars, runVars>>

TimePasses(p) ==
    /\ plan[p] # "absent"
    /\ phase[p] # "late"
    /\ phase' = [phase EXCEPT ![p] = IF @ = "early" THEN "due" ELSE "late"]
    /\ UNCHANGED <<plan, linked, opened, releasing, firing, planQueueVars, runVars>>

-----------------------------------------------------------------------------
(* The firing worker.                                                      *)

GoOn(w, step) == firing' = [firing EXCEPT ![w].step = step] /\ UNCHANGED planQueueVars
Done(w) == PlanQueue!Complete(w) /\ firing' = [firing EXCEPT ![w] = AtRest]

(* A deferred job is not delivered before its time.                        *)
StartFiring(w, j) ==
    /\ firing[w].step = "idle"
    /\ PlanQueue!Fetch(w, j)
    /\ phase[planJobs[j].item] # "early"
    /\ firing' = [firing EXCEPT ![w] = [AtRest EXCEPT !.step = "read",
                                                      !.plan = planJobs[j].item]]
    /\ UNCHANGED <<plan, phase, linked, opened, releasing, runVars>>

ReadPlan(w) ==
    LET p == firing[w].plan IN
    /\ firing[w].step = "read"
    /\ \/ plan[p] # "planned" /\ Done(w)
       \/ plan[p] = "planned" /\ phase[p] = "late" /\ GoOn(w, "markMissed")
       \/ plan[p] = "planned" /\ phase[p] = "due" /\ GoOn(w, "claim")
    /\ UNCHANGED <<plan, phase, linked, opened, releasing, runVars>>

(* Mutant: the dead-letter side is left to the log line and the alert.     *)
MissByAlert(w) ==
    LET p == firing[w].plan IN
    /\ firing[w].step \in {"markMissed", "repair"}
    /\ plan' = IF plan[p] = "planned" /\ firing[w].step = "markMissed"
               THEN [plan EXCEPT ![p] = "missed"] ELSE plan
    /\ Done(w)
    /\ UNCHANGED <<phase, linked, opened, releasing, runVars>>

(* markMissed, from the worker's grace check or from its repair.           *)
MarkMissed(w) ==
    LET p == firing[w].plan IN
    /\ firing[w].step \in {"markMissed", "repair"}
    /\ plan' = IF plan[p] = "planned" THEN [plan EXCEPT ![p] = "missed"] ELSE plan
    /\ Done(w)
    /\ UNCHANGED <<phase, linked, opened, releasing, runVars>>

(* Mutant: the claim trusts the status that was read.                      *)
ClaimRead(w) ==
    /\ firing[w].step = "claim"
    /\ plan' = [plan EXCEPT ![firing[w].plan] = "fired"]
    /\ GoOn(w, "open")
    /\ UNCHANGED <<phase, linked, opened, releasing, runVars>>

(* `updateMany` off `planned`: a second delivery matches nothing.          *)
Claim(w) ==
    LET p == firing[w].plan IN
    /\ firing[w].step = "claim"
    /\ \/ /\ plan[p] = "planned"
          /\ plan' = [plan EXCEPT ![p] = "fired"]
          /\ GoOn(w, "open")
       \/ plan[p] # "planned" /\ Done(w) /\ UNCHANGED plan
    /\ UNCHANGED <<phase, linked, opened, releasing, runVars>>

OpenRun(w, r) ==
    /\ firing[w].step = "open"
    /\ StartEvalRun(r, AllCaseIds)
    /\ opened' = [opened EXCEPT ![firing[w].plan] = @ \cup {r}]
    /\ firing' = [firing EXCEPT ![w].step = "link", ![w].run = r]
    /\ UNCHANGED <<plan, phase, linked, releasing, planQueueVars>>

LinkRun(w) ==
    /\ firing[w].step = "link"
    /\ linked' = [linked EXCEPT ![firing[w].plan] = firing[w].run]
    /\ Done(w)
    /\ UNCHANGED <<plan, phase, opened, releasing, runVars>>

StartMissing(w, j) ==
    /\ firing[w].step = "idle"
    /\ PlanQueue!FetchDead(w, j)
    /\ firing' = [firing EXCEPT ![w] = [AtRest EXCEPT !.step = "repair",
                                                      !.plan = planJobs[j].item]]
    /\ UNCHANGED <<plan, phase, linked, opened, releasing, runVars>>

FiringBreaks(w) ==
    /\ firing[w].step \notin {"idle", "repair"}
    /\ Happens("failures", MaxFailures)
    /\ PlanQueue!Fail(w)
    /\ firing' = [firing EXCEPT ![w] = AtRest]
    /\ UNCHANGED <<plan, phase, linked, opened, releasing, runRest>>

FiringDies(w) ==
    /\ \/ firing[w].step \notin {"idle", "repair"} /\ Happens("crashes", MaxCrashes)
       \/ firing[w].step = "repair" /\ Happens("repairs", MaxRepairCrashes)
    /\ PlanQueue!Abandon(w)
    /\ firing' = [firing EXCEPT ![w] = AtRest]
    /\ UNCHANGED <<plan, phase, linked, opened, releasing, runRest>>

FiringExpires(j) ==
    /\ ~PlanQueue!HasHandler(j)
    /\ PlanQueue!Expire(j)
    /\ UNCHANGED <<plan, phase, linked, opened, releasing, firing, runVars>>

FiringStalls(j) ==
    /\ PlanQueue!HasHandler(j)
    /\ Happens("stalls", MaxStalls)
    /\ PlanQueue!Expire(j)
    /\ UNCHANGED <<plan, phase, linked, opened, releasing, firing, runRest>>

-----------------------------------------------------------------------------
FiringStep(w) ==
    \/ ReadPlan(w) \/ MarkMissed(w) \/ Claim(w) \/ LinkRun(w)
    \/ \E r \in Runs : OpenRun(w, r)

PlanStep ==
    \/ \E p \in Plans : \/ PlanRun(p) \/ CancelPlan(p) \/ ReleaseJob(p)
                        \/ CancelDies(p) \/ TimePasses(p)
    \/ ReadPanel
    \/ \E w \in PlanHandlers : FiringStep(w) \/ FiringBreaks(w) \/ FiringDies(w)
    \/ \E w \in PlanHandlers, j \in PlanJobIds : StartFiring(w, j) \/ StartMissing(w, j)
    \/ \E j \in PlanJobIds : FiringExpires(j) \/ FiringStalls(j)

RunStep == (RunsNext \/ Asked) /\ UNCHANGED planVars

PlansNext == PlanStep \/ RunStep

PlansSpec == PlansInit /\ [][PlansNext]_evalVars

(* Time passes, workers run, pg-boss expires the jobs of the dead.  Nobody *)
(* has to plan, cancel, press Run or look at the panel.                    *)
PlanFairness ==
    /\ \A p \in Plans : WF_evalVars(TimePasses(p))
    /\ \A w \in PlanHandlers : WF_evalVars(FiringStep(w))
    /\ \A j \in PlanJobIds :
          /\ WF_evalVars(\E w \in PlanHandlers : StartFiring(w, j))
          /\ WF_evalVars(\E w \in PlanHandlers : StartMissing(w, j))
          /\ WF_evalVars(FiringExpires(j))
    /\ Fairness

FairPlansSpec == PlansSpec /\ PlanFairness

-----------------------------------------------------------------------------
(* Properties.                                                             *)

(* However often a job is delivered and wherever a worker dies, a plan is  *)
(* decided once and charged for at most once, and never after a cancel or  *)
(* a miss.                                                                 *)
Promised == INSTANCE PlanPromise WITH
    fate    <- [p \in Plans |-> IF plan[p] = "absent" THEN "unmade" ELSE plan[p]],
    charged <- opened

KeepsPlanPromise == Promised!Spec

(* A plan that fired has its run, on the page and linked to it -- unless a *)
(* worker was lost between the claim and the link, which no retry repairs: *)
(* the order was chosen so that this costs a run and not a second charge.  *)
FiredHasRun ==
    \A p \in Plans :
       plan[p] = "fired" =>
          \/ linked[p] \in opened[p]
          \/ \E w \in PlanHandlers :
                firing[w].plan = p /\ firing[w].step \in {"open", "link"}
          \/ mishaps.crashes + mishaps.failures > 0

(* A plan does not stay "planned" with its date in the past: it fires, is  *)
(* missed or cancelled, unless the repair that says so was killed.         *)
PlanIsDecided ==
    \A p \in Plans :
       plan[p] = "planned" ~> (plan[p] # "planned" \/ mishaps.repairs > 0)

(* What every reachable state satisfies, by parts: runs are whole, have    *)
(* their jobs and pay once, and a fired plan has its run.                  *)
EvalInvariant ==
    /\ PlansTypeOK
    /\ CompletedIsWhole /\ OpenRunHasJob /\ PaysOncePerMishap
    /\ FiredHasRun
=============================================================================
