------------------------------ MODULE Pipeline ------------------------------
(***************************************************************************)
(* The pipeline screen, apps/api/src/routes/pipeline.ts with               *)
(* packages/shared/src/pipeline.ts, as a reader of what AutoReply writes:  *)
(* what the list says of each ticket (`toRun`), and what the rail counts   *)
(* (`pipelineCounts`, `pipelineStageCounts`).  Both are functions of the   *)
(* ticket columns, and both are taken here from one state; the route takes *)
(* them with several queries, so a ticket that moves in between can be     *)
(* drawn as it was in neither.  The deployment has a key.                  *)
(***************************************************************************)
EXTENDS AutoReply, FiniteSets

ASSUME PipelineAssumption == IsFiniteSet(Tickets)

(* DECLINE_STAGE: at which stop each decline leaves the rail.              *)
DeclineStage(reason) ==
    IF reason \in GateReasons THEN "eligible"
    ELSE IF reason \in {"notCovered", "unavailable"} THEN "drafted"
    ELSE "checked"

(* DECLINE_OUTCOME: only an outage is not a verdict about the ticket.      *)
DeclineOutcome(reason) ==
    IF reason = "unavailable" THEN "abandoned" ELSE "declined"

(* classifierFiled and assistantResolved, the statements both the list and *)
(* the counts read.  Giving up is the module Classifier's: AutoReply has   *)
(* the tickets that were filed, and those not yet read.                    *)
ClassifierFiled == {t \in Tickets : filing[t] # "unread"}

AssistantResolved == {t \in Tickets : rows[t].autoResolved}

Declined == {t \in Tickets : rows[t].decline # "none"}

ClassifierWillStillAct ==
    {t \in Tickets \ (ClassifierFiled \cup old) : rows[t].category = "none"}

(* Mutant: an answered ticket still counts as awaited, and a reopened      *)
(* ticket reads like one.                                                  *)
AwaitsForGood ==
    {t \in Tickets \ (AssistantResolved \cup Declined) : rows[t].offered}

(* Offered, no verdict, and answered by nobody but the worker that holds   *)
(* the claim.                                                              *)
AutoReplyWillStillAct ==
    {t \in Tickets \ (AssistantResolved \cup Declined) :
        rows[t].offered /\ (~HasOutbound(t) \/ rows[t].status = "Processing")}

-----------------------------------------------------------------------------
(* The list.                                                               *)

Outcome(t) ==
    IF t \in AssistantResolved THEN "resolved"
    ELSE IF t \in Declined THEN DeclineOutcome(rows[t].decline)
    ELSE IF \/ t \in ClassifierFiled /\ t \in AutoReplyWillStillAct
            \/ t \in ClassifierWillStillAct
         THEN "pending"
    ELSE "notOffered"

-----------------------------------------------------------------------------
(* The rail.                                                               *)

NoAutoReplyVerdict == ClassifierFiled \ (AssistantResolved \cup Declined)

AutoReplyPending == NoAutoReplyVerdict \cap AutoReplyWillStillAct

AutoReplyNotOffered == {t \in NoAutoReplyVerdict : ~rows[t].offered}

DeclinedAt(stage) ==
    Cardinality({t \in Declined : DeclineStage(rows[t].decline) = stage})

(* pipelineStageCounts: each stop is the one above it minus what left      *)
(* there, and the last is counted for itself.                              *)
StageCount(stage) ==
    LET classified == Cardinality(ClassifierFiled)
        eligible   == classified - DeclinedAt("eligible") IN
    CASE stage = "received"   -> Cardinality(Tickets)
      [] stage = "classified" -> classified
      [] stage = "eligible"   -> eligible
      [] stage = "drafted"    -> eligible
      [] stage = "checked"    -> eligible - DeclinedAt("drafted")
      [] stage = "resolved"   -> Cardinality(AssistantResolved)

-----------------------------------------------------------------------------
(* Properties.                                                             *)

(* What is left at the checked stop once every labelled exit and the       *)
(* resolved are taken away is the offered tickets somebody answered by     *)
(* hand or a customer reopened: no ticket leaves the rail twice, by two    *)
(* exits or by an exit and the bottom, none leaves it that was not filed,  *)
(* and the number waiting is the number the list draws as waiting.         *)
RailAddsUp ==
    /\ StageCount("checked")
          = DeclinedAt("checked") + StageCount("resolved")
            + Cardinality(AutoReplyPending) + Cardinality(AutoReplyNotOffered)
            + Cardinality({t \in NoAutoReplyVerdict :
                              /\ rows[t].offered
                              /\ HasOutbound(t)
                              /\ rows[t].status # "Processing"})
    /\ AutoReplyPending = {t \in ClassifierFiled : Outcome(t) = "pending"}

(* Somebody took the ticket before the job's claim, and has not replied:   *)
(* the gap the domain notes record.                                        *)
TakenUnanswered(t) ==
    /\ ~HasOutbound(t)
    /\ \/ rows[t].status \in AGENT_SETTABLE_STATUS
       \/ rows[t].status = "New" /\ rows[t].assignee # "nobody"

(* "Still thinking" comes to an end: a filed ticket drawn as pending is    *)
(* drawn as something else in time, whatever the customer, an agent, a     *)
(* crash and a failing model do meanwhile, unless it was taken without a   *)
(* reply or has grown too old for the sweep.                               *)
PendingIsDecided ==
    \A t \in Tickets :
       t \in ClassifierFiled /\ Outcome(t) = "pending" ~>
          Outcome(t) # "pending" \/ TakenUnanswered(t) \/ t \in old
=============================================================================
