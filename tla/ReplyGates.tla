----------------------------- MODULE ReplyGates -----------------------------
(***************************************************************************)
(* The preflight gates of apps/api/src/ai/auto-reply-gates.ts: why a       *)
(* ticket is not worth asking the model about, decided from three facts.   *)
(***************************************************************************)
EXTENDS Naturals

TICKET_CATEGORY == {"General", "Technical", "Refund", "Other"}

ANSWERABLE_CATEGORIES == {"General", "Technical", "Other"}

(* The reasons a gate gives.  "none" stands for null throughout.           *)
GateReasons == {"category", "answered", "noText", "followUp"}

(* What only the model call and the checks on its draft can say, and what  *)
(* an outage is recorded as.                                               *)
ModelReasons == {"notCovered", "tooLong", "noCitation", "unbackedCommitment",
                 "unbackedReference", "unavailable"}

AUTO_REPLY_DECLINE == GateReasons \cup ModelReasons

(* The first gate that fires, in the order the function tries them.        *)
GateDecline(category, hasOutbound, inboundCount) ==
    IF category \notin ANSWERABLE_CATEGORIES THEN "category"
    ELSE IF hasOutbound THEN "answered"
    ELSE IF inboundCount = 0 THEN "noText"
    ELSE IF inboundCount > 1 THEN "followUp"
    ELSE "none"
=============================================================================
