---------------------------- MODULE PlanPromise ----------------------------
(***************************************************************************)
(* What a planned eval run promises, without queue, workers or clock: a    *)
(* plan is decided once -- cancelled, missed or fired -- and only a plan   *)
(* that fired is ever charged for, once.                                   *)
(***************************************************************************)
EXTENDS FiniteSets

CONSTANTS Plans, Runs

VARIABLES
    fate,    \* what became of each plan
    charged  \* the runs opened for each plan

absVars == <<fate, charged>>

Init ==
    /\ fate = [p \in Plans |-> "unmade"]
    /\ charged = [p \in Plans |-> {}]

Decide(p, from, to) ==
    /\ fate[p] = from
    /\ fate' = [fate EXCEPT ![p] = to]
    /\ UNCHANGED charged

Make(p)   == Decide(p, "unmade", "planned")
Cancel(p) == Decide(p, "planned", "cancelled")
Fire(p)   == Decide(p, "planned", "fired")

(* Reading the panel decides every overdue plan at once.                   *)
Miss(S) ==
    /\ \A p \in S : fate[p] = "planned"
    /\ fate' = [p \in Plans |-> IF p \in S THEN "missed" ELSE fate[p]]
    /\ UNCHANGED charged

Charge(p, r) ==
    /\ fate[p] = "fired"
    /\ charged[p] = {}
    /\ \A q \in Plans : r \notin charged[q]
    /\ charged' = [charged EXCEPT ![p] = {r}]
    /\ UNCHANGED fate

Next ==
    \/ \E p \in Plans : Make(p) \/ Cancel(p) \/ Fire(p) \/ \E r \in Runs : Charge(p, r)
    \/ \E S \in SUBSET Plans : Miss(S)

Spec == Init /\ [][Next]_absVars
=============================================================================
