------------------------------ MODULE MCEvals ------------------------------
(* The whole case set, and a request by hand that names one case twice.    *)
EXTENDS EvalPlans

MCAll      == <<"off", "on">>
MCByHand   == {<<"on", "on">>}
MCRequests == {MCAll} \cup MCByHand
=============================================================================
