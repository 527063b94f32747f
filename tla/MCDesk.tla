------------------------------- MODULE MCDesk -------------------------------
(* Two admins who are alike, even in name, an agent, a colleague yet to be *)
(* created and the assistant.                                              *)
EXTENDS Desk, TLC

MCNames == [u \in Accounts |-> IF u \in FirstAdmins THEN "Ann" ELSE "Bo"]
(* Each body moves one thing of an account as it is at first.              *)
MCBodies == {[name |-> "Bo", role |-> "admin"], [name |-> "Ann", role |-> "agent"]}
AlikeAdmins == Permutations(FirstAdmins)
=============================================================================
