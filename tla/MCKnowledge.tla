---------------------------- MODULE MCKnowledge ----------------------------
(* Admins who are alike.                                                   *)
EXTENDS Knowledge, TLC

AlikeAdmins == Permutations(Admins)
=============================================================================
