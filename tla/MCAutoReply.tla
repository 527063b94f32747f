---------------------------- MODULE MCAutoReply ----------------------------
(***************************************************************************)
(* Model-checking instance of AutoReply and of the screen that reads it,   *)
(* Pipeline: handlers and job slots are interchangeable.  Used by the      *)
(* safety runs only: symmetry is not sound for liveness.                   *)
(***************************************************************************)
EXTENDS Pipeline, TLC

Interchangeable == Permutations(Handlers) \cup Permutations(JobIds)
=============================================================================
