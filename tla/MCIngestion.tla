---------------------------- MODULE MCIngestion ----------------------------
(***************************************************************************)
(* Model-checking instance of Ingestion: a customer's opening email, the   *)
(* desk's reply, a second email from the customer that answers the first   *)
(* one, and a third without In-Reply-To that quotes the whole thread.  The *)
(* second can arrive before the first, which splits the thread; the third  *)
(* then has relatives on two tickets.                                      *)
(***************************************************************************)
EXTENDS Ingestion, TLC

CONSTANTS opening, second, desk, third

MCMails == {opening, second, desk, third}

MCInReplyTo ==
    opening :> "none" @@ second :> opening @@ desk :> opening @@ third :> "none"

MCReferences ==
    opening :> <<>> @@ second :> <<opening>> @@ desk :> <<opening>>
        @@ third :> <<opening, desk, second>>
=============================================================================
