------------------------- MODULE MCAccountCreation -------------------------
(***************************************************************************)
(* Two visits of the form and two accounts: a form that is rejected, or    *)
(* visited again by the new user or by one who has logged out, with an     *)
(* account for someone else; pages and log-ins before, between and after.  *)
(***************************************************************************)
EXTENDS AccountCreation
=============================================================================
