----------------------------- MODULE MCAccounts -----------------------------
(***************************************************************************)
(* Two user names, either of which may be bootstrapped: somebody logs in   *)
(* under the first, administrators manage the second.                      *)
(***************************************************************************)
EXTENDS Accounts, TLC
=============================================================================
