------------------------------ MODULE MCServer ------------------------------
(***************************************************************************)
(* One collectible and the list it appears in: a write changes both keys.  *)
(* One IP rule, which is there or not.                                     *)
(* Two migration files: the first can be repeated but takes away what the  *)
(* second makes (as 013 does to 014), the second cannot be repeated.       *)
(***************************************************************************)
EXTENDS Server, TLC

MCUndoes == [m \in 1..2 |-> IF m = 1 THEN {2} ELSE {}]
=============================================================================
