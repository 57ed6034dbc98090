----------------------------- MODULE MCCheckout -----------------------------
(***************************************************************************)
(* Four connections, the least pgxpool configures by default: with three   *)
(* concurrent placements the pool is ample, with four it is not.           *)
(***************************************************************************)
EXTENDS Checkout, TLC

CONSTANTS i1, l1, l2

\* The ids of all collectibles but i1 hash to one lock.
MCLockOf == [i \in Item |-> IF i = i1 THEN l1 ELSE l2]
=============================================================================
