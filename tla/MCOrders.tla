------------------------------ MODULE MCOrders ------------------------------
(***************************************************************************)
(* Small instances of Orders: two buyers of one collectible, clients that  *)
(* retry with the same key.                                                *)
(***************************************************************************)
EXTENDS Orders, TLC

CONSTANTS alice, bob, sally, i1, k1

\* alice retries her placement of i1 (two creators may carry it at once), bob
\* competes for it with a key that happens to equal alice's.
MCRequests == {[buyer |-> alice, item |-> i1, key |-> k1],
               [buyer |-> bob, item |-> i1, key |-> k1]}

MCSellerOf == [i \in Item |-> sally]

MCLockOf == [i \in Item |-> i]

\* Creators, movers and order ids are interchangeable, and so are the two buyers,
\* who ask for the same.
Symmetry == Permutations(Creator) \cup Permutations(Mover) \cup Permutations(OrderId)
              \cup Permutations({alice, bob})
=============================================================================
