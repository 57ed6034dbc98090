----------------------------- MODULE MCSessions -----------------------------
(***************************************************************************)
(* Two sessions of one or two users, and refreshes that overlap.           *)
(***************************************************************************)
EXTENDS Sessions, TLC

\* Ids are random and requests, users and sessions interchangeable.
Symmetry ==
    UNION {Permutations(s) : s \in {User, Token, Family, Request}}
=============================================================================
