----------------------------- MODULE MCABTests ------------------------------
(***************************************************************************)
(* Two tests of one experiment and one of another.                         *)
(***************************************************************************)
EXTENDS ABTests

CONSTANTS t1, t2, t3, n1, n2

MCNameOf == [t \in Test |-> IF t = t3 THEN n2 ELSE n1]
=============================================================================
