---------------------------- MODULE TokenBuckets ----------------------------
(***************************************************************************)
(* What the rate limiters promise: one token bucket per key that is there  *)
(* from the beginning and never forgotten.  Credit is counted in ticks: a  *)
(* request costs Period[b] of them, and every tick of time earns one.      *)
(***************************************************************************)
EXTENDS Integers

CONSTANTS Bucket, Burst, Period

VARIABLE credit

Full(b) == Burst[b] * Period[b]

Init == credit = [b \in Bucket |-> Full(b)]

Take(b) ==
    /\ credit[b] >= Period[b]
    /\ credit' = [credit EXCEPT ![b] = @ - Period[b]]

Elapse ==
    credit' = [b \in Bucket |-> IF credit[b] < Full(b) THEN credit[b] + 1 ELSE Full(b)]

Next == Elapse \/ \E b \in Bucket : Take(b)

Spec == Init /\ [][Next]_credit
=============================================================================
