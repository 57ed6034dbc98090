--------------------------- MODULE MessagesProofs ---------------------------
(***************************************************************************)
(* Proofs about the rate limiters and about the messages behind them, for  *)
(* every set of keys, burst, rate, senders and drafts: the limiters keep   *)
(* their bound and implement the never-forgotten buckets, the message      *)
(* route only uses them by their own steps, and every row is accounted     *)
(* for.                                                                    *)
(***************************************************************************)
EXTENDS Messages, FiniteSetTheorems, TLAPS

-----------------------------------------------------------------------------
(* The limiters.                                                           *)

\* An entry's credit is at least its age or its burst: whoever is dropped is full.
CreditFollowsAge ==
    \A b \in limiters : credit[b] >= idle[b] \/ credit[b] = Full(b)

\* A limiter that is about to be asked is in the map and was seen just now.
GotIsFresh ==
    \A r \in Request : got[r] # NoBucket => got[r] \in limiters /\ idle[got[r]] = 0

\* What was let through and what is left come from the burst and from time.
Account ==
    \A b \in Bucket : passed[b] * Period[b] + Held(b) <= Full(b) + since

IInv == TypeOK /\ CreditFollowsAge /\ GotIsFresh /\ Account

-----------------------------------------------------------------------------
LEMMA OneMore ==
    ASSUME NEW p \in Nat, NEW q \in Nat
    PROVE  (p + 1) * q = p * q + q
  OBVIOUS

LEMMA ProductType ==
    ASSUME NEW p \in Nat, NEW q \in Nat
    PROVE  p * q \in Nat
  OBVIOUS

LEMMA Times0 == ASSUME NEW q \in Nat PROVE 0 * q = 0
  OBVIOUS

LEMMA FullType ==
    ASSUME RateLimitsAssumption, NEW b \in Bucket
    PROVE  /\ Full(b) \in Nat
           /\ Full(b) <= Idle
           /\ Full(b) >= 1
           /\ Period[b] \in Nat
           /\ Period[b] >= 1
           /\ Idle \in Nat
           /\ Window \in Nat
           /\ NoBucket # b
  BY DEF RateLimitsAssumption

LEMMA InitInv == ASSUME RateLimitsAssumption, Init PROVE IInv
  <1>1. TypeOK
    BY FullType, RateLimitsAssumption DEF Init, TypeOK, RateLimitsAssumption
  <1>2. CreditFollowsAge /\ GotIsFresh
    BY DEF Init, CreditFollowsAge, GotIsFresh
  <1>3. Account
    <2> SUFFICES ASSUME NEW b \in Bucket
                 PROVE  passed[b] * Period[b] + Held(b) <= Full(b) + since
      BY DEF Account
    <2>1. passed[b] = 0 /\ Held(b) = Full(b) /\ since = 0
      BY DEF Init, Held
    <2>2. passed[b] * Period[b] = 0
      BY <2>1, Times0, FullType
    <2> HIDE DEF Full, Held
    <2> QED BY <2>1, <2>2, FullType
  <1> QED BY <1>1, <1>2, <1>3 DEF IInv

-----------------------------------------------------------------------------
LEMMA GetLimiterInv ==
    ASSUME RateLimitsAssumption, IInv, NEW r \in Request, NEW b \in Bucket,
           GetLimiter(r, b)
    PROVE  IInv'
  <1> USE DEF IInv, GetLimiter
  <1>1. TypeOK'
    <2> HIDE DEF Full
    <2>1. \A c \in Bucket : Full(c) \in Nat
      BY FullType
    <2> QED BY <2>1, FullType DEF TypeOK
  <1>2. CreditFollowsAge'
    <2> HIDE DEF Full
    <2> SUFFICES ASSUME NEW c \in limiters'
                 PROVE  credit'[c] >= idle'[c] \/ credit'[c] = Full(c)
      BY DEF CreditFollowsAge
    <2>1. c \in Bucket /\ Full(c) \in Nat
      BY FullType DEF TypeOK
    <2>2. CASE c = b
      <3>1. idle'[c] = 0
        BY <2>1, <2>2 DEF TypeOK
      <3>2. credit'[c] \in Nat
        BY <2>1, <1>1 DEF TypeOK
      <3> QED BY <3>1, <3>2
    <2>3. CASE c # b
      <3>1. c \in limiters /\ credit'[c] = credit[c] /\ idle'[c] = idle[c]
        BY <2>1, <2>3 DEF TypeOK
      <3> QED BY <3>1 DEF CreditFollowsAge
    <2> QED BY <2>2, <2>3
  <1>3. GotIsFresh'
    <2> SUFFICES ASSUME NEW s \in Request, got'[s] # NoBucket
                 PROVE  got'[s] \in limiters' /\ idle'[got'[s]] = 0
      BY DEF GotIsFresh
    <2>1. CASE s = r
      BY <2>1 DEF TypeOK
    <2>2. CASE s # r
      <3>1. got'[s] = got[s] /\ got[s] \in limiters /\ idle[got[s]] = 0
        BY <2>2 DEF TypeOK, GotIsFresh
      <3> QED BY <3>1 DEF TypeOK
    <2> QED BY <2>1, <2>2
  <1>4. \A c \in Bucket : Held(c)' = Held(c)
    BY DEF Held, TypeOK
  <1>5. Account'
    <2> HIDE DEF GetLimiter
    <2>1. passed' = passed /\ since' = since
      BY DEF GetLimiter
    <2> SUFFICES ASSUME NEW c \in Bucket
                 PROVE  passed'[c] * Period[c] + Held(c)' <= Full(c) + since'
      BY DEF Account
    <2> QED BY <1>4, <2>1 DEF Account
  <1> QED BY <1>1, <1>2, <1>3, <1>5

LEMMA AllowInv ==
    ASSUME RateLimitsAssumption, IInv, NEW r \in Request, Allow(r)
    PROVE  IInv'
  <1> DEFINE b == got[r]
  <1>0. /\ b \in Bucket /\ b \in limiters /\ idle[b] = 0
        /\ Period[b] \in Nat /\ Full(b) \in Nat /\ passed[b] \in Nat
        /\ credit[b] \in Nat /\ credit[b] >= Period[b] /\ Period[b] >= 1
        /\ credit' = [credit EXCEPT ![b] = @ - Period[b]]
        /\ passed' = [passed EXCEPT ![b] = @ + 1]
        /\ got' = [got EXCEPT ![r] = NoBucket]
        /\ UNCHANGED <<limiters, idle, since>>
    <2>1. b \in Bucket /\ b # NoBucket
      BY DEF Allow, IInv, TypeOK
    <2> QED BY <2>1, FullType DEF Allow, IInv, GotIsFresh, TypeOK
  <1> HIDE DEF b
  <1>1. TypeOK'
    <2>1. \A c \in Bucket : credit'[c] \in Nat /\ credit'[c] <= Full(c)
      <3> SUFFICES ASSUME NEW c \in Bucket
                   PROVE  credit'[c] \in Nat /\ credit'[c] <= Full(c)
        OBVIOUS
      <3>1. credit[c] \in Nat /\ credit[c] <= Full(c) /\ Full(c) \in Nat
        BY FullType DEF IInv, TypeOK
      <3>2. credit'[c] = IF c = b THEN credit[b] - Period[b] ELSE credit[c]
        BY <1>0 DEF IInv, TypeOK
      <3> HIDE DEF Full
      <3> QED BY <1>0, <3>1, <3>2
    <2> QED BY <1>0, <2>1 DEF IInv, TypeOK
  <1>2. CreditFollowsAge'
    <2> SUFFICES ASSUME NEW c \in limiters
                 PROVE  credit'[c] >= idle[c] \/ credit'[c] = Full(c)
      BY <1>0 DEF CreditFollowsAge
    <2>1. CASE c = b
      BY <1>0, <1>1, <2>1 DEF TypeOK
    <2>2. CASE c # b
      BY <1>0, <2>2 DEF IInv, CreditFollowsAge, TypeOK
    <2> QED BY <2>1, <2>2
  <1>3. GotIsFresh'
    BY <1>0 DEF IInv, GotIsFresh, TypeOK
  <1>4. Account'
    <2> SUFFICES ASSUME NEW c \in Bucket
                 PROVE  passed'[c] * Period[c] + Held(c)' <= Full(c) + since
      BY <1>0 DEF Account
    <2>1. passed[c] * Period[c] + Held(c) <= Full(c) + since
      BY DEF IInv, Account
    <2>2. CASE c # b
      <3>1. passed'[c] = passed[c] /\ Held(c)' = Held(c)
        BY <1>0, <2>2 DEF Held, IInv, TypeOK
      <3> QED BY <3>1, <2>1
    <2>3. CASE c = b
      <3>1. passed'[c] = passed[c] + 1 /\ Held(c)' = Held(c) - Period[c] /\ Held(c) = credit[c]
        BY <1>0, <2>3 DEF Held, IInv, TypeOK
      <3>2. (passed[c] + 1) * Period[c] = passed[c] * Period[c] + Period[c]
        BY <1>0, <2>3, OneMore
      <3>3. passed[c] * Period[c] \in Nat /\ since \in Nat /\ Full(c) \in Nat
            /\ Period[c] \in Nat /\ Held(c) \in Nat
        BY <1>0, <2>3, <3>1, ProductType DEF IInv, TypeOK, RateLimitsAssumption
      <3> HIDE DEF Full, Held
      <3> QED BY <2>1, <3>1, <3>2, <3>3
    <2> QED BY <2>2, <2>3
  <1> QED BY <1>1, <1>2, <1>3, <1>4 DEF IInv

LEMMA RefuseInv ==
    ASSUME RateLimitsAssumption, IInv, NEW r \in Request, Refuse(r)
    PROVE  IInv'
  <1>1. TypeOK'
    BY DEF IInv, TypeOK, Refuse
  <1>2. CreditFollowsAge' /\ GotIsFresh'
    BY DEF IInv, TypeOK, CreditFollowsAge, GotIsFresh, Refuse
  <1>3. Account'
    BY DEF IInv, Account, Held, Refuse
  <1> QED BY <1>1, <1>2, <1>3 DEF IInv

\* Only a full bucket expires.
LEMMA ExpiredIsFull ==
    ASSUME RateLimitsAssumption, IInv, NEW b \in limiters, Expired(b)
    PROVE  credit[b] = Full(b)
  <1>1. b \in Bucket /\ credit[b] \in Nat /\ idle[b] \in Nat /\ credit[b] <= Full(b)
    BY DEF IInv, TypeOK, RateLimitsAssumption
  <1>2. Full(b) \in Nat /\ Full(b) <= Idle /\ Idle \in Nat
    BY <1>1, FullType
  <1>3. credit[b] >= idle[b] \/ credit[b] = Full(b)
    BY DEF IInv, CreditFollowsAge
  <1> HIDE DEF Full
  <1> QED BY <1>1, <1>2, <1>3 DEF Expired

LEMMA CleanupInv ==
    ASSUME RateLimitsAssumption, IInv, Cleanup
    PROVE  IInv'
  <1>1. TypeOK' /\ CreditFollowsAge'
    BY DEF IInv, TypeOK, CreditFollowsAge, Cleanup
  <1>2. GotIsFresh'
    <2> SUFFICES ASSUME NEW r \in Request, got[r] # NoBucket
                 PROVE  got[r] \in limiters' /\ idle[got[r]] = 0
      BY DEF GotIsFresh, Cleanup
    <2>1. got[r] \in limiters /\ idle[got[r]] = 0
      BY DEF IInv, GotIsFresh
    <2>2. ~Expired(got[r])
      BY <2>1 DEF Expired, RateLimitsAssumption
    <2> QED BY <2>1, <2>2 DEF Cleanup
  <1>3. \A b \in Bucket : Held(b)' = Held(b)
    BY ExpiredIsFull DEF Held, Cleanup
  <1>4. Account'
    <2>1. passed' = passed /\ since' = since
      BY DEF Cleanup
    <2> QED BY <1>3, <2>1 DEF IInv, Account
  <1> QED BY <1>1, <1>2, <1>4 DEF IInv

LEMMA ElapseInv ==
    ASSUME RateLimitsAssumption, IInv, Elapse
    PROVE  IInv'
  <1>0. \A b \in Bucket :
          /\ credit[b] \in Nat /\ credit[b] <= Full(b) /\ Full(b) \in Nat
          /\ idle[b] \in 0..(Idle + 1) /\ Idle \in Nat /\ Full(b) <= Idle
          /\ credit'[b] = IF credit[b] < Full(b) THEN credit[b] + 1 ELSE Full(b)
          /\ idle'[b] = IF idle[b] <= Idle THEN idle[b] + 1 ELSE idle[b]
    BY FullType DEF Elapse, IInv, TypeOK
  <1> HIDE DEF Full
  <1>1. TypeOK'
    <2>1. \A b \in Bucket : credit'[b] \in Nat /\ credit'[b] <= Full(b)
                            /\ idle'[b] \in 0..(Idle + 1)
      BY <1>0
    <2>2. since' \in 0..Window /\ passed' \in [Bucket -> Nat]
      BY DEF Elapse, IInv, TypeOK, RateLimitsAssumption
    <2>3. credit' \in [Bucket -> Nat] /\ idle' \in [Bucket -> 0..(Idle + 1)]
      <3>1. credit' = [b \in Bucket |-> credit'[b]] /\ idle' = [b \in Bucket |-> idle'[b]]
        BY DEF Elapse
      <3> QED BY <2>1, <3>1
    <2> QED BY <2>1, <2>2, <2>3 DEF Elapse, IInv, TypeOK
  <1>2. CreditFollowsAge'
    <2> SUFFICES ASSUME NEW b \in limiters
                 PROVE  credit'[b] >= idle'[b] \/ credit'[b] = Full(b)
      BY DEF CreditFollowsAge, Elapse
    <2>1. b \in Bucket /\ (credit[b] >= idle[b] \/ credit[b] = Full(b))
      BY DEF IInv, TypeOK, CreditFollowsAge
    <2> QED BY <1>0, <2>1
  <1>3. GotIsFresh'
    BY DEF Elapse, GotIsFresh, IInv
  <1>4. Account'
    <2> SUFFICES ASSUME NEW b \in Bucket
                 PROVE  passed'[b] * Period[b] + Held(b)' <= Full(b) + since'
      BY DEF Account
    <2>1. passed[b] * Period[b] + Held(b) <= Full(b) + since
      BY DEF IInv, Account
    <2>2. Held(b)' <= Held(b) + 1 /\ Held(b)' <= Full(b) /\ Held(b)' \in Nat /\ Held(b) \in Nat
      BY <1>0 DEF Held, Elapse
    <2>3. since \in Nat /\ Window \in Nat /\ passed[b] \in Nat /\ Period[b] \in Nat /\ Full(b) \in Nat
      BY FullType DEF IInv, TypeOK, RateLimitsAssumption
    <2>4. passed[b] * Period[b] \in Nat
      BY <2>3, ProductType
    <2>5. CASE since < Window
      <3>1. since' = since + 1 /\ passed'[b] = passed[b]
        BY <2>5 DEF Elapse
      <3> HIDE DEF Held
      <3> QED BY <2>1, <2>2, <2>3, <2>4, <3>1
    <2>6. CASE ~(since < Window)
      <3>1. since' = 0 /\ passed'[b] = 0
        BY <2>6 DEF Elapse
      <3>2. passed'[b] * Period[b] = 0
        BY <3>1, <2>3, Times0
      <3> HIDE DEF Held
      <3> QED BY <2>2, <2>3, <3>1, <3>2
    <2> QED BY <2>5, <2>6
  <1> QED BY <1>1, <1>2, <1>3, <1>4 DEF IInv

LEMMA ObserveInv ==
    ASSUME RateLimitsAssumption, IInv, Observe
    PROVE  IInv'
  <1>1. TypeOK' /\ CreditFollowsAge' /\ GotIsFresh'
    BY DEF IInv, TypeOK, CreditFollowsAge, GotIsFresh, Observe, RateLimitsAssumption
  <1>2. Account'
    <2> SUFFICES ASSUME NEW b \in Bucket
                 PROVE  passed'[b] * Period[b] + Held(b)' <= Full(b) + since'
      BY DEF Account
    <2>1. since' = 0 /\ passed'[b] = 0 /\ Held(b)' = Held(b)
      BY DEF Observe, Held
    <2>2. Held(b) \in Nat /\ Held(b) <= Full(b) /\ Full(b) \in Nat /\ Period[b] \in Nat
      BY FullType DEF Held, IInv, TypeOK
    <2>3. passed'[b] * Period[b] = 0
      BY <2>1, <2>2, Times0
    <2> HIDE DEF Full, Held
    <2> QED BY <2>1, <2>2, <2>3
  <1> QED BY <1>1, <1>2 DEF IInv

-----------------------------------------------------------------------------
LEMMA InvStep ==
    ASSUME RateLimitsAssumption, IInv, [Next]_limitVars
    PROVE  IInv'
  <1>1. CASE UNCHANGED limitVars
    BY <1>1 DEF limitVars, IInv, TypeOK, CreditFollowsAge, GotIsFresh, Account, Held
  <1>2. CASE Next
    BY <1>2, GetLimiterInv, AllowInv, RefuseInv, CleanupInv, ElapseInv, ObserveInv DEF Next
  <1> QED BY <1>1, <1>2

LEMMA IInvAlways == RateLimitsAssumption => (Spec => []IInv)
  <1> SUFFICES ASSUME RateLimitsAssumption PROVE Spec => []IInv
    OBVIOUS
  <1>1. Init => IInv
    BY InitInv
  <1>2. IInv /\ [Next]_limitVars => IInv'
    BY InvStep
  <1> QED BY <1>1, <1>2, PTL DEF Spec

\* No key ever gets more than its burst and what the time earned, however its
\* entry was dropped and made again (ratelimit.go 40-93): forgetting adds nothing
\* to the excess over the documented number.
THEOREM RateIsBounded == RateLimitsAssumption => (Spec => []RateBound)
  <1> SUFFICES ASSUME RateLimitsAssumption PROVE Spec => []RateBound
    OBVIOUS
  <1>1. IInv => RateBound
    <2> SUFFICES ASSUME IInv, NEW b \in Bucket
                 PROVE  passed[b] * Period[b] <= Full(b) + since
      BY DEF RateBound
    <2>1. passed[b] * Period[b] + Held(b) <= Full(b) + since
      BY DEF IInv, Account
    <2>2. Held(b) \in Nat /\ Full(b) \in Nat /\ since \in Nat /\ passed[b] \in Nat /\ Period[b] \in Nat
      BY FullType DEF Held, IInv, TypeOK, RateLimitsAssumption
    <2>3. passed[b] * Period[b] \in Nat
      BY <2>2, ProductType
    <2> HIDE DEF Full, Held
    <2> QED BY <2>1, <2>2, <2>3
  <1> QED BY <1>1, IInvAlways, PTL

-----------------------------------------------------------------------------
LEMMA StepRefines ==
    ASSUME RateLimitsAssumption, IInv, IInv', [Next]_limitVars
    PROVE  [Buckets!Next]_[b \in Bucket |-> Held(b)]
  <1> DEFINE held == [b \in Bucket |-> Held(b)]
  <1>0. \A b \in Bucket : Buckets!Full(b) = Full(b)
    BY DEF Buckets!Full, Full
  <1>1. ASSUME \A b \in Bucket : Held(b)' = Held(b)
        PROVE  UNCHANGED held
    BY <1>1
  <1>2. ASSUME NEW r \in Request, NEW b \in Bucket, GetLimiter(r, b)
        PROVE  UNCHANGED held
    BY <1>2 DEF GetLimiter, Held, IInv, TypeOK
  <1>3. ASSUME NEW r \in Request, Allow(r)
        PROVE  Buckets!Next
    <2> DEFINE b == got[r]
    <2>1. b \in Bucket /\ b \in limiters /\ credit[b] >= Period[b]
      BY <1>3 DEF Allow, IInv, TypeOK, GotIsFresh
    <2>2. held[b] >= Period[b]
      BY <2>1 DEF Held
    <2>3. held' = [held EXCEPT ![b] = @ - Period[b]]
      BY <1>3, <2>1 DEF Held, Allow, IInv, TypeOK
    <2> QED BY <2>1, <2>2, <2>3 DEF Buckets!Next, Buckets!Take
  <1>4. ASSUME NEW r \in Request, Refuse(r)
        PROVE  UNCHANGED held
    BY <1>4 DEF Refuse, Held
  <1>5. ASSUME Cleanup
        PROVE  UNCHANGED held
    BY <1>5, ExpiredIsFull DEF Held, Cleanup
  <1>6. ASSUME Elapse
        PROVE  Buckets!Next
    <2>1. \A b \in Bucket : Full(b) \in Nat
      BY FullType
    <2>2. held' = [b \in Bucket |-> IF held[b] < Full(b) THEN held[b] + 1 ELSE Full(b)]
      <3> HIDE DEF Full
      <3> QED BY <1>6, <2>1 DEF Elapse, Held, IInv, TypeOK
    <2> QED BY <1>0, <2>2 DEF Buckets!Next, Buckets!Elapse
  <1>7. ASSUME Observe
        PROVE  UNCHANGED held
    BY <1>7 DEF Observe, Held
  <1>8. ASSUME UNCHANGED limitVars
        PROVE  UNCHANGED held
    BY <1>8 DEF limitVars, Held
  <1> QED BY <1>2, <1>3, <1>4, <1>5, <1>6, <1>7, <1>8 DEF Next

\* The map that makes limiters on demand and drops idle ones implements the
\* buckets that are always there: forgetting a key gives nobody an extra token.
THEOREM LimitersImplementBuckets == RateLimitsAssumption => (Spec => ImplementsBuckets)
  <1> SUFFICES ASSUME RateLimitsAssumption PROVE Spec => Buckets!Spec
    BY DEF ImplementsBuckets
  <1>1. Init => Buckets!Init
    BY DEF Init, Buckets!Init, Buckets!Full, Full, Held
  <1>2. IInv /\ IInv' /\ [Next]_limitVars => [Buckets!Next]_[b \in Bucket |-> Held(b)]
    BY StepRefines
  <1> QED BY <1>1, <1>2, IInvAlways, PTL DEF Spec, Buckets!Spec

-----------------------------------------------------------------------------
(* The route and its limiters.                                             *)

\* What the handler of a message does to the limiters is a step of theirs.
LEMMA RouteSteps ==
    ASSUME [MessagesNext]_vars
    PROVE  [Next]_limitVars
  <1>1. ASSUME NEW c \in Sender, FindLimiter(c)
        PROVE  Next
    <2>1. KeyOf(c) \in Bucket /\ c \in Request
      BY MessagesAssumption DEF KeyOf, Sender
    <2> QED BY <1>1, <2>1 DEF FindLimiter, Next
  <1>2. ASSUME NEW c \in Sender, AskLimiter(c)
        PROVE  Next
    BY <1>2 DEF AskLimiter, Sender, Next
  <1>3. ASSUME NEW c \in Sender,
               Post(c) \/ Scan(c) \/ ReadOrder(c) \/ InsertMessage(c)
                 \/ InsertAttachment(c) \/ Fails(c)
        PROVE  UNCHANGED limitVars
    BY <1>3 DEF Post, Scan, ReadOrder, InsertMessage, InsertAttachment, Fails
  <1>4. CASE Time
    BY <1>4 DEF Time, Next
  <1>5. CASE UNCHANGED vars
    BY <1>5 DEF vars
  <1> QED BY <1>1, <1>2, <1>3, <1>4, <1>5 DEF MessagesNext, Serve

\* The route uses its limiters as anybody may: what holds of them alone holds
\* behind the handler (router.go 101-106).
THEOREM RouteUsesLimiters == MessagesSpec => Spec
  <1>1. MessagesInit => Init
    BY DEF MessagesInit
  <1>2. [MessagesNext]_vars => [Next]_limitVars
    BY RouteSteps
  <1> QED BY <1>1, <1>2, PTL DEF MessagesSpec, Spec

\* However many requests of a user are under way, and whichever of the two
\* limiters refuses them, neither key gets more than its burst and what the
\* time earned.
THEOREM RouteRateIsBounded == MessagesSpec => []RateBound
  <1>1. RateLimitsAssumption
    BY MessagesAssumption
  <1> QED BY <1>1, RouteUsesLimiters, RateIsBounded, PTL

\* The two limiters of the route forget idle keys and still implement the
\* buckets that are always there.
THEOREM RouteImplementsBuckets == MessagesSpec => ImplementsBuckets
  <1>1. RateLimitsAssumption
    BY MessagesAssumption
  <1> QED BY <1>1, RouteUsesLimiters, LimitersImplementBuckets

-----------------------------------------------------------------------------
(* The rows of a draft.                                                    *)

Sent(c) == IF answer[c] = "sent" THEN 1 ELSE 0
Incomplete(c) == {i \in Rows(c) : ~Complete(i)}

\* A request was posted after an answer that promised nothing and has not
\* been charged with an error yet; it has passed the tests of the stations
\* behind it, and it holds a row while the attachment is missing.
Routed(c) ==
    /\ errors[c] <= tries[c]
    /\ pc[c] # "idle" => /\ answer[c] \in {"none", "limited", "error"}
                         /\ errors[c] < tries[c]
    /\ pc[c] \in {"order", "message", "attachment"} => draft[c].kind # "refused"
    /\ pc[c] \in {"message", "attachment"} => draft[c].party
    /\ IF pc[c] = "attachment"
         THEN current[c] \in Rows(c) /\ draft[c].kind = "file"
         ELSE current[c] = NoMessage

\* Without the row the request holds, there are no more rows than the one
\* that was promised and those of the errors.
Accounted(c) ==
    /\ IsFiniteSet(Rows(c))
    /\ Cardinality(Rows(c) \ {current[c]}) <= Sent(c) + errors[c]
    /\ Cardinality(Incomplete(c) \ {current[c]}) <= errors[c]
    /\ answer[c] = "sent" => Rows(c) \ Incomplete(c) # {}
    /\ Rows(c) # {} => draft[c].kind # "refused" /\ draft[c].party

RowsInv == \A c \in Sender : Routed(c) /\ Accounted(c)

-----------------------------------------------------------------------------
LEMMA MessagesInitInv == ASSUME MessagesInit PROVE MessagesTypeOK /\ RowsInv
  <1>1. TypeOK
    BY MessagesAssumption, InitInv DEF MessagesInit, IInv
  <1>2. MessagesTypeOK
    BY <1>1, MessagesAssumption DEF MessagesInit, MessagesTypeOK, Init, Sender
  <1>3. ASSUME NEW c \in Sender PROVE Routed(c) /\ Accounted(c)
    <2>1. Rows(c) = {}
      BY <1>3, MessagesAssumption DEF MessagesInit, Rows
    <2>2. Rows(c) \ {current[c]} = {} /\ Incomplete(c) \ {current[c]} = {}
      BY <2>1 DEF Incomplete
    <2>3. Cardinality({}) = 0 /\ IsFiniteSet({})
      BY FS_EmptySet
    <2>4. errors[c] = 0 /\ tries[c] = 0 /\ Sent(c) = 0 /\ answer[c] = "none"
          /\ pc[c] = "idle" /\ current[c] = NoMessage
      BY <1>3 DEF MessagesInit, Sent
    <2>5. Routed(c)
      BY <2>4 DEF Routed
    <2>6. Accounted(c)
      BY <2>1, <2>2, <2>3, <2>4 DEF Accounted
    <2> QED BY <2>5, <2>6
  <1> QED BY <1>2, <1>3 DEF RowsInv

\* The type invariant: its limiters' part is kept by the limiters.
LEMMA MessagesTypeStep ==
    ASSUME MessagesTypeOK, TypeOK', RowsInv, [MessagesNext]_vars
    PROVE  MessagesTypeOK'
  <1> USE DEF MessagesTypeOK
  <1>1. ASSUME NEW c \in Sender, Post(c)
        PROVE  MessagesTypeOK'
    BY <1>1, MessagesAssumption DEF Post, Goto, KeyOf, limitVars, Sender
  <1>2. ASSUME NEW c \in Sender, FindLimiter(c)
        PROVE  MessagesTypeOK'
    BY <1>2 DEF FindLimiter, GetLimiter, handlerVars, KeyOf, TypeOK, Sender
  <1>3. ASSUME NEW c \in Sender, AskLimiter(c)
        PROVE  MessagesTypeOK'
    <2>1. pc[c] \in {"user", "address"} /\ got' = [got EXCEPT ![c] = NoBucket]
      BY <1>3 DEF AskLimiter, Allow, Refuse
    <2>2. \A d \in Sender : d # c => got'[d] = got[d]
      BY <2>1 DEF TypeOK, Sender
    <2>3. got'[c] = NoBucket
      BY <2>1, <1>3 DEF TypeOK, Sender
    <2>4. /\ pc' \in [Sender -> {"idle", "user", "address", "scan", "order", "message", "attachment"}]
          /\ \A d \in Sender : d # c => pc'[d] = pc[d]
      BY <1>3 DEF AskLimiter, AfterLimiter, Goto, Reply
    <2>5. UNCHANGED <<draft, tries, messages, attachments, errors>>
      BY <1>3 DEF AskLimiter, Reply
    <2>6. /\ answer' \in [Sender -> {"none", "limited", "refused", "forbidden", "error", "sent"}]
          /\ current' \in [Sender -> MessageId \cup {NoMessage}]
      BY <1>3 DEF AskLimiter, Reply
    <2>7. \A d \in Sender : got'[d] # NoBucket => /\ pc'[d] \in {"user", "address"}
                                                  /\ got'[d] = KeyOf(d)'
      BY <2>2, <2>3, <2>4 DEF KeyOf
    <2> QED BY <2>4, <2>5, <2>6, <2>7
  <1>4. ASSUME NEW c \in Sender, Scan(c) \/ ReadOrder(c) \/ InsertMessage(c)
                                   \/ InsertAttachment(c) \/ Fails(c)
        PROVE  MessagesTypeOK'
    <2>1. /\ pc[c] \in {"scan", "order", "message", "attachment"}
          /\ UNCHANGED <<limitVars, draft, tries>>
      BY <1>4 DEF Scan, ReadOrder, InsertMessage, InsertAttachment, Fails
    <2>2. /\ pc' \in [Sender -> {"idle", "user", "address", "scan", "order", "message", "attachment"}]
          /\ \A d \in Sender : d # c => pc'[d] = pc[d]
      BY <1>4 DEF Scan, ReadOrder, InsertMessage, InsertAttachment, Fails, Goto, Reply
    <2>3. answer' \in [Sender -> {"none", "limited", "refused", "forbidden", "error", "sent"}]
      BY <1>4 DEF Scan, ReadOrder, InsertMessage, InsertAttachment, Fails, Reply
    <2>4. current' \in [Sender -> MessageId \cup {NoMessage}]
      BY <1>4 DEF Scan, ReadOrder, InsertMessage, InsertAttachment, Fails, Reply
    <2>5. errors' = errors \/ errors' = [errors EXCEPT ![c] = @ + 1]
      BY <1>4 DEF Scan, ReadOrder, InsertMessage, InsertAttachment, Fails, Reply
    <2>6. errors[c] < tries[c] /\ tries[c] \in 0..MaxTries /\ errors[c] \in 0..MaxTries
      BY <2>1 DEF RowsInv, Routed
    <2>7. errors' \in [Sender -> 0..MaxTries]
      BY <2>5, <2>6, MessagesAssumption
    <2>8. messages' \in [MessageId -> Sender \cup {NoSender}]
      BY <1>4 DEF Scan, ReadOrder, InsertMessage, InsertAttachment, Fails
    <2>9. attachments' \subseteq MessageId
      <3>1. pc[c] = "attachment" => current[c] \in MessageId
        BY DEF RowsInv, Routed, Rows
      <3> QED BY <1>4, <3>1 DEF Scan, ReadOrder, InsertMessage, InsertAttachment, Fails
    <2>10. \A d \in Sender : got'[d] # NoBucket => /\ pc'[d] \in {"user", "address"}
                                                   /\ got'[d] = KeyOf(d)'
      BY <2>1, <2>2 DEF KeyOf, limitVars
    <2> QED BY <2>1, <2>2, <2>3, <2>4, <2>7, <2>8, <2>9, <2>10
  <1>5. CASE Time
    BY <1>5 DEF Time, Cleanup, Elapse, Observe, handlerVars, KeyOf
  <1>6. CASE UNCHANGED vars
    BY <1>6 DEF vars, limitVars, handlerVars, KeyOf
  <1> QED BY <1>1, <1>2, <1>3, <1>4, <1>5, <1>6 DEF MessagesNext, Serve

-----------------------------------------------------------------------------
LEMMA RowsAre ==
    ASSUME MessagesTypeOK, NEW c \in Sender
    PROVE  /\ Rows(c) \subseteq MessageId
           /\ NoMessage \notin Rows(c)
           /\ Incomplete(c) = IF draft[c].kind = "file" THEN Rows(c) \ attachments ELSE {}
           /\ Incomplete(c) \subseteq Rows(c)
           /\ errors[c] \in Nat /\ Sent(c) \in {0, 1}
  BY MessagesAssumption DEF MessagesTypeOK, Rows, Incomplete, Complete, Sent

\* A sender whose rows are those he had keeps his account, when he is not
\* told anything or is told that it did not work.
LEMMA SameRows ==
    ASSUME MessagesTypeOK, MessagesTypeOK', NEW c \in Sender, Accounted(c),
           Rows(c)' = Rows(c), current'[c] = current[c], draft' = draft,
           attachments \subseteq attachments', errors[c] <= errors'[c],
           answer'[c] = "sent" <=> answer[c] = "sent"
    PROVE  Accounted(c)'
  <1>1. Incomplete(c)' \subseteq Incomplete(c)
    <2>1. Incomplete(c) = IF draft[c].kind = "file" THEN Rows(c) \ attachments ELSE {}
      BY RowsAre
    <2>2. Incomplete(c)' = IF draft'[c].kind = "file" THEN Rows(c)' \ attachments' ELSE {}
      BY MessagesAssumption DEF MessagesTypeOK, Rows, Incomplete, Complete
    <2> QED BY <2>1, <2>2
  <1>2. Sent(c)' = Sent(c) /\ Sent(c) \in {0, 1}
    BY DEF Sent
  <1>3. IsFiniteSet(Incomplete(c) \ {current[c]})
    BY FS_Subset, RowsAre DEF Accounted
  <1>4. /\ Cardinality(Incomplete(c)' \ {current[c]}) <= Cardinality(Incomplete(c) \ {current[c]})
        /\ IsFiniteSet(Incomplete(c)' \ {current[c]})
    <2>1. Incomplete(c)' \ {current[c]} \subseteq Incomplete(c) \ {current[c]}
      BY <1>1
    <2> QED BY <1>3, <2>1, FS_Subset
  <1>5. errors[c] \in Nat /\ errors'[c] \in Nat
    BY DEF MessagesTypeOK
  <1>6. Cardinality(Incomplete(c)' \ {current[c]}) \in Nat /\ Cardinality(Incomplete(c) \ {current[c]}) \in Nat
    BY <1>3, <1>4, FS_CardinalityType
  <1>7. Cardinality(Incomplete(c)' \ {current[c]}) <= errors'[c]
    BY <1>4, <1>5, <1>6 DEF Accounted
  <1>8. IsFiniteSet(Rows(c) \ {current[c]}) /\ Cardinality(Rows(c) \ {current[c]}) \in Nat
    BY FS_Subset, FS_CardinalityType DEF Accounted
  <1>9. Cardinality(Rows(c) \ {current[c]}) <= Sent(c) + errors'[c]
    BY <1>2, <1>5, <1>8 DEF Accounted
  <1> QED BY <1>1, <1>2, <1>7, <1>9 DEF Accounted

\* A sender whose request is not about to answer "sent" holds no promise.
LEMMA NotSent ==
    ASSUME NEW c \in Sender, Routed(c), pc[c] # "idle"
    PROVE  answer[c] # "sent" /\ Sent(c) = 0
  BY DEF Routed, Sent

\* One more row, and one more that the record covers.
LEMMA OneRowMore ==
    ASSUME NEW S, NEW T, NEW x, NEW n \in Nat, IsFiniteSet(S),
           Cardinality(S) <= n, T \subseteq S \cup {x}
    PROVE  IsFiniteSet(T) /\ Cardinality(T) <= n + 1
  <1>1. /\ IsFiniteSet(S \cup {x})
        /\ Cardinality(S \cup {x}) = IF x \in S THEN Cardinality(S) ELSE Cardinality(S) + 1
    BY FS_AddElement
  <1>2. IsFiniteSet(T) /\ Cardinality(T) <= Cardinality(S \cup {x})
    BY <1>1, FS_Subset
  <1>3. Cardinality(S) \in Nat /\ Cardinality(T) \in Nat /\ Cardinality(S \cup {x}) \in Nat
    BY <1>1, <1>2, FS_CardinalityType
  <1> QED BY <1>1, <1>2, <1>3

LEMMA NoMore ==
    ASSUME NEW S, NEW T, NEW n \in Nat, IsFiniteSet(S), Cardinality(S) <= n, T \subseteq S
    PROVE  IsFiniteSet(T) /\ Cardinality(T) <= n
  <1>1. IsFiniteSet(T) /\ Cardinality(T) <= Cardinality(S)
    BY FS_Subset
  <1>2. Cardinality(S) \in Nat /\ Cardinality(T) \in Nat
    BY <1>1, FS_CardinalityType
  <1> QED BY <1>1, <1>2

-----------------------------------------------------------------------------
\* What a step of one sender leaves of another.
LEMMA OthersKeepTheirs ==
    ASSUME MessagesTypeOK, MessagesTypeOK', NEW c \in Sender, NEW d \in Sender, d # c,
           Routed(c), Routed(d), Accounted(d), Post(c) \/ Serve(c)
    PROVE  Routed(d)' /\ Accounted(d)'
  <1>1. /\ pc'[d] = pc[d] /\ answer'[d] = answer[d] /\ tries'[d] = tries[d]
        /\ current'[d] = current[d] /\ errors'[d] = errors[d] /\ draft' = draft
        /\ attachments \subseteq attachments'
    BY DEF MessagesTypeOK, Serve, Post, FindLimiter, AskLimiter, Scan, ReadOrder, InsertMessage,
           InsertAttachment, Fails, Goto, Reply, handlerVars
  <1>2. messages' = messages \/ \E i \in MessageId :
                                  messages[i] = NoSender /\ messages' = [messages EXCEPT ![i] = c]
    BY DEF Serve, Post, FindLimiter, AskLimiter, Scan, ReadOrder, InsertMessage,
           InsertAttachment, Fails, handlerVars
  <1>3. Rows(d)' = Rows(d)
    BY <1>2, MessagesAssumption DEF Rows, MessagesTypeOK
  <1>4. Routed(d)'
    BY <1>1, <1>3 DEF Routed
  <1>5. errors[d] \in Nat
    BY DEF MessagesTypeOK
  <1>6. Accounted(d)'
    BY <1>1, <1>3, <1>5, SameRows
  <1> QED BY <1>4, <1>6

\* Until the message is inserted nothing is stored, and no answer promises it.
LEMMA BeforeTheRows ==
    ASSUME MessagesTypeOK, MessagesTypeOK', NEW c \in Sender, Routed(c), Accounted(c),
           Post(c) \/ FindLimiter(c) \/ AskLimiter(c) \/ Scan(c) \/ ReadOrder(c)
    PROVE  Routed(c)' /\ Accounted(c)'
  <1>1. /\ UNCHANGED <<draft, messages, attachments>> /\ errors' = errors
        /\ current[c] = NoMessage /\ current'[c] = NoMessage
    <2>1. pc[c] # "attachment"
      BY DEF MessagesTypeOK, Post, FindLimiter, AskLimiter, Allow, Refuse, Scan, ReadOrder
    <2>2. current[c] = NoMessage
      BY <2>1 DEF Routed
    <2> QED BY <2>2 DEF MessagesTypeOK, Post, FindLimiter, AskLimiter, Scan, ReadOrder, Reply,
                        handlerVars
  <1>2. Rows(c)' = Rows(c)
    BY <1>1 DEF Rows
  <1>3. \/ answer'[c] = answer[c]
        \/ /\ pc[c] # "idle"
           /\ answer'[c] \in {"limited", "refused", "forbidden"}
    BY DEF MessagesTypeOK, Post, FindLimiter, AskLimiter, Allow, Refuse, Scan, ReadOrder, Reply,
           handlerVars
  <1>4. answer'[c] = "sent" <=> answer[c] = "sent"
    BY <1>3 DEF Routed
  <1>5. errors[c] \in Nat /\ tries[c] \in Nat /\ errors'[c] <= errors'[c]
    BY <1>1, MessagesAssumption DEF MessagesTypeOK
  <1>6. Accounted(c)'
    BY <1>1, <1>2, <1>4, <1>5, SameRows
  <1>7. Routed(c)'
    <2>1. CASE Post(c)
      <3>1. /\ pc'[c] = "user" /\ answer'[c] = answer[c] /\ answer[c] \in {"none", "limited", "error"}
            /\ tries'[c] = tries[c] + 1
        BY <2>1 DEF Post, Goto, MessagesTypeOK
      <3>2. errors[c] <= tries[c]
        BY DEF Routed
      <3> QED BY <1>1, <1>5, <3>1, <3>2 DEF Routed
    <2>2. CASE FindLimiter(c)
      BY <2>2, <1>1 DEF FindLimiter, handlerVars, Routed, Rows
    <2>3. CASE AskLimiter(c)
      <3>1. /\ pc[c] \in {"user", "address"} /\ tries' = tries
            /\ \/ pc'[c] \in {"address", "scan"} /\ answer' = answer
               \/ pc'[c] = "idle"
        BY <2>3 DEF AskLimiter, Allow, Refuse, AfterLimiter, Goto, Reply, MessagesTypeOK
      <3> QED BY <1>1, <1>5, <3>1 DEF Routed
    <2>4. CASE Scan(c)
      <3>1. /\ pc[c] = "scan" /\ tries' = tries
            /\ \/ pc'[c] = "order" /\ answer' = answer /\ draft[c].kind # "refused"
               \/ pc'[c] = "idle"
        BY <2>4 DEF Scan, Goto, Reply, MessagesTypeOK
      <3> QED BY <1>1, <1>5, <3>1 DEF Routed
    <2>5. CASE ReadOrder(c)
      <3>1. /\ pc[c] = "order" /\ tries' = tries
            /\ \/ pc'[c] = "message" /\ answer' = answer /\ draft[c].party
               \/ pc'[c] = "idle"
        BY <2>5 DEF ReadOrder, Goto, Reply, MessagesTypeOK
      <3> QED BY <1>1, <1>5, <3>1 DEF Routed
    <2> QED BY <2>1, <2>2, <2>3, <2>4, <2>5
  <1> QED BY <1>6, <1>7

\* The row of a text message comes with its promise; that of a message with an
\* attachment is held by the request.
LEMMA InsertMessageRows ==
    ASSUME MessagesTypeOK, MessagesTypeOK', NEW c \in Sender, Routed(c), Accounted(c),
           InsertMessage(c)
    PROVE  Routed(c)' /\ Accounted(c)'
  <1>1. PICK i \in MessageId :
          /\ messages[i] = NoSender
          /\ messages' = [messages EXCEPT ![i] = c]
          /\ IF draft[c].kind = "file"
               THEN /\ current' = [current EXCEPT ![c] = i]
                    /\ Goto(c, "attachment")
                    /\ UNCHANGED <<answer, errors>>
               ELSE Reply(c, "sent")
    BY DEF InsertMessage
  <1>2. /\ pc[c] = "message" /\ UNCHANGED <<draft, tries, attachments>>
        /\ draft[c].kind # "refused" /\ draft[c].party
        /\ current[c] = NoMessage /\ errors[c] < tries[c]
        /\ errors[c] \in Nat /\ tries[c] \in Nat /\ errors'[c] = errors[c]
    BY <1>1, MessagesAssumption DEF InsertMessage, Routed, MessagesTypeOK, Reply
  <1>3. Rows(c)' = Rows(c) \cup {i}
    BY <1>1 DEF Rows, MessagesTypeOK
  <1>4. /\ Rows(c) \ {current[c]} = Rows(c) /\ Incomplete(c) \ {current[c]} = Incomplete(c)
        /\ NoMessage \notin Rows(c) /\ i # NoMessage
    BY <1>2, RowsAre, MessagesAssumption
  <1>5. IsFiniteSet(Rows(c)) /\ Cardinality(Rows(c)) <= errors[c]
    <2>1. Sent(c) = 0
      BY <1>2, NotSent DEF InsertMessage
    <2>2. Cardinality(Rows(c)) <= Sent(c) + errors[c]
      BY <1>4 DEF Accounted
    <2> QED BY <1>2, <2>1, <2>2 DEF Accounted
  <1>6. IsFiniteSet(Incomplete(c)) /\ Cardinality(Incomplete(c)) <= errors[c]
    <2>1. IsFiniteSet(Incomplete(c))
      BY <1>5, FS_Subset, RowsAre
    <2> QED BY <2>1, <1>4 DEF Accounted
  <1>7. Incomplete(c)' = IF draft[c].kind = "file" THEN Rows(c)' \ attachments ELSE {}
    BY <1>2, MessagesAssumption DEF MessagesTypeOK, Rows, Incomplete, Complete
  <1>8. IsFiniteSet(Rows(c)')
    BY <1>3, <1>5, FS_AddElement
  <1>9. CASE draft[c].kind = "file"
    <2>1. current'[c] = i /\ pc'[c] = "attachment" /\ answer' = answer
      BY <1>1, <1>9 DEF Goto, MessagesTypeOK
    <2>2. Rows(c)' \ {i} \subseteq Rows(c)
      BY <1>3
    <2>3. Incomplete(c)' \ {i} \subseteq Incomplete(c)
      BY <1>3, <1>7, <1>9, RowsAre
    <2>4. Cardinality(Rows(c)' \ {i}) <= errors[c]
      BY <1>2, <1>5, <2>2, NoMore
    <2>5. Cardinality(Incomplete(c)' \ {i}) <= errors[c]
      BY <1>2, <1>6, <2>3, NoMore
    <2>6. Sent(c)' = 0 /\ answer'[c] # "sent"
      BY <1>2, <2>1, NotSent DEF Sent
    <2>7. Accounted(c)'
      BY <1>2, <1>8, <2>1, <2>4, <2>5, <2>6 DEF Accounted
    <2>8. Routed(c)'
      BY <1>2, <1>3, <1>9, <2>1 DEF Routed
    <2> QED BY <2>7, <2>8
  <1>10. CASE draft[c].kind # "file"
    <2>1. current'[c] = NoMessage /\ pc'[c] = "idle" /\ answer'[c] = "sent"
      BY <1>1, <1>10 DEF Goto, Reply, MessagesTypeOK
    <2>2. Incomplete(c)' = {} /\ Sent(c)' = 1
      BY <1>7, <1>10, <2>1 DEF Sent
    <2>3. Rows(c)' \ {NoMessage} \subseteq Rows(c) \cup {i}
      BY <1>3
    <2>4. Cardinality(Rows(c)' \ {NoMessage}) <= errors[c] + 1
      BY <1>2, <1>5, <2>3, OneRowMore
    <2>5. Cardinality({}) = 0
      BY FS_EmptySet
    <2>6. Incomplete(c)' \ {NoMessage} = {}
      BY <2>2
    <2>7. Cardinality(Incomplete(c)' \ {NoMessage}) <= errors[c]
      BY <1>2, <2>5, <2>6
    <2>8. Rows(c)' \ Incomplete(c)' # {}
      BY <1>3, <2>2
    <2>9. Accounted(c)'
      BY <1>2, <1>8, <2>1, <2>2, <2>4, <2>7, <2>8 DEF Accounted
    <2>10. Routed(c)'
      BY <1>2, <2>1 DEF Routed
    <2> QED BY <2>9, <2>10
  <1> QED BY <1>9, <1>10

\* The request gives the row it holds its attachment, and the promise.
LEMMA InsertAttachmentRows ==
    ASSUME MessagesTypeOK, MessagesTypeOK', NEW c \in Sender, Routed(c), Accounted(c),
           InsertAttachment(c)
    PROVE  Routed(c)' /\ Accounted(c)'
  <1>1. /\ pc[c] = "attachment" /\ UNCHANGED <<draft, tries, messages>>
        /\ attachments' = attachments \cup {current[c]}
        /\ pc'[c] = "idle" /\ answer'[c] = "sent" /\ current'[c] = NoMessage /\ errors' = errors
        /\ errors[c] \in Nat /\ tries[c] \in Nat
    BY MessagesAssumption DEF InsertAttachment, Reply, Goto, MessagesTypeOK
  <1>2. /\ current[c] \in Rows(c) /\ draft[c].kind = "file" /\ draft[c].party
        /\ errors[c] < tries[c]
    BY <1>1 DEF Routed
  <1>3. Rows(c)' = Rows(c)
    BY <1>1 DEF Rows
  <1>4. Incomplete(c)' = Rows(c) \ attachments'
    BY <1>1, <1>2, <1>3, MessagesAssumption DEF MessagesTypeOK, Rows, Incomplete, Complete
  <1>5. Incomplete(c)' \ {NoMessage} \subseteq Incomplete(c) \ {current[c]}
    BY <1>1, <1>2, <1>4, RowsAre
  <1>6. IsFiniteSet(Rows(c) \ {current[c]}) /\ IsFiniteSet(Incomplete(c) \ {current[c]})
    BY FS_Subset, RowsAre DEF Accounted
  <1>7. Cardinality(Incomplete(c)' \ {NoMessage}) <= errors[c]
    BY <1>1, <1>5, <1>6, NoMore DEF Accounted
  <1>8. Rows(c)' \ {NoMessage} \subseteq (Rows(c) \ {current[c]}) \cup {current[c]}
    BY <1>3
  <1>9. Cardinality(Rows(c) \ {current[c]}) <= errors[c]
    BY <1>1, NotSent DEF Accounted
  <1>10. Cardinality(Rows(c)' \ {NoMessage}) <= errors[c] + 1
    BY <1>1, <1>6, <1>8, <1>9, OneRowMore
  <1>11. current[c] \in Rows(c)' \ Incomplete(c)'
    BY <1>1, <1>2, <1>3, <1>4
  <1>12. Sent(c)' = 1
    BY <1>1 DEF Sent
  <1>13. Accounted(c)'
    BY <1>1, <1>2, <1>3, <1>7, <1>10, <1>11, <1>12 DEF Accounted
  <1>14. Routed(c)'
    BY <1>1, <1>2 DEF Routed
  <1> QED BY <1>13, <1>14

\* A failure leaves at most one row more than there were, and is told.
LEMMA FailsRows ==
    ASSUME MessagesTypeOK, MessagesTypeOK', NEW c \in Sender, Routed(c), Accounted(c),
           Fails(c)
    PROVE  Routed(c)' /\ Accounted(c)'
  <1>1. /\ pc[c] \in {"order", "message", "attachment"} /\ UNCHANGED <<draft, tries>>
        /\ pc'[c] = "idle" /\ answer'[c] = "error" /\ current'[c] = NoMessage
        /\ errors'[c] = errors[c] + 1
        /\ errors[c] \in Nat /\ tries[c] \in Nat /\ attachments \subseteq attachments'
    BY MessagesAssumption DEF Fails, Reply, Goto, MessagesTypeOK
  <1>2. errors[c] < tries[c] /\ draft[c].kind # "refused"
    BY <1>1 DEF Routed
  <1>3. PICK i : /\ Rows(c)' \subseteq (Rows(c) \ {current[c]}) \cup {i}
                 /\ Rows(c) \subseteq Rows(c)'
                 /\ Rows(c)' # {} => draft[c].party
    <2>1. CASE UNCHANGED messages
      <3>1. Rows(c)' = Rows(c)
        BY <2>1 DEF Rows
      <3>2. Rows(c)' \subseteq (Rows(c) \ {current[c]}) \cup {current[c]}
        BY <3>1
      <3> QED BY <3>1, <3>2 DEF Accounted
    <2>2. CASE /\ pc[c] = "message"
               /\ \E i \in MessageId :
                    messages[i] = NoSender /\ messages' = [messages EXCEPT ![i] = c]
      <3>1. PICK i \in MessageId : messages[i] = NoSender /\ messages' = [messages EXCEPT ![i] = c]
        BY <2>2
      <3>2. Rows(c)' = Rows(c) \cup {i}
        BY <3>1 DEF Rows, MessagesTypeOK
      <3>3. current[c] \notin Rows(c) /\ draft[c].party
        BY <2>2, RowsAre DEF Routed
      <3> QED BY <3>2, <3>3
    <2> QED BY <2>1, <2>2 DEF Fails
  <1>4. Incomplete(c)' \subseteq (Incomplete(c) \ {current[c]}) \cup {i}
    <2>1. Incomplete(c)' = IF draft[c].kind = "file" THEN Rows(c)' \ attachments' ELSE {}
      BY <1>1, MessagesAssumption DEF MessagesTypeOK, Rows, Incomplete, Complete
    <2>2. Incomplete(c) = IF draft[c].kind = "file" THEN Rows(c) \ attachments ELSE {}
      BY RowsAre
    <2> QED BY <1>1, <1>3, <2>1, <2>2
  <1>5. IsFiniteSet(Rows(c) \ {current[c]}) /\ IsFiniteSet(Incomplete(c) \ {current[c]})
    BY FS_Subset, RowsAre DEF Accounted
  <1>6. /\ Cardinality(Rows(c) \ {current[c]}) <= errors[c]
        /\ Cardinality(Incomplete(c) \ {current[c]}) <= errors[c]
    BY <1>1, NotSent DEF Accounted
  <1>7. IsFiniteSet(Rows(c)') /\ Cardinality(Rows(c)') <= errors[c] + 1
    BY <1>1, <1>3, <1>5, <1>6, OneRowMore
  <1>8. IsFiniteSet(Incomplete(c)') /\ Cardinality(Incomplete(c)') <= errors[c] + 1
    BY <1>1, <1>4, <1>5, <1>6, OneRowMore
  <1>9. /\ Cardinality(Rows(c)' \ {NoMessage}) <= errors[c] + 1
        /\ Cardinality(Incomplete(c)' \ {NoMessage}) <= errors[c] + 1
    <2>1. Rows(c)' \ {NoMessage} \subseteq Rows(c)' /\ Incomplete(c)' \ {NoMessage} \subseteq Incomplete(c)'
      OBVIOUS
    <2>2. errors[c] + 1 \in Nat
      BY <1>1
    <2> QED BY <1>7, <1>8, <2>1, <2>2, NoMore
  <1>10. Sent(c)' = 0 /\ answer'[c] # "sent"
    BY <1>1 DEF Sent
  <1>11. Accounted(c)'
    BY <1>1, <1>2, <1>3, <1>7, <1>9, <1>10 DEF Accounted
  <1>12. Routed(c)'
    BY <1>1, <1>2 DEF Routed
  <1> QED BY <1>11, <1>12

-----------------------------------------------------------------------------
\* Every step of the route keeps the records of all senders.
LEMMA RowsStep ==
    ASSUME MessagesTypeOK, MessagesTypeOK', RowsInv, [MessagesNext]_vars
    PROVE  RowsInv'
  <1>1. ASSUME NEW c \in Sender, Post(c) \/ Serve(c)
        PROVE  RowsInv'
    <2>1. Routed(c) /\ Accounted(c)
      BY DEF RowsInv
    <2>2. Routed(c)' /\ Accounted(c)'
      BY <1>1, <2>1, BeforeTheRows, InsertMessageRows, InsertAttachmentRows, FailsRows DEF Serve
    <2>3. ASSUME NEW d \in Sender, d # c
          PROVE  Routed(d)' /\ Accounted(d)'
      BY <1>1, <2>1, <2>3, OthersKeepTheirs DEF RowsInv
    <2> QED BY <2>2, <2>3 DEF RowsInv
  <1>2. CASE Time \/ UNCHANGED vars
    <2>1. UNCHANGED <<draft, pc, answer, tries, current, messages, attachments, errors>>
      BY <1>2 DEF Time, vars, handlerVars
    <2>2. ASSUME NEW c \in Sender PROVE Routed(c)' /\ Accounted(c)'
      <3>1. Routed(c) /\ Accounted(c)
        BY DEF RowsInv
      <3>2. Rows(c)' = Rows(c) /\ Incomplete(c)' = Incomplete(c) /\ Sent(c)' = Sent(c)
        BY <2>1 DEF Rows, Incomplete, Complete, Sent
      <3> QED BY <2>1, <3>1, <3>2 DEF Routed, Accounted
    <2> QED BY <2>2 DEF RowsInv
  <1> QED BY <1>1, <1>2 DEF MessagesNext

LEMMA MessagesInvAlways == MessagesSpec => [](MessagesTypeOK /\ RowsInv)
  <1>1. MessagesInit => MessagesTypeOK /\ RowsInv
    BY MessagesInitInv
  <1>2. RateLimitsAssumption
    BY MessagesAssumption
  <1>3. Spec => []IInv
    BY <1>2, IInvAlways
  <1>4. IInv' /\ MessagesTypeOK /\ RowsInv /\ [MessagesNext]_vars => (MessagesTypeOK /\ RowsInv)'
    BY MessagesTypeStep, RowsStep DEF IInv
  <1> QED BY <1>1, <1>3, <1>4, RouteUsesLimiters, PTL DEF MessagesSpec

\* The route, its rows and its limiters keep their types; a limiter is held
\* only between the finding and the asking, and is the one of that station.
THEOREM MessagesTypeCorrect == MessagesSpec => []MessagesTypeOK
  BY MessagesInvAlways, PTL

LEMMA RowsAccount ==
    ASSUME MessagesTypeOK, RowsInv
    PROVE  EveryRowIsAccountedFor
  <1> SUFFICES ASSUME NEW c \in Sender
               PROVE  /\ Cardinality(Rows(c)) <=
                           Sent(c) + (IF current[c] # NoMessage THEN 1 ELSE 0) + errors[c]
                      /\ Cardinality(Incomplete(c)) <=
                           (IF current[c] # NoMessage THEN 1 ELSE 0) + errors[c]
                      /\ Sent(c) = 1 => \E i \in Rows(c) : Complete(i)
                      /\ Rows(c) # {} => draft[c].kind # "refused" /\ draft[c].party
    BY DEF EveryRowIsAccountedFor, Sent, Incomplete
  <1>1. Routed(c) /\ Accounted(c)
    BY DEF RowsInv
  <1>2. errors[c] \in Nat /\ Sent(c) \in {0, 1} /\ Incomplete(c) \subseteq Rows(c) /\ NoMessage \notin Rows(c)
    BY RowsAre
  <1>3. IsFiniteSet(Rows(c) \ {current[c]}) /\ IsFiniteSet(Incomplete(c) \ {current[c]})
    BY <1>1, <1>2, FS_Subset DEF Accounted
  <1>4. /\ Cardinality(Rows(c) \ {current[c]}) <= Sent(c) + errors[c]
        /\ Cardinality(Incomplete(c) \ {current[c]}) <= errors[c]
    BY <1>1 DEF Accounted
  <1>5. CASE current[c] = NoMessage
    <2>1. Rows(c) \ {current[c]} = Rows(c) /\ Incomplete(c) \ {current[c]} = Incomplete(c)
      BY <1>2, <1>5
    <2>2. IsFiniteSet(Rows(c)) /\ IsFiniteSet(Incomplete(c))
      BY <1>1, <1>2, FS_Subset DEF Accounted
    <2>3. Cardinality(Rows(c)) \in Nat /\ Cardinality(Incomplete(c)) \in Nat
      BY <2>2, FS_CardinalityType
    <2>4. Cardinality(Rows(c)) <= Sent(c) + errors[c] /\ Cardinality(Incomplete(c)) <= errors[c]
      BY <1>4, <2>1
    <2> QED BY <1>1, <1>2, <1>5, <2>3, <2>4 DEF Accounted, Incomplete, Sent
  <1>6. CASE current[c] # NoMessage
    <2>1. PICK R, I : R = Rows(c) \ {current[c]} /\ I = Incomplete(c) \ {current[c]}
      OBVIOUS
    <2>2. Rows(c) \subseteq R \cup {current[c]} /\ Incomplete(c) \subseteq I \cup {current[c]}
      BY <2>1
    <2>3. PICK n \in Nat : n = Sent(c) + errors[c]
      BY <1>2
    <2>4. /\ IsFiniteSet(R) /\ Cardinality(R) <= n
          /\ IsFiniteSet(I) /\ Cardinality(I) <= errors[c]
      BY <1>3, <1>4, <2>1, <2>3
    <2>5. IsFiniteSet(Rows(c)) /\ Cardinality(Rows(c)) <= n + 1
      BY <2>2, <2>4, OneRowMore
    <2>6. IsFiniteSet(Incomplete(c)) /\ Cardinality(Incomplete(c)) <= errors[c] + 1
      BY <1>2, <2>2, <2>4, OneRowMore
    <2>7. Cardinality(Rows(c)) \in Nat /\ Cardinality(Incomplete(c)) \in Nat
      BY <2>5, <2>6, FS_CardinalityType
    <2>8. Sent(c) = 1 => \E i \in Rows(c) : Complete(i)
      BY <1>1 DEF Accounted, Incomplete, Sent
    <2> QED BY <1>1, <1>2, <1>6, <2>3, <2>5, <2>6, <2>7, <2>8 DEF Accounted
  <1> QED BY <1>5, <1>6

\* A message is in the table once for the answer that promised it, or for the
\* request still under way, or for an error its sender was told; never a
\* second copy, nor a message without its attachment, behind a clean record
\* (message_service.go 78-125, message_store.go 39-59).
THEOREM RowsAreAccountedFor == MessagesSpec => []EveryRowIsAccountedFor
  <1>1. MessagesTypeOK /\ RowsInv => EveryRowIsAccountedFor
    BY RowsAccount
  <1> QED BY <1>1, MessagesInvAlways, PTL
=============================================================================
