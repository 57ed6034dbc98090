---------------------------- MODULE SessionsProofs ----------------------------
(***************************************************************************)
(* Rotation and closing of sessions, for any number of users, sessions,    *)
(* tokens and overlapping refreshes.                                       *)
(***************************************************************************)
EXTENDS Sessions, TLAPS

USE SessionsAssumption DEF SessionsAssumption

\* The session a refresh works on.
Session(r) == family[work[r].token]

\* What a refresh that has read its token may still find: an unforked session
\* has one refresh at work, and no live token but the one it is about to revoke.
RotationOK ==
    /\ \A r, s \in Rotating :
         Session(r) = Session(s) /\ Session(r) \notin forked => r = s
    /\ \A r \in Rotating, t \in Token :
         Live(t) /\ family[t] = Session(r) /\ family[t] \notin forked =>
            work[r].pc = "revoke" /\ work[r].token = t

\* A refresh at work on a closed session overlapped its end; sessions that have
\* not begun are not closed.
LateOK ==
    /\ \A r \in Rotating : Session(r) \in closed => r \in late
    /\ \A f \in closed : owner[f] # NoUser

IInv ==
    /\ TypeOK
    /\ OneLivePerSession /\ RotationOK
    /\ ClosedSessionsEnd /\ LateOK

LEMMA InitOK == Init => IInv
BY DEF Init, IInv, TypeOK, OneLivePerSession, RotationOK, ClosedSessionsEnd, LateOK,
       Live, Rotating, NoWork

-----------------------------------------------------------------------------
LEMMA NextType ==
  ASSUME TypeOK, [Next]_vars
  PROVE  TypeOK'
<1> USE DEF TypeOK, NoWork, rows
<1>1. ASSUME Login PROVE TypeOK'
  BY <1>1 DEF Login, Store
<1>2. ASSUME NEW u \in User, Logout(u) PROVE TypeOK'
  BY <1>2 DEF Logout, Close, FamiliesOf, Rotating, Live
<1>3. ASSUME NEW r \in Request, RefreshRead(r) PROVE TypeOK'
  BY <1>3 DEF RefreshRead, Live
<1>4. ASSUME NEW r \in Request, RevokeFamily(r) PROVE TypeOK'
  BY <1>4 DEF RevokeFamily, Close, Rotating, Live
<1>5. ASSUME NEW r \in Request, RevokeToken(r) PROVE TypeOK'
  BY <1>5 DEF RevokeToken, Goto
<1>6. ASSUME NEW r \in Request, Issue(r) PROVE TypeOK'
  BY <1>6 DEF Issue, Store
<1>7. ASSUME NEW r \in Request, RefreshFails(r) PROVE TypeOK'
  BY <1>7 DEF RefreshFails
<1>8. ASSUME NEW t \in Token, Expire(t) PROVE TypeOK'
  BY <1>8 DEF Expire
<1>9. ASSUME Cleanup PROVE TypeOK'
  BY <1>9 DEF Cleanup
<1>10. CASE UNCHANGED vars
  BY <1>10 DEF vars
<1> QED
  BY <1>1, <1>2, <1>3, <1>4, <1>5, <1>6, <1>7, <1>8, <1>9, <1>10 DEF Next

LEMMA NextRotation ==
  ASSUME TypeOK, OneLivePerSession, RotationOK, [Next]_vars
  PROVE  OneLivePerSession' /\ RotationOK'
<1> DEFINE Goal == OneLivePerSession' /\ RotationOK'
<1> SUFFICES Goal
  OBVIOUS
<1> USE DEF TypeOK, OneLivePerSession, RotationOK, Session, Rotating, Live, NoWork, rows
<1>1. ASSUME Login PROVE Goal
  BY <1>1 DEF Login, Store
<1>2. ASSUME NEW u \in User, Logout(u) PROVE Goal
  BY <1>2 DEF Logout, Close
<1>3. ASSUME NEW r \in Request, RefreshRead(r) PROVE Goal
  BY <1>3 DEF RefreshRead
<1>4. ASSUME NEW r \in Request, RevokeFamily(r) PROVE Goal
  BY <1>4 DEF RevokeFamily, Close
<1>5. ASSUME NEW r \in Request, RevokeToken(r) PROVE Goal
  BY <1>5 DEF RevokeToken, Goto
<1>6. ASSUME NEW r \in Request, Issue(r) PROVE Goal
  BY <1>6 DEF Issue, Store
<1>7. ASSUME NEW r \in Request, RefreshFails(r) PROVE Goal
  BY <1>7 DEF RefreshFails
<1>8. ASSUME NEW t \in Token, Expire(t) PROVE Goal
  BY <1>8 DEF Expire
<1>9. ASSUME Cleanup PROVE Goal
  BY <1>9 DEF Cleanup
<1>10. CASE UNCHANGED vars
  BY <1>10 DEF vars
<1> QED
  BY <1>1, <1>2, <1>3, <1>4, <1>5, <1>6, <1>7, <1>8, <1>9, <1>10 DEF Next

LEMMA NextLate ==
  ASSUME TypeOK, ClosedSessionsEnd, LateOK, [Next]_vars
  PROVE  ClosedSessionsEnd' /\ LateOK'
<1> DEFINE Goal == ClosedSessionsEnd' /\ LateOK'
<1> SUFFICES Goal
  OBVIOUS
<1> USE DEF TypeOK, ClosedSessionsEnd, LateOK, Session, Rotating, Live, NoWork, rows, FamiliesOf
<1>1. ASSUME Login PROVE Goal
  BY <1>1 DEF Login, Store
<1>2. ASSUME NEW u \in User, Logout(u) PROVE Goal
  BY <1>2 DEF Logout, Close
<1>3. ASSUME NEW r \in Request, RefreshRead(r) PROVE Goal
  BY <1>3 DEF RefreshRead
<1>4. ASSUME NEW r \in Request, RevokeFamily(r) PROVE Goal
  BY <1>4 DEF RevokeFamily, Close
<1>5. ASSUME NEW r \in Request, RevokeToken(r) PROVE Goal
  BY <1>5 DEF RevokeToken, Goto
<1>6. ASSUME NEW r \in Request, Issue(r) PROVE Goal
  BY <1>6 DEF Issue, Store
<1>7. ASSUME NEW r \in Request, RefreshFails(r) PROVE Goal
  BY <1>7 DEF RefreshFails
<1>8. ASSUME NEW t \in Token, Expire(t) PROVE Goal
  BY <1>8 DEF Expire
<1>9. ASSUME Cleanup PROVE Goal
  BY <1>9 DEF Cleanup
<1>10. CASE UNCHANGED vars
  BY <1>10 DEF vars
<1> QED
  BY <1>1, <1>2, <1>3, <1>4, <1>5, <1>6, <1>7, <1>8, <1>9, <1>10 DEF Next

-----------------------------------------------------------------------------
LEMMA Inductive == Spec => []IInv
<1>1. IInv /\ [Next]_vars => IInv'
  BY NextType, NextRotation, NextLate DEF IInv
<1> QED
  BY InitOK, <1>1, PTL DEF Spec

\* The tables and the refreshes keep their types.
THEOREM TypeCorrect == Spec => []TypeOK
<1>1. IInv => TypeOK
  BY DEF IInv
<1> QED
  BY Inductive, <1>1, PTL

\* A session whose tokens are never presented twice at once has one live token.
THEOREM OneTokenPerSession == Spec => []OneLivePerSession
<1>1. IInv => OneLivePerSession
  BY DEF IInv
<1> QED
  BY Inductive, <1>1, PTL

\* A closed session only lives on through refreshes that overlapped its end.
THEOREM ClosingIsEffective == Spec => []ClosedSessionsEnd
<1>1. IInv => ClosedSessionsEnd
  BY DEF IInv
<1> QED
  BY Inductive, <1>1, PTL
=============================================================================
