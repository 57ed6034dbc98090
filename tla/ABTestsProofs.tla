---------------------------- MODULE ABTestsProofs ----------------------------
(***************************************************************************)
(* Proofs about the life of A/B tests, for every number of tests and       *)
(* administrators and every choice of names and dates.                     *)
(***************************************************************************)
EXTENDS ABTests, TLAPS

\* No step but Create makes a test active, and none takes a row or an ended
\* verdict back.
LEMMA StatusEffect ==
  ASSUME TypeOK, [Next]_vars, ~\E t \in Test : Create(t)
  PROVE  /\ status' \in [Test -> Active \cup Ended \cup {"absent"}]
         /\ \A t \in Test :
              \/ status'[t] = status[t]
              \/ status[t] \notin {"absent", "draft"} /\ status'[t] \in Ended
<1> USE DEF TypeOK, SetStatus, Active, Ended
<1>1. CASE UNCHANGED status
  BY <1>1
<1>2. ASSUME NEW t \in Test, CompleteOverdue(t)
      PROVE  status' = [status EXCEPT ![t] = "completed"] /\ status[t] \notin {"absent", "draft"}
  BY <1>2 DEF CompleteOverdue
<1>3. ASSUME RollBack
      PROVE  /\ status' = [status EXCEPT ![condemned] = "rolled_back"]
             /\ condemned \in Test /\ status[condemned] \notin {"absent", "draft"}
  BY <1>3 DEF RollBack
<1>4. ASSUME NEW a \in Admin, VerdictWrite(a)
      PROVE  /\ status' = [status EXCEPT ![admin[a].test] = admin[a].status]
             /\ admin[a].test \in Test /\ admin[a].status \in Ended
             /\ status[admin[a].test] \notin {"absent", "draft"}
  BY <1>4 DEF VerdictWrite
<1>5. \/ UNCHANGED status
      \/ RollBack
      \/ \E t \in Test : CompleteOverdue(t)
      \/ \E a \in Admin : VerdictWrite(a)
  BY DEF Next, vars, TimePasses, Judge, UpdateRead, UpdateWrite, VerdictRead,
         RequestFails, Tick, Skip, Crash
<1> QED
  BY <1>1, <1>2, <1>3, <1>4, <1>5

LEMMA InitTyped == Init => TypeOK
BY ABTestsAssumption
DEF Init, TypeOK, NoRequest, NoRows, Date, Active, Ended, ABTestsAssumption

LEMMA NextTyped ==
  ASSUME TypeOK, [Next]_vars
  PROVE  TypeOK'
<1> USE ABTestsAssumption DEF TypeOK, NoRequest, Date, Active, Ended, evaluator
<1>1. ASSUME NEW t \in Test, Create(t) PROVE TypeOK'
  BY <1>1 DEF Create, SetStatus
<1>2. ASSUME NEW a \in Admin, NEW t \in Test, UpdateRead(a, t) PROVE TypeOK'
  BY <1>2 DEF UpdateRead, Ask
<1>3. ASSUME NEW a \in Admin, NEW t \in Test, VerdictRead(a, t) PROVE TypeOK'
  BY <1>3 DEF VerdictRead, Ask
<1>4. ASSUME NEW a \in Admin, UpdateWrite(a) \/ RequestFails(a) PROVE TypeOK'
  BY <1>4 DEF UpdateWrite, RequestFails, Done
<1>5. ASSUME NEW a \in Admin, VerdictWrite(a) PROVE TypeOK'
  BY <1>5 DEF VerdictWrite, SetStatus, Done
<1>6. ASSUME NEW t \in Test, CompleteOverdue(t) PROVE TypeOK'
  BY <1>6 DEF CompleteOverdue, SetStatus, Handled
<1>7. ASSUME NEW t \in Test, Judge(t) PROVE TypeOK'
  BY <1>7 DEF Judge, Handled
<1>8. CASE RollBack
  BY <1>8 DEF RollBack, SetStatus
<1>9. CASE Tick
  BY <1>9 DEF Tick, Running, Idle
<1>10. CASE Skip
  BY <1>10 DEF Skip, Handled
<1>11. CASE Crash
  BY <1>11 DEF Crash, NoRows
<1>12. CASE TimePasses
  BY <1>12 DEF TimePasses
<1>13. CASE UNCHANGED vars
  BY <1>13 DEF vars
<1> QED
  BY <1>1, <1>2, <1>3, <1>4, <1>5, <1>6, <1>7, <1>8, <1>9, <1>10, <1>11, <1>12, <1>13 DEF Next

\* Requests and the evaluator only hold rows that exist, and verdicts are only
\* on their way to tests that have run (Rollback, Complete, ListRunningABTests).
THEOREM TypeCorrect == Spec => []TypeOK
<1>1. TypeOK /\ [Next]_vars => TypeOK'
  BY NextTyped
<1> QED
  BY InitTyped, <1>1, PTL DEF Spec

\* However edits, verdicts and ticks overlap, and on whatever old rows they
\* work, no statement sets an ended test running again (docs/design.md 219).
THEOREM EndedTestsStayEnded == Spec => EndedIsFinal
<1>1. TypeOK /\ [Next]_vars => [\A t \in Test : status[t] \in Ended => status'[t] \in Ended]_vars
  <2> SUFFICES ASSUME TypeOK, [Next]_vars, NEW t \in Test, status[t] \in Ended
               PROVE  status'[t] \in Ended
    OBVIOUS
  <2>1. ASSUME NEW u \in Test, Create(u) PROVE status'[t] \in Ended
    BY <2>1 DEF Create, SetStatus, TypeOK, Ended
  <2>2. CASE ~\E u \in Test : Create(u)
    BY <2>2, StatusEffect
  <2> QED
    BY <2>1, <2>2
<1> QED
  BY TypeCorrect, <1>1, PTL DEF Spec, EndedIsFinal

\* Successive iterations of one experiment exclude each other, whoever ends or
\* edits them meanwhile (migration 017).
THEOREM NamesAreExclusive == Spec => []OneActivePerName
<1> USE DEF OneActivePerName, Active
<1>1. Init => OneActivePerName
  BY DEF Init
<1>2. TypeOK /\ OneActivePerName /\ [Next]_vars => OneActivePerName'
  <2> SUFFICES ASSUME TypeOK, OneActivePerName, [Next]_vars
               PROVE  OneActivePerName'
    OBVIOUS
  <2>1. ASSUME NEW t \in Test, Create(t) PROVE OneActivePerName'
    BY <2>1 DEF Create, SetStatus, NameIsFree, TypeOK
  <2>2. CASE ~\E t \in Test : Create(t)
    BY <2>2, StatusEffect DEF Ended
  <2> QED
    BY <2>1, <2>2
<1> QED
  BY TypeCorrect, <1>1, <1>2, PTL DEF Spec
=============================================================================
