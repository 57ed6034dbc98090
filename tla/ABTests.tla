------------------------------- MODULE ABTests -------------------------------
(***************************************************************************)
(* The life of A/B tests.  Administrators create, edit, complete and roll  *)
(* back tests; the evaluator's tick lists the running ones and completes   *)
(* or rolls them back one after the other.  Everybody reads a row in one   *)
(* statement and writes it in another, and no write looks at what is there.*)
(***************************************************************************)
EXTENDS Naturals

CONSTANTS
    Test,      \* rows of ab_tests
    NameOf,    \* NameOf[t]: the experiment a row is about
    Admin,     \* goroutines serving the administrators' requests
    NoTest,
    MaxTime    \* bound: the clock, and with it the end dates

ASSUME ABTestsAssumption == NoTest \notin Test /\ MaxTime \in Nat

VARIABLES
    now,        \* the time
    status,     \* ab_tests.status, "absent" before the row is created
    end,        \* ab_tests.end_date
    admin,      \* what each administrator's request is doing
    batch,      \* the listed tests not evaluated yet, with the end date listed
    condemned   \* the test the evaluator has found worth a rollback

evaluator == <<batch, condemned>>
vars == <<now, status, end, admin, evaluator>>

Date == 0..MaxTime
Active == {"draft", "running"}
Ended == {"completed", "rolled_back"}
NoRequest == [pc |-> "idle"]
NoRows == [t \in {} |-> 0]

Init ==
    /\ now = 0
    /\ status = [t \in Test |-> "absent"]
    /\ end = [t \in Test |-> 0]
    /\ admin = [a \in Admin |-> NoRequest]
    /\ batch = NoRows
    /\ condemned = NoTest


\* Mutant: drafts are listed as well.
RunningOrDraft == {t \in Test : status[t] \in Active}

\* ListRunningABTests.
Running == {t \in Test : status[t] = "running"}

SetStatus(t, new) == status' = [status EXCEPT ![t] = new]

TimePasses ==
    /\ now < MaxTime
    /\ now' = now + 1
    /\ UNCHANGED <<status, end, admin, evaluator>>

-----------------------------------------------------------------------------
(* Administrators. *)

\* Mutant: the index only covers running tests.
NameIsFreeOfRunning(t) == \A u \in Test : NameOf[u] = NameOf[t] => status[u] # "running"

\* ab_tests_active_name_unique.
NameIsFree(t) == \A u \in Test : NameOf[u] = NameOf[t] => status[u] \notin Active

\* A test whose start date has come runs at once, another one is a draft.
Create(t) ==
    /\ status[t] = "absent"
    /\ NameIsFree(t)
    /\ \E s \in Active : SetStatus(t, s)
    /\ \E e \in Date : end' = [end EXCEPT ![t] = e]
    /\ UNCHANGED <<now, admin, evaluator>>

Ask(a, request) == admin[a] = NoRequest /\ admin' = [admin EXCEPT ![a] = request]
Done(a) == admin' = [admin EXCEPT ![a] = NoRequest]

\* Update reads the row, refuses an ended test and applies the request; without
\* a new end date the one it read is written back.
UpdateRead(a, t) ==
    /\ status[t] \in Active
    /\ \E e \in Date : Ask(a, [pc |-> "update", test |-> t, status |-> status[t], end |-> e])
    /\ UNCHANGED <<now, status, end, evaluator>>

\* Mutant: the row is written as it was read, with its status.
UpdateWholeRow(a) ==
    /\ admin[a].pc = "update"
    /\ end' = [end EXCEPT ![admin[a].test] = admin[a].end]
    /\ SetStatus(admin[a].test, admin[a].status)
    /\ Done(a)
    /\ UNCHANGED <<now, evaluator>>

UpdateWrite(a) ==
    /\ admin[a].pc = "update"
    /\ end' = [end EXCEPT ![admin[a].test] = admin[a].end]
    /\ Done(a)
    /\ UNCHANGED <<now, status, evaluator>>

\* Complete and Rollback refuse a test that is not running.
VerdictRead(a, t) ==
    /\ status[t] = "running"
    /\ \E s \in Ended : Ask(a, [pc |-> "verdict", test |-> t, status |-> s])
    /\ UNCHANGED <<now, status, end, evaluator>>

VerdictWrite(a) ==
    /\ admin[a].pc = "verdict"
    /\ SetStatus(admin[a].test, admin[a].status)
    /\ Done(a)
    /\ UNCHANGED <<now, end, evaluator>>

\* The UPDATE fails or the client goes away.
RequestFails(a) ==
    /\ admin[a] # NoRequest
    /\ Done(a)
    /\ UNCHANGED <<now, status, end, evaluator>>

-----------------------------------------------------------------------------
(* The evaluator. *)

Idle == DOMAIN batch = {} /\ condemned = NoTest

Tick ==
    /\ Idle
    /\ batch' = [t \in Running |-> end[t]]
    /\ UNCHANGED <<now, status, end, admin, condemned>>

Handled(t) == batch' = [u \in DOMAIN batch \ {t} |-> batch[u]]

\* Mutant: a test of which the end date has come is not completed any more.
CompleteOnTheDay(t) ==
    /\ condemned = NoTest /\ t \in DOMAIN batch
    /\ now = batch[t]
    /\ SetStatus(t, "completed")
    /\ Handled(t)
    /\ UNCHANGED <<now, end, admin, condemned>>

CompleteOverdue(t) ==
    /\ condemned = NoTest /\ t \in DOMAIN batch
    /\ now > batch[t]
    /\ SetStatus(t, "completed")
    /\ Handled(t)
    /\ UNCHANGED <<now, end, admin, condemned>>

\* The conversion rates are read and saved; they may call for a rollback.
Judge(t) ==
    /\ condemned = NoTest /\ t \in DOMAIN batch
    /\ now <= batch[t]
    /\ Handled(t)
    /\ condemned' \in {NoTest, t}
    /\ UNCHANGED <<now, status, end, admin>>

RollBack ==
    /\ condemned # NoTest
    /\ SetStatus(condemned, "rolled_back")
    /\ condemned' = NoTest
    /\ UNCHANGED <<now, end, admin, batch>>

\* A query or UPDATE for one test fails: it is logged and the next test's turn.
Skip ==
    /\ \/ condemned # NoTest /\ UNCHANGED batch
       \/ condemned = NoTest /\ \E t \in DOMAIN batch : Handled(t)
    /\ condemned' = NoTest
    /\ UNCHANGED <<now, status, end, admin>>

\* The process restarts.
Crash ==
    /\ admin' = [a \in Admin |-> NoRequest]
    /\ batch' = NoRows
    /\ condemned' = NoTest
    /\ UNCHANGED <<now, status, end>>

-----------------------------------------------------------------------------
Next ==
    \/ TimePasses
    \/ \E t \in Test : Create(t) \/ CompleteOverdue(t) \/ Judge(t)
    \/ \E a \in Admin :
         \/ UpdateWrite(a) \/ VerdictWrite(a) \/ RequestFails(a)
         \/ \E t \in Test : UpdateRead(a, t) \/ VerdictRead(a, t)
    \/ Tick \/ RollBack \/ Skip \/ Crash

Spec == Init /\ [][Next]_vars

\* The ticker keeps firing, and no test's UPDATE fails every time it is tried.
LiveSpec ==
    /\ Spec
    /\ WF_vars(Tick) /\ WF_vars(RollBack)
    /\ \A t \in Test : SF_vars(CompleteOverdue(t)) /\ WF_vars(Judge(t))

-----------------------------------------------------------------------------
\* Types; what requests and the evaluator hold are rows that exist.
TypeOK ==
    /\ now \in Date
    /\ status \in [Test -> Active \cup Ended \cup {"absent"}]
    /\ end \in [Test -> Date]
    /\ DOMAIN admin = Admin
    /\ \A a \in Admin :
         \/ admin[a].pc = "idle"
         \/ /\ admin[a].pc = "update"
            /\ admin[a].status \in Active /\ admin[a].end \in Date
            /\ admin[a].test \in Test /\ status[admin[a].test] # "absent"
         \/ /\ admin[a].pc = "verdict"
            /\ admin[a].status \in Ended
            /\ admin[a].test \in Test /\ status[admin[a].test] \notin {"absent", "draft"}
    /\ DOMAIN batch \subseteq Test
    /\ \A t \in DOMAIN batch : batch[t] \in Date /\ status[t] \notin {"absent", "draft"}
    /\ condemned \in Test \cup {NoTest}
    /\ condemned # NoTest => status[condemned] \notin {"absent", "draft"}

\* "Roll back immediately" (docs/design.md 219): once a test was rolled back or
\* completed, by anybody, it never runs again, although edits and verdicts that
\* read it before are still to be written (Update 82-115).
EndedIsFinal ==
    [][\A t \in Test : status[t] \in Ended => status'[t] \in Ended]_vars

\* An experiment never has two tests that are drafted or running, so a user is
\* never assigned twice to one experiment (GetAssignments 150-180, migration 017).
OneActivePerName ==
    \A t, u \in Test :
        status[t] \in Active /\ status[u] \in Active /\ NameOf[t] = NameOf[u] => t = u

\* A running test whose end date has passed ends, or is extended, although ticks
\* fail, skip tests and work on an older list (abtest_evaluator.go 19-31).
OverdueTestsEnd ==
    \A t \in Test :
        status[t] = "running" /\ now > end[t] ~> status[t] \in Ended \/ now <= end[t]
=============================================================================
