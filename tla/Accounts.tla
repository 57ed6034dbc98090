------------------------------ MODULE Accounts ------------------------------
(***************************************************************************)
(* User accounts: the bootstrap of the first administrator behind the      *)
(* set-up gate (handler/setup_handler.go, middleware/setup.go), the        *)
(* administrators' own operations (handler/user_handler.go,                *)
(* service/user_service.go) and the counting of failed logins that locks   *)
(* an account (service/auth_service.go, store/user_store.go).              *)
(*                                                                         *)
(* One action is one SQL statement of a handler.  Time is counted in ticks *)
(* of which the failure window has Span and a lockout has Lockout; one     *)
(* client address is modelled.  A request straddles at most one tick       *)
(* (requests take less than seconds, a tick stands for minutes).           *)
(***************************************************************************)
EXTENDS Integers, FiniteSets

CONSTANTS
    Name,       \* user names
    Target,     \* names that log in and are unlocked
    Managed,    \* names whose rows and roles administrators manage
    Handler,    \* goroutines serving requests
    MaxUser,    \* maxUserFailures
    MaxAddress, \* maxIPFailures
    Span,       \* failureWindow, in ticks
    Lockout,    \* lockoutDuration, in ticks
    NoName

ASSUME AccountsAssumption ==
    /\ Target \subseteq Name
    /\ Managed \subseteq Name
    /\ IsFiniteSet(Handler)
    /\ MaxUser \in Nat \ {0}
    /\ MaxAddress \in Nat \ {0}
    /\ Span \in Nat \ {0}
    /\ Lockout \in Nat
    /\ Span < Lockout
    /\ NoName \notin Name

VARIABLES
    accounts,   \* users: the names with a row
    admins,     \* user_roles: the names with the role administrator
    complete,   \* the gate's cached answer, per process
    locked,     \* users.is_locked
    left,       \* ticks until users.locked_until
    failures,   \* login_attempts: the rows no older than Span
    pc, who,    \* per handler: its next statement and the name it is about
    straddles,  \* handlers in flight since before the last tick
    late,       \* history: logins overtaken by a clear
    fresh       \* history: failures recorded since the last clear, to MaxUser

vars == <<accounts, admins, complete, locked, left, failures,
          pc, who, straddles, late, fresh>>
lockTables == <<locked, left, failures>>
roleTables == <<accounts, admins>>

\* A row of login_attempts, its age in ticks; NoName is the NULL of an unknown
\* user, and nth stands for the id, which nothing reads.
Row == [name : Name \cup {NoName}, age : 0..Span, nth : Nat]

InForce(n) == locked[n] /\ left[n] > 0

\* attempted_at > windowStart, which a request computed when it arrived.
Recent(h) == 0..(IF h \in straddles THEN Span ELSE Span - 1)
CountByUser(h, n) == Cardinality({r \in failures : r.name = n /\ r.age \in Recent(h)})
CountByAddress(h) == Cardinality({r \in failures : r.age \in Recent(h)})

LoginPc == {"find", "unknown", "release", "precount", "record", "count",
            "lock", "clear"}
SetupPc == {"create", "grant"}

Init ==
    /\ accounts = {}
    /\ admins = {}
    /\ complete = FALSE
    /\ locked = [n \in Name |-> FALSE]
    /\ left = [n \in Name |-> 0]
    /\ failures = {}
    /\ pc = [h \in Handler |-> "idle"]
    /\ who = [h \in Handler |-> NoName]
    /\ straddles = {}
    /\ late = {}
    /\ fresh = [n \in Name |-> 0]

-----------------------------------------------------------------------------
Goto(h, label) == pc' = [pc EXCEPT ![h] = label] /\ UNCHANGED <<who, straddles, late>>

Begin(h, label, n) ==
    /\ pc[h] = "idle"
    /\ pc' = [pc EXCEPT ![h] = label]
    /\ who' = [who EXCEPT ![h] = n]
    /\ UNCHANGED straddles

End(h) ==
    /\ pc' = [pc EXCEPT ![h] = "idle"]
    /\ who' = [who EXCEPT ![h] = NoName]
    /\ straddles' = straddles \ {h}
    /\ late' = late \ {h}

\* The logins under way for name n.
LoginsOf(n) == {h \in Handler : pc[h] \in LoginPc /\ who[h] = n}

Fail(n) ==
    /\ LET k == Cardinality({r \in failures : r.name = n /\ r.age = 0})
       IN  failures' = failures \cup {[name |-> n, age |-> 0, nth |-> k]}
    /\ fresh' = IF n \in Name /\ fresh[n] < MaxUser
                  THEN [fresh EXCEPT ![n] = @ + 1] ELSE fresh

-----------------------------------------------------------------------------
(* Set-up and administration.                                              *)

\* Bootstrap: AdminExists; with an administrator the answer is 409.
Bootstrap(h, n) ==
    /\ admins = {}
    /\ Begin(h, "create", n)
    /\ UNCHANGED <<roleTables, lockTables, complete, late, fresh>>

\* userStore.Create; users.username is unique.
CreateAdmin(h) ==
    /\ pc[h] = "create"
    /\ IF who[h] \in accounts
         THEN End(h) /\ UNCHANGED accounts
         ELSE accounts' = accounts \cup {who[h]} /\ Goto(h, "grant")
    /\ UNCHANGED <<admins, lockTables, complete, fresh>>

\* userStore.AddRole, a statement of its own.
GrantAdmin(h) ==
    /\ pc[h] = "grant"
    /\ admins' = admins \cup {who[h]}
    /\ End(h)
    /\ UNCHANGED <<accounts, lockTables, complete, fresh>>

\* RequireSetup lets a request through: the answer of AdminExists is kept for
\* ever when positive, for two seconds when not (it may refuse at any time).
Open == complete \/ admins # {}
Pass == Open /\ complete' = TRUE

\* users.POST, by an administrator: the row and its two ordinary roles.
CreateUser(n) ==
    /\ Pass
    /\ accounts' = accounts \cup {n}
    /\ UNCHANGED <<admins, lockTables, pc, who, straddles, late, fresh>>

\* Mutant: the row of the user is not asked for.
AddRoleUnchecked(n) ==
    /\ Pass
    /\ admins' = admins \cup {n}
    /\ UNCHANGED <<accounts, lockTables, pc, who, straddles, late, fresh>>

\* users.POST(/:id/roles) and users.DELETE(/:id/roles/:roleId): nothing keeps
\* the last administrator from being removed.
AddRole(n) ==
    /\ Pass
    /\ n \in accounts
    /\ admins' = admins \cup {n}
    /\ UNCHANGED <<accounts, lockTables, pc, who, straddles, late, fresh>>

RemoveRole(n) ==
    /\ Pass
    /\ n \in admins
    /\ admins' = admins \ {n}
    /\ UNCHANGED <<accounts, lockTables, pc, who, straddles, late, fresh>>

\* users.POST(/:id/unlock): UnlockAccount, and then ClearFailedAttempts.
Unlock(h, n) ==
    /\ Pass
    /\ n \in accounts
    /\ locked' = [locked EXCEPT ![n] = FALSE]
    /\ left' = [left EXCEPT ![n] = 0]
    /\ Begin(h, "clear", n)
    /\ UNCHANGED <<roleTables, failures, late, fresh>>

-----------------------------------------------------------------------------
(* Login.                                                                  *)

\* The arrival of a login with CountRecentFailuresByIP, which only reads: over
\* the threshold it is refused and nothing has changed.
Login(h, n) ==
    /\ Pass
    /\ CountByAddress(h) < MaxAddress
    /\ Begin(h, "find", n)
    /\ UNCHANGED <<roleTables, lockTables, late, fresh>>

\* Mutant: an attempt on a locked account prolongs the lock.
FindUserProlonging(h) ==
    /\ pc[h] = "find"
    /\ LET n == who[h] IN
         \/ n \notin accounts /\ Goto(h, "unknown")
         \/ n \in accounts /\ InForce(n) /\ Goto(h, "lock")
         \/ n \in accounts /\ locked[n] /\ ~InForce(n) /\ Goto(h, "release")
         \/ n \in accounts /\ ~locked[n] /\ Goto(h, "precount")
    /\ UNCHANGED <<roleTables, lockTables, complete, fresh>>

\* GetByUsername and what its row says: unknown, locked, locked until now.
FindUser(h) ==
    /\ pc[h] = "find"
    /\ LET n == who[h] IN
         \/ n \notin accounts /\ Goto(h, "unknown")
         \/ n \in accounts /\ InForce(n) /\ End(h)
         \/ n \in accounts /\ locked[n] /\ ~InForce(n) /\ Goto(h, "release")
         \/ n \in accounts /\ ~locked[n] /\ Goto(h, "precount")
    /\ UNCHANGED <<roleTables, lockTables, complete, fresh>>

\* RecordFailedAttempt(nil): counts for the address only.
RecordUnknown(h) ==
    /\ pc[h] = "unknown"
    /\ Fail(NoName)
    /\ End(h)
    /\ UNCHANGED <<roleTables, locked, left, complete>>

\* CheckPassword: right or wrong.
Verify(h) == \E label \in {"record", "clear"} : Goto(h, label)

\* UnlockAccount on a lock that was found expired.
Release(h) ==
    /\ pc[h] = "release"
    /\ locked' = [locked EXCEPT ![who[h]] = FALSE]
    /\ left' = [left EXCEPT ![who[h]] = 0]
    /\ Verify(h)
    /\ UNCHANGED <<roleTables, failures, complete, fresh>>

\* Mutant: the flag is trusted alone.
CountBeforeSkipped(h) ==
    /\ pc[h] = "precount"
    /\ Verify(h)
    /\ UNCHANGED <<roleTables, lockTables, complete, fresh>>

\* The double-check: CountRecentFailuresByUser before the password.
CountBefore(h) ==
    /\ pc[h] = "precount"
    /\ IF CountByUser(h, who[h]) >= MaxUser THEN Goto(h, "lock") ELSE Verify(h)
    /\ UNCHANGED <<roleTables, lockTables, complete, fresh>>

\* RecordFailedAttempt.
RecordFailure(h) ==
    /\ pc[h] = "record"
    /\ Fail(who[h])
    /\ Goto(h, "count")
    /\ UNCHANGED <<roleTables, locked, left, complete>>

\* CountRecentFailuresByUser after it.
CountAfter(h) ==
    /\ pc[h] = "count"
    /\ IF CountByUser(h, who[h]) >= MaxUser THEN Goto(h, "lock") ELSE End(h)
    /\ UNCHANGED <<roleTables, lockTables, complete, fresh>>

\* LockAccount; the answer is the same whether or not the statement succeeds.
Lock(h) ==
    /\ pc[h] = "lock"
    /\ locked' = [locked EXCEPT ![who[h]] = TRUE]
    /\ left' = [left EXCEPT ![who[h]] = Lockout]
    /\ End(h)
    /\ UNCHANGED <<roleTables, failures, complete, fresh>>

\* Mutant: only the legacy counter is reset, the rows stay.
ClearLegacy(h) ==
    /\ pc[h] = "clear"
    /\ UNCHANGED failures
    /\ fresh' = [fresh EXCEPT ![who[h]] = 0]
    /\ pc' = [pc EXCEPT ![h] = "idle"]
    /\ who' = [who EXCEPT ![h] = NoName]
    /\ straddles' = straddles \ {h}
    /\ late' = (late \cup LoginsOf(who[h])) \ {h}
    /\ UNCHANGED <<roleTables, locked, left, complete>>

\* ClearFailedAttempts, after a success (what follows it issues the tokens) or
\* by an administrator.
Clear(h) ==
    /\ pc[h] = "clear"
    /\ failures' = {r \in failures : r.name # who[h]}
    /\ fresh' = [fresh EXCEPT ![who[h]] = 0]
    /\ pc' = [pc EXCEPT ![h] = "idle"]
    /\ who' = [who EXCEPT ![h] = NoName]
    /\ straddles' = straddles \ {h}
    /\ late' = (late \cup LoginsOf(who[h])) \ {h}
    /\ UNCHANGED <<roleTables, locked, left, complete>>

\* A statement fails, or the client goes away: the handler ends there.
Fails(h) ==
    /\ pc[h] # "idle"
    /\ End(h)
    /\ UNCHANGED <<roleTables, lockTables, complete, fresh>>

\* Time passes; rows older than any window still open count no more.
Tick ==
    /\ straddles = {}
    /\ straddles' = {h \in Handler : pc[h] # "idle"}
    /\ failures' = {[r EXCEPT !.age = @ + 1] : r \in {q \in failures : q.age < Span}}
    /\ left' = [n \in Name |-> IF left[n] > 0 THEN left[n] - 1 ELSE 0]
    /\ UNCHANGED <<roleTables, complete, locked, pc, who, late, fresh>>

\* The process stops and is started again: its handlers and what the gate
\* remembered are gone.
Restart ==
    /\ complete' = FALSE
    /\ pc' = [h \in Handler |-> "idle"]
    /\ who' = [h \in Handler |-> NoName]
    /\ straddles' = {}
    /\ late' = {}
    /\ UNCHANGED <<roleTables, lockTables, fresh>>

-----------------------------------------------------------------------------
Arrive(h) ==
    \/ \E n \in Name : Bootstrap(h, n)
    \/ \E n \in Target : Login(h, n) \/ Unlock(h, n)

Proceed(h) ==
    \/ CreateAdmin(h) \/ GrantAdmin(h)
    \/ FindUser(h) \/ RecordUnknown(h)
    \/ Release(h) \/ CountBefore(h) \/ RecordFailure(h) \/ CountAfter(h)
    \/ Lock(h) \/ Clear(h)

Next ==
    \/ \E h \in Handler : Arrive(h) \/ Proceed(h) \/ Fails(h)
    \/ \E n \in Managed : CreateUser(n) \/ AddRole(n) \/ RemoveRole(n)
    \/ Tick
    \/ Restart

Spec == Init /\ [][Next]_vars

\* Handlers go on and time passes.
LiveSpec ==
    /\ Spec
    /\ \A h \in Handler : WF_vars(Proceed(h))
    /\ WF_vars(Tick)

-----------------------------------------------------------------------------
TypeOK ==
    /\ accounts \subseteq Name
    /\ admins \subseteq accounts
    /\ complete \in BOOLEAN
    /\ locked \in [Name -> BOOLEAN]
    /\ left \in [Name -> 0..Lockout]
    /\ failures \subseteq Row /\ IsFiniteSet(failures)
    /\ pc \in [Handler -> {"idle"} \cup LoginPc \cup SetupPc]
    /\ who \in [Handler -> Name \cup {NoName}]
    /\ straddles \subseteq Handler
    /\ late \subseteq Handler
    /\ fresh \in [Name -> 0..MaxUser]
    /\ \A h \in Handler : pc[h] = "idle" <=> who[h] = NoName
    /\ \A h \in straddles \cup late : pc[h] # "idle"

\* However logins overlap, fail half-way or take each other's lock away, the
\* wrong passwords tried within one window stay below the threshold plus what
\* is under way: on one account, and from one address (Login 36-103).
FailuresBounded ==
    LET Now == {r \in failures : r.age < Span} IN
      /\ \A n \in Name :
            Cardinality({r \in Now : r.name = n}) <= MaxUser - 1 + Cardinality(Handler)
      /\ Cardinality(Now) <= MaxAddress - 1 + Cardinality(Handler)

\* After a success or an unlock an account is only locked again for MaxUser
\* new failures, or by a login the clearing overtook (Login 71-103,
\* UnlockAccount 132-137).
LockHasCause ==
    \A h \in Handler : pc[h] = "lock" => h \in late \/ fresh[who[h]] >= MaxUser

\* "It only works when no admin user exists" (setup_handler.go:30): a bootstrap
\* never makes an administrator beside another one (Bootstrap 32-71).
BootstrapCloses ==
    [][\A h \in Handler :
          pc[h] = "grant" /\ pc'[h] = "idle" /\ who[h] \in admins' \ admins
             => admins = {}]_vars

\* A lockout ends, whatever is tried meanwhile (Login 62-69, lockoutDuration).
LockoutEnds == \A n \in Target : InForce(n) ~> ~InForce(n)
=============================================================================
