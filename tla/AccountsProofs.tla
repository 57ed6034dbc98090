--------------------------- MODULE AccountsProofs ---------------------------
(***************************************************************************)
(* Proofs about Accounts, for every number of names and handlers, every    *)
(* threshold and every window shorter than the lockout: the types, the     *)
(* bound on wrong passwords, the cause of every lock and the closing of    *)
(* the bootstrap.                                                          *)
(***************************************************************************)
EXTENDS Accounts, FiniteSetTheorems, TLAPS

\* A role is granted to a row that was created.
TypeInv == TypeOK /\ \A h \in Handler : pc[h] = "grant" => who[h] \in accounts

\* A bootstrap under way found no administrator, and there still is none.
SetupOK == \A h \in Handler : pc[h] \in SetupPc => admins = {}

\* A step that grants the role leaves no other bootstrap under way.
GrantsAlone == admins' \subseteq admins \/ \A h \in Handler : pc'[h] \notin SetupPc

RowsOf(n) == {r \in failures : r.name = n}

\* fresh counts the rows of a name until there are enough of them to lock.
RowsCounted == \A n \in Name : fresh[n] < MaxUser => Cardinality(RowsOf(n)) <= fresh[n]

Recording == {"precount", "record"}

\* A lock is young (left = Lockout) when it is set.  A login that passed the
\* lock unseen straddles the first tick after it and is gone at the second, so
\* the rows it leaves are out of the window before the lock expires.
LockedOK ==
    \A n \in Name : locked[n] =>
        /\ left[n] < Lockout =>
             \A h \in Handler : who[h] = n /\ h \notin straddles =>
                 /\ pc[h] \notin Recording
                 /\ pc[h] = "release" => left[n] = 0
        /\ left[n] + 1 < Lockout =>
             \A h \in Handler : who[h] = n =>
                 /\ pc[h] \notin Recording
                 /\ pc[h] = "release" => left[n] = 0
        /\ \A r \in RowsOf(n) : r.age + left[n] + 1 >= Lockout

\* The window, and the logins that may still add a row to it: of one name
\* those that passed their count, from the address those that were let in.
Now == {r \in failures : r.age < Span}
NowOf(n) == {r \in Now : r.name = n}
Trying(n) == {h \in Handler : pc[h] \in {"release", "record"} /\ who[h] = n}
Arriving == {"find", "unknown", "release"} \cup Recording
Coming == {h \in Handler : pc[h] \in Arriving}

Within(rows, logins, max) ==
    Cardinality(rows) + Cardinality(logins) <= max - 1 + Cardinality(Handler)

UserBound == \A n \in Name : Within(NowOf(n), Trying(n), MaxUser)
AddressBound == Within(Now, Coming, MaxAddress)

-----------------------------------------------------------------------------
(* The rows.                                                               *)

\* Rows that grow older do not become more.
LEMMA AgedRows ==
  ASSUME NEW S, IsFiniteSet(S), NEW T, T \subseteq {[r EXCEPT !.age = @ + 1] : r \in S}
  PROVE  IsFiniteSet(T) /\ Cardinality(T) <= Cardinality(S)
<1> DEFINE older == [r \in S |-> [r EXCEPT !.age = @ + 1]]
           image == {[r EXCEPT !.age = @ + 1] : r \in S}
<1>1. older \in Surjection(S, image)
  BY DEF Surjection
<1>2. IsFiniteSet(image) /\ Cardinality(image) <= Cardinality(S)
  BY <1>1, FS_Surjection
<1>3. /\ IsFiniteSet(T) /\ Cardinality(T) <= Cardinality(image)
      /\ Cardinality(T) \in Nat /\ Cardinality(image) \in Nat /\ Cardinality(S) \in Nat
  BY <1>2, FS_Subset, FS_CardinalityType
<1> QED
  BY <1>2, <1>3

\* What a failed attempt adds.
LEMMA FailedRow ==
  ASSUME failures \subseteq Row, IsFiniteSet(failures), NEW n \in Name \cup {NoName}, Fail(n)
  PROVE  \E row \in Row : row.name = n /\ row.age = 0 /\ failures' = failures \cup {row}
<1> DEFINE k == Cardinality({r \in failures : r.name = n /\ r.age = 0})
           row == [name |-> n, age |-> 0, nth |-> k]
<1>1. k \in Nat
  BY FS_Subset, FS_CardinalityType
<1>2. failures' = failures \cup {row}
  BY DEF Fail
<1> HIDE DEF k
<1>3. row \in Row /\ row.name = n /\ row.age = 0
  BY <1>1, AccountsAssumption DEF Row
<1> QED
  BY <1>2, <1>3

LEMMA TypeFacts ==
  ASSUME TypeInv
  PROVE  /\ failures \subseteq Row /\ IsFiniteSet(failures)
         /\ fresh \in [Name -> 0..MaxUser]
         /\ locked \in [Name -> BOOLEAN]
         /\ left \in [Name -> 0..Lockout]
         /\ pc \in [Handler -> {"idle"} \cup LoginPc \cup SetupPc]
         /\ who \in [Handler -> Name \cup {NoName}]
         /\ straddles \subseteq Handler
         /\ late \subseteq Handler
         /\ \A h \in Handler : pc[h] # "idle" => who[h] \in Name
         /\ \A h \in straddles \cup late : pc[h] # "idle"
  BY DEF TypeInv, TypeOK

-----------------------------------------------------------------------------
(* Types.                                                                  *)

LEMMA NextTypes ==
  ASSUME TypeInv, [Next]_vars
  PROVE  TypeInv'
<1> USE AccountsAssumption DEF TypeInv, TypeOK
<1>1. ASSUME NEW h \in Handler, NEW n \in Name, Bootstrap(h, n) \/ Login(h, n)
      PROVE  TypeInv'
  <2>1. CASE Bootstrap(h, n)
    BY <2>1 DEF Bootstrap, Begin, roleTables, lockTables, LoginPc, SetupPc
  <2>2. CASE Login(h, n)
    BY <2>2 DEF Login, Pass, Begin, roleTables, lockTables, LoginPc, SetupPc
  <2> QED
    BY <1>1, <2>1, <2>2
<1>2. ASSUME NEW h \in Handler, NEW n \in Name, Unlock(h, n) PROVE TypeInv'
  BY <1>2 DEF Unlock, Pass, Begin, roleTables, LoginPc, SetupPc
<1>3. ASSUME NEW h \in Handler, CreateAdmin(h) PROVE TypeInv'
  BY <1>3 DEF CreateAdmin, End, Goto, lockTables, LoginPc, SetupPc
<1>4. ASSUME NEW h \in Handler, GrantAdmin(h) PROVE TypeInv'
  BY <1>4 DEF GrantAdmin, End, lockTables, LoginPc, SetupPc
<1>5. ASSUME NEW n \in Name, CreateUser(n) \/ AddRole(n) \/ RemoveRole(n) PROVE TypeInv'
  BY <1>5 DEF CreateUser, AddRole, RemoveRole, Pass, lockTables, SetupPc
<1>6. ASSUME NEW h \in Handler, FindUser(h) \/ CountBefore(h) \/ CountAfter(h) PROVE TypeInv'
  BY <1>6 DEF FindUser, CountBefore, CountAfter, Verify, End, Goto, roleTables, lockTables,
              LoginPc, SetupPc
<1>7. ASSUME NEW h \in Handler, NEW n \in Name \cup {NoName}, Fail(n),
             UNCHANGED <<accounts, admins, locked, left, complete>>,
             pc[h] # "idle", End(h) \/ Goto(h, "count")
      PROVE  TypeInv'
  <2>1. PICK row \in Row : failures' = failures \cup {row}
    BY <1>7, FailedRow
  <2>2. failures' \subseteq Row /\ IsFiniteSet(failures')
    BY <2>1, FS_AddElement
  <2>3. fresh' \in [Name -> 0..MaxUser]
    BY <1>7 DEF Fail
  <2> QED
    BY <1>7, <2>2, <2>3 DEF End, Goto, LoginPc, SetupPc
<1>8. ASSUME NEW h \in Handler, RecordUnknown(h) \/ RecordFailure(h) PROVE TypeInv'
  BY <1>7, <1>8 DEF RecordUnknown, RecordFailure, roleTables
<1>9. ASSUME NEW h \in Handler, Release(h) \/ Lock(h) PROVE TypeInv'
  <2>1. CASE Release(h)
    BY <2>1 DEF Release, Verify, Goto, roleTables, LoginPc, SetupPc
  <2>2. CASE Lock(h)
    BY <2>2 DEF Lock, End, roleTables, LoginPc, SetupPc
  <2> QED
    BY <1>9, <2>1, <2>2
<1>10. ASSUME NEW h \in Handler, Clear(h) PROVE TypeInv'
  <2>1. failures' \subseteq Row /\ IsFiniteSet(failures')
    BY <1>10, FS_Subset DEF Clear
  <2> QED
    BY <1>10, <2>1 DEF Clear, LoginsOf, roleTables, LoginPc, SetupPc
<1>11. ASSUME NEW h \in Handler, Fails(h) PROVE TypeInv'
  BY <1>11 DEF Fails, End, roleTables, lockTables
<1>12. CASE Tick
  <2>1. IsFiniteSet(failures')
    <3>1. IsFiniteSet({q \in failures : q.age < Span})
      BY FS_Subset
    <3> QED
      BY <1>12, <3>1, AgedRows DEF Tick
  <2>2. failures' \subseteq Row
    BY <1>12 DEF Tick, Row
  <2> QED
    BY <1>12, <2>1, <2>2 DEF Tick, roleTables
<1>13. CASE Restart
  BY <1>13 DEF Restart, roleTables, lockTables
<1>14. CASE UNCHANGED vars
  BY <1>14 DEF vars
<1> QED
  BY <1>1, <1>2, <1>3, <1>4, <1>5, <1>6, <1>8, <1>9, <1>10, <1>11, <1>12, <1>13, <1>14
  DEF Next, Arrive, Proceed

LEMMA InitTypes == Init => TypeInv
<1>1. IsFiniteSet({})
  BY FS_EmptySet
<1>2. 0 \in 0..MaxUser /\ 0 \in 0..Lockout
  BY AccountsAssumption
<1> QED
  BY <1>1, <1>2 DEF Init, TypeInv, TypeOK

\* Every table, flag and local variable keeps its type, administrators have a
\* row, and only handlers at work are straddling a tick or overtaken.
THEOREM TypeCorrect == Spec => []TypeOK
<1>1. TypeInv => TypeOK
  BY DEF TypeInv
<1> QED
  BY <1>1, InitTypes, NextTypes, PTL DEF Spec

\* A step of one handler leaves the others where they are.
LEMMA OthersWait ==
  ASSUME TypeInv, NEW h \in Handler, Arrive(h) \/ Proceed(h) \/ Fails(h)
  PROVE  \A g \in Handler \ {h} :
            /\ pc'[g] = pc[g]
            /\ who'[g] = who[g]
            /\ g \in straddles' <=> g \in straddles
            /\ g \in late => g \in late'
<1>0. /\ pc \in [Handler -> {"idle"} \cup LoginPc \cup SetupPc]
      /\ who \in [Handler -> Name \cup {NoName}]
  BY TypeFacts
<1>1. CASE Arrive(h)
  BY <1>0, <1>1 DEF Arrive, Bootstrap, Login, Unlock, Begin
<1>2. CASE CreateAdmin(h) \/ FindUser(h) \/ RecordUnknown(h) \/ CountAfter(h) \/ Lock(h) \/ Fails(h)
  BY <1>0, <1>2 DEF CreateAdmin, FindUser, RecordUnknown, CountAfter, Lock, Fails, End, Goto
<1>3. CASE Release(h) \/ CountBefore(h) \/ RecordFailure(h)
  BY <1>0, <1>3 DEF Release, CountBefore, RecordFailure, Verify, Goto
<1>4. CASE GrantAdmin(h) \/ Clear(h)
  BY <1>0, <1>4 DEF GrantAdmin, Clear, End
<1> QED
  BY <1>1, <1>2, <1>3, <1>4 DEF Proceed

-----------------------------------------------------------------------------
(* The bootstrap.                                                          *)

LEMMA NextSetup ==
  ASSUME TypeInv, SetupOK, GrantsAlone, [Next]_vars
  PROVE  SetupOK'
<1> USE DEF SetupOK
<1>0. /\ pc \in [Handler -> {"idle"} \cup LoginPc \cup SetupPc]
      /\ who \in [Handler -> Name \cup {NoName}]
  BY TypeFacts
<1>1. ASSUME NEW h \in Handler, Arrive(h) \/ Proceed(h) \/ Fails(h), UNCHANGED admins,
             pc'[h] \in SetupPc => admins = {}
      PROVE  SetupOK'
  BY <1>1, OthersWait
<1>2. ASSUME NEW h \in Handler, Arrive(h) PROVE SetupOK'
  <2>1. UNCHANGED admins
    BY <1>2 DEF Arrive, Bootstrap, Login, Unlock, roleTables
  <2>2. pc'[h] \in SetupPc => admins = {}
    BY <1>0, <1>2 DEF Arrive, Bootstrap, Login, Unlock, Begin, SetupPc
  <2> QED
    BY <1>1, <1>2, <2>1, <2>2
<1>3. ASSUME NEW h \in Handler, Proceed(h) \/ Fails(h), ~GrantAdmin(h) PROVE SetupOK'
  <2>1. CASE CreateAdmin(h)
    BY <1>1, <1>3, <2>1 DEF CreateAdmin, SetupPc
  <2>2. CASE ~CreateAdmin(h)
    <3>1. UNCHANGED admins
      BY <1>3, <2>2 DEF Proceed, FindUser, RecordUnknown, Release, CountBefore, RecordFailure,
                        CountAfter, Lock, Clear, Fails, roleTables
    <3>2. pc'[h] \notin SetupPc
      BY <1>0, <1>3, <2>2
      DEF Proceed, FindUser, RecordUnknown, Release, CountBefore, RecordFailure, CountAfter,
          Lock, Clear, Fails, Verify, End, Goto, SetupPc
    <3> QED
      BY <1>1, <1>3, <3>1, <3>2
  <2> QED
    BY <2>1, <2>2
\* The role is granted, and nobody is left who found no administrator.
<1>4. ASSUME NEW h \in Handler, GrantAdmin(h) PROVE SetupOK'
  <2>1. who[h] \in admins' /\ admins = {}
    BY <1>4 DEF GrantAdmin, SetupPc
  <2> QED
    BY <2>1 DEF GrantsAlone
<1>5. ASSUME NEW n \in Name, CreateUser(n) \/ RemoveRole(n) PROVE SetupOK'
  BY <1>5 DEF CreateUser, RemoveRole
<1>6. ASSUME NEW n \in Name, AddRole(n) PROVE SetupOK'
  BY <1>6 DEF AddRole, GrantsAlone
<1>7. CASE Tick
  BY <1>7 DEF Tick, roleTables
<1>8. CASE Restart
  BY <1>8 DEF Restart, SetupPc
<1>9. CASE UNCHANGED vars
  BY <1>9 DEF vars
<1> QED
  BY <1>2, <1>3, <1>4, <1>5, <1>6, <1>7, <1>8, <1>9, AccountsAssumption DEF Next

\* It takes an overlap for a bootstrap to make a second administrator: if no
\* role is granted while another bootstrap is under way, the set-up works only
\* when there is none, through failures, restarts and removals (Bootstrap 32-71).
THEOREM SecondNeedsOverlap == Spec /\ [][GrantsAlone]_vars => BootstrapCloses
<1>1. Init => SetupOK
  BY DEF Init, SetupOK, SetupPc
<1>2. TypeInv /\ SetupOK /\ [Next]_vars /\ [GrantsAlone]_vars => SetupOK'
  <2>1. CASE GrantsAlone
    BY <2>1, NextSetup
  <2>2. CASE UNCHANGED vars
    BY <2>2 DEF SetupOK, vars
  <2> QED
    BY <2>1, <2>2
<1>3. SetupOK =>
        [\A h \in Handler :
            pc[h] = "grant" /\ pc'[h] = "idle" /\ who[h] \in admins' \ admins
              => admins = {}]_vars
  BY DEF SetupOK, SetupPc
<1> QED
  BY <1>1, <1>2, <1>3, InitTypes, NextTypes, PTL DEF Spec, BootstrapCloses

-----------------------------------------------------------------------------
(* The cause of a lock.                                                    *)

LEMMA RowsAreFinite ==
  ASSUME failures \subseteq Row, IsFiniteSet(failures), NEW n
  PROVE  IsFiniteSet(RowsOf(n)) /\ Cardinality(RowsOf(n)) \in Nat
<1>1. RowsOf(n) \subseteq failures
  BY DEF RowsOf
<1> QED
  BY <1>1, FS_Subset, FS_CardinalityType

\* A failed attempt is one row more, and counted.
LEMMA FailCounts ==
  ASSUME TypeInv, RowsCounted, NEW n \in Name \cup {NoName}, Fail(n)
  PROVE  RowsCounted'
<1>0. /\ failures \subseteq Row /\ IsFiniteSet(failures)
      /\ fresh \in [Name -> 0..MaxUser]
  BY TypeFacts
<1>1. PICK row \in Row : row.name = n /\ failures' = failures \cup {row}
  BY <1>0, FailedRow
<1>2. /\ RowsOf(n)' = RowsOf(n) \cup {row}
      /\ \A m \in Name : m # n => RowsOf(m)' = RowsOf(m)
  BY <1>1 DEF RowsOf
<1>3. /\ Cardinality(RowsOf(n)') <= Cardinality(RowsOf(n)) + 1
      /\ Cardinality(RowsOf(n)') \in Nat /\ Cardinality(RowsOf(n)) \in Nat
  <2>1. IsFiniteSet(RowsOf(n)) /\ Cardinality(RowsOf(n)) \in Nat
    BY <1>0, RowsAreFinite
  <2> QED
    BY <1>2, <2>1, FS_AddElement
<1>4. /\ \A m \in Name : m # n => fresh'[m] = fresh[m]
      /\ n \in Name => fresh'[n] = IF fresh[n] < MaxUser THEN fresh[n] + 1 ELSE fresh[n]
  BY <1>0 DEF Fail
<1> SUFFICES ASSUME NEW m \in Name, fresh'[m] < MaxUser
             PROVE  Cardinality(RowsOf(m)') <= fresh'[m]
  BY DEF RowsCounted
<1>5. CASE m = n
  <2>1. fresh[n] \in Nat /\ MaxUser \in Nat
    BY <1>0, <1>5, AccountsAssumption
  <2>2. fresh[n] < MaxUser /\ fresh'[n] = fresh[n] + 1
    BY <1>4, <1>5, <2>1
  <2>3. Cardinality(RowsOf(n)) <= fresh[n]
    BY <1>5, <2>2 DEF RowsCounted
  <2> QED
    BY <1>3, <1>5, <2>1, <2>2, <2>3
<1>6. CASE m # n
  BY <1>2, <1>4, <1>6 DEF RowsCounted
<1> QED
  BY <1>5, <1>6

LEMMA NextCounted ==
  ASSUME TypeInv, RowsCounted, [Next]_vars
  PROVE  RowsCounted'
<1>0. /\ failures \subseteq Row /\ IsFiniteSet(failures)
      /\ fresh \in [Name -> 0..MaxUser]
      /\ \A h \in Handler : pc[h] # "idle" => who[h] \in Name
  BY TypeFacts
<1>1. ASSUME UNCHANGED <<failures, fresh>> PROVE RowsCounted'
  BY <1>1 DEF RowsCounted, RowsOf
<1>2. ASSUME NEW h \in Handler, Arrive(h) \/ CreateAdmin(h) \/ GrantAdmin(h) \/ FindUser(h)
                  \/ Release(h) \/ CountBefore(h) \/ CountAfter(h) \/ Lock(h) \/ Fails(h)
      PROVE  RowsCounted'
  BY <1>1, <1>2 DEF Arrive, Bootstrap, Login, Unlock, CreateAdmin, GrantAdmin, FindUser, Release,
                    CountBefore, CountAfter, Lock, Fails, lockTables
<1>3. ASSUME NEW h \in Handler, RecordUnknown(h) \/ RecordFailure(h) PROVE RowsCounted'
  BY <1>0, <1>3, FailCounts DEF RecordUnknown, RecordFailure
<1>4. ASSUME NEW h \in Handler, Clear(h) PROVE RowsCounted'
  <2>0. PICK n \in Name : n = who[h]
    BY <1>0, <1>4 DEF Clear
  <2>1. /\ RowsOf(n)' = {}
        /\ \A m \in Name : m # n => RowsOf(m)' = RowsOf(m)
        /\ fresh' = [fresh EXCEPT ![n] = 0]
    BY <1>4, <2>0 DEF Clear, RowsOf
  <2>2. Cardinality({}) = 0
    BY FS_EmptySet
  <2>3. fresh'[n] = 0 /\ \A m \in Name : m # n => fresh'[m] = fresh[m]
    BY <1>0, <2>1
  <2> QED
    BY <2>1, <2>2, <2>3 DEF RowsCounted
<1>5. ASSUME NEW n \in Name, CreateUser(n) \/ AddRole(n) \/ RemoveRole(n) PROVE RowsCounted'
  BY <1>1, <1>5 DEF CreateUser, AddRole, RemoveRole, lockTables
<1>6. CASE Tick
  <2>1. ASSUME NEW n \in Name PROVE Cardinality(RowsOf(n)') <= Cardinality(RowsOf(n))
    <3>1. RowsOf(n)' \subseteq {[r EXCEPT !.age = @ + 1] : r \in RowsOf(n)}
      BY <1>0, <1>6 DEF Tick, RowsOf, Row
    <3>2. IsFiniteSet(RowsOf(n))
      BY <1>0, RowsAreFinite
    <3> QED
      BY <3>1, <3>2, AgedRows
  <2>2. \A n \in Name : Cardinality(RowsOf(n)') \in Nat /\ Cardinality(RowsOf(n)) \in Nat
    <3>1. (failures \subseteq Row /\ IsFiniteSet(failures))'
      BY NextTypes, TypeFacts DEF TypeInv, TypeOK
    <3> QED
      BY <1>0, <3>1, RowsAreFinite, FS_Subset, FS_CardinalityType DEF RowsOf
  <2>3. UNCHANGED fresh
    BY <1>6 DEF Tick
  <2> QED
    BY <1>0, <2>1, <2>2, <2>3 DEF RowsCounted
<1>7. CASE Restart
  BY <1>1, <1>7 DEF Restart, lockTables
<1>8. CASE UNCHANGED vars
  BY <1>1, <1>8 DEF vars
<1> QED
  BY <1>2, <1>3, <1>4, <1>5, <1>6, <1>7, <1>8, AccountsAssumption DEF Next, Proceed

\* A handler that is told of too many failures counted them on a name that has
\* had them since it was last cleared.
LEMMA EnoughIsCounted ==
  ASSUME TypeInv, RowsCounted, NEW h \in Handler, who[h] \in Name,
         CountByUser(h, who[h]) >= MaxUser
  PROVE  fresh[who[h]] >= MaxUser
<1> DEFINE n == who[h]
           seen == {r \in failures : r.name = n /\ r.age \in Recent(h)}
<1>0. /\ failures \subseteq Row /\ IsFiniteSet(failures)
      /\ fresh[n] \in 0..MaxUser
  BY TypeFacts
<1>1. IsFiniteSet(RowsOf(n)) /\ Cardinality(RowsOf(n)) \in Nat
  BY <1>0, RowsAreFinite
<1>2. seen \subseteq RowsOf(n)
  BY DEF RowsOf
<1>3. Cardinality(seen) <= Cardinality(RowsOf(n)) /\ Cardinality(seen) \in Nat
  BY <1>1, <1>2, FS_Subset, FS_CardinalityType
<1>4. Cardinality(seen) >= MaxUser
  BY DEF CountByUser
<1>5. fresh[n] < MaxUser => Cardinality(RowsOf(n)) <= fresh[n]
  BY DEF RowsCounted
<1> HIDE DEF n, seen
<1>6. fresh[n] >= MaxUser
  BY <1>0, <1>1, <1>3, <1>4, <1>5, AccountsAssumption
<1> QED
  BY <1>6 DEF n

LEMMA NextCause ==
  ASSUME TypeInv, RowsCounted, LockHasCause, [Next]_vars
  PROVE  LockHasCause'
<1> USE DEF LockHasCause
<1>0. /\ fresh \in [Name -> 0..MaxUser]
      /\ pc \in [Handler -> {"idle"} \cup LoginPc \cup SetupPc]
      /\ who \in [Handler -> Name \cup {NoName}]
      /\ late \subseteq Handler
      /\ \A h \in Handler : pc[h] # "idle" => who[h] \in Name
  BY TypeFacts
<1>1. ASSUME NEW h \in Handler, Arrive(h) \/ Proceed(h) \/ Fails(h),
             \A n \in Name : fresh[n] >= MaxUser => fresh'[n] >= MaxUser,
             pc'[h] = "lock" => h \in late' \/ fresh'[who'[h]] >= MaxUser
      PROVE  LockHasCause'
  BY <1>0, <1>1, OthersWait
<1>2. ASSUME NEW h \in Handler, Arrive(h) \/ CreateAdmin(h) \/ GrantAdmin(h) \/ FindUser(h)
                  \/ Release(h) \/ Lock(h) \/ Fails(h)
      PROVE  LockHasCause'
  <2>1. UNCHANGED fresh
    BY <1>2 DEF Arrive, Bootstrap, Login, Unlock, CreateAdmin, GrantAdmin, FindUser, Release,
                Lock, Fails
  <2>2. pc'[h] # "lock"
    BY <1>0, <1>2 DEF Arrive, Bootstrap, Login, Unlock, CreateAdmin, GrantAdmin, FindUser, Release,
                      Lock, Fails, Begin, Verify, End, Goto
  <2> QED
    BY <1>1, <1>2, <2>1, <2>2 DEF Proceed
<1>3. ASSUME NEW h \in Handler, CountBefore(h) \/ CountAfter(h) PROVE LockHasCause'
  <2>1. who[h] \in Name /\ UNCHANGED fresh
    BY <1>0, <1>3 DEF CountBefore, CountAfter
  <2>2. CASE CountByUser(h, who[h]) >= MaxUser
    <3>1. fresh[who[h]] >= MaxUser
      BY <2>1, <2>2, EnoughIsCounted
    <3>2. UNCHANGED who
      BY <1>3, <2>2 DEF CountBefore, CountAfter, Goto
    <3> QED
      BY <1>1, <1>3, <2>1, <3>1, <3>2 DEF Proceed
  <2>3. CASE ~(CountByUser(h, who[h]) >= MaxUser)
    <3>1. pc'[h] # "lock"
      BY <1>0, <1>3, <2>3 DEF CountBefore, CountAfter, Verify, End, Goto
    <3> QED
      BY <1>1, <1>3, <2>1, <3>1 DEF Proceed
  <2> QED
    BY <2>2, <2>3
<1>4. ASSUME NEW h \in Handler, RecordUnknown(h) \/ RecordFailure(h) PROVE LockHasCause'
  <2>1. \A n \in Name : fresh[n] >= MaxUser => fresh'[n] >= MaxUser
    BY <1>0, <1>4, AccountsAssumption DEF RecordUnknown, RecordFailure, Fail
  <2>2. pc'[h] # "lock"
    BY <1>0, <1>4 DEF RecordUnknown, RecordFailure, End, Goto
  <2> QED
    BY <1>1, <1>4, <2>1, <2>2 DEF Proceed
<1>5. ASSUME NEW h \in Handler, Clear(h) PROVE LockHasCause'
  <2>1. /\ fresh' = [fresh EXCEPT ![who[h]] = 0]
        /\ late' = (late \cup LoginsOf(who[h])) \ {h}
        /\ pc'[h] = "idle"
        /\ \A g \in Handler \ {h} : pc'[g] = pc[g] /\ who'[g] = who[g]
    BY <1>0, <1>5 DEF Clear
  <2>2. \A g \in Handler \ {h} : pc[g] = "lock" /\ who[g] = who[h] => g \in late'
    BY <2>1 DEF LoginsOf, LoginPc
  <2>3. \A g \in Handler \ {h} : pc[g] = "lock" /\ who[g] # who[h] => fresh'[who[g]] = fresh[who[g]]
    BY <1>0, <2>1
  <2> QED
    BY <2>1, <2>2, <2>3
<1>6. ASSUME NEW n \in Name, CreateUser(n) \/ AddRole(n) \/ RemoveRole(n) PROVE LockHasCause'
  BY <1>6 DEF CreateUser, AddRole, RemoveRole
<1>7. CASE Tick
  BY <1>7 DEF Tick
<1>8. CASE Restart
  BY <1>8 DEF Restart
<1>9. CASE UNCHANGED vars
  BY <1>9 DEF vars
<1> QED
  BY <1>2, <1>3, <1>4, <1>5, <1>6, <1>7, <1>8, <1>9, AccountsAssumption DEF Next, Proceed

LEMMA InitCounted == Init => RowsCounted
<1>1. Cardinality({}) = 0
  BY FS_EmptySet
<1>2. Init => \A n \in Name : RowsOf(n) = {} /\ fresh[n] = 0
  BY DEF Init, RowsOf
<1> QED
  BY <1>1, <1>2 DEF RowsCounted

\* However logins, clears and unlocks overlap, an account is only locked for
\* MaxUser failures since it was last cleared, or by a login the clearing
\* overtook (Login 71-103, UnlockAccount 132-137).
THEOREM LocksHaveCauses == Spec => []LockHasCause
<1>1. Init => LockHasCause
  BY DEF Init, LockHasCause
<1>2. TypeInv /\ RowsCounted /\ LockHasCause /\ [Next]_vars => RowsCounted' /\ LockHasCause'
  BY NextCounted, NextCause
<1> QED
  BY <1>1, <1>2, InitTypes, InitCounted, NextTypes, PTL DEF Spec

-----------------------------------------------------------------------------
(* The window and the lock.                                                *)

LEMMA NextLocked ==
  ASSUME TypeInv, LockedOK, [Next]_vars
  PROVE  LockedOK'
<1> USE AccountsAssumption
<1>0. /\ failures \subseteq Row /\ IsFiniteSet(failures)
      /\ locked \in [Name -> BOOLEAN]
      /\ left \in [Name -> 0..Lockout]
      /\ pc \in [Handler -> {"idle"} \cup LoginPc \cup SetupPc]
      /\ who \in [Handler -> Name \cup {NoName}]
      /\ \A h \in Handler : pc[h] # "idle" => who[h] \in Name
  BY TypeFacts
\* A step that writes no lock, and adds no row under one.
<1>1. ASSUME NEW h \in Handler, Arrive(h) \/ Proceed(h) \/ Fails(h), UNCHANGED <<locked, left>>,
             \A r \in failures' \ failures :
                r.name \in Name /\ locked[r.name] => r.age + left[r.name] + 1 >= Lockout,
             pc'[h] \in Recording =>
                \/ ~locked[who'[h]]
                \/ pc[h] \in Recording /\ who'[h] = who[h] /\ (h \in straddles' <=> h \in straddles),
             pc'[h] = "release" => left[who'[h]] = 0
      PROVE  LockedOK'
  <2> SUFFICES ASSUME NEW n \in Name, locked[n]
               PROVE  /\ left[n] < Lockout =>
                           \A g \in Handler : who'[g] = n /\ g \notin straddles' =>
                              pc'[g] \notin Recording /\ (pc'[g] = "release" => left[n] = 0)
                      /\ left[n] + 1 < Lockout =>
                           \A g \in Handler : who'[g] = n =>
                              pc'[g] \notin Recording /\ (pc'[g] = "release" => left[n] = 0)
                      /\ \A r \in RowsOf(n)' : r.age + left[n] + 1 >= Lockout
    BY <1>1 DEF LockedOK
  <2>1. \A g \in Handler : g # h =>
          pc'[g] = pc[g] /\ who'[g] = who[g] /\ (g \in straddles' <=> g \in straddles)
    BY <1>1, OthersWait
  <2>2. \A r \in RowsOf(n)' : r.age + left[n] + 1 >= Lockout
    BY <1>1 DEF LockedOK, RowsOf
  <2>3. left[n] < Lockout =>
          \A g \in Handler : who'[g] = n /\ g \notin straddles' =>
             pc'[g] \notin Recording /\ (pc'[g] = "release" => left[n] = 0)
    BY <1>1, <2>1 DEF LockedOK
  <2>4. left[n] + 1 < Lockout =>
          \A g \in Handler : who'[g] = n =>
             pc'[g] \notin Recording /\ (pc'[g] = "release" => left[n] = 0)
    BY <1>1, <2>1 DEF LockedOK
  <2> QED
    BY <2>2, <2>3, <2>4
<1>2. ASSUME NEW h \in Handler, NEW n \in Name, Bootstrap(h, n) \/ Login(h, n) PROVE LockedOK'
  <2>1. UNCHANGED lockTables /\ pc'[h] \notin Recording \cup {"release"}
    BY <1>0, <1>2 DEF Bootstrap, Login, Begin, Recording
  <2>2. \A g \in Handler : g # h => pc'[g] = pc[g] /\ who'[g] = who[g]
    BY <1>0, <1>2 DEF Bootstrap, Login, Begin
  <2>3. UNCHANGED straddles
    BY <1>2 DEF Bootstrap, Login, Begin
  <2> QED
    BY <2>1, <2>2, <2>3 DEF LockedOK, RowsOf, lockTables
<1>3. ASSUME NEW h \in Handler, NEW n \in Name, Unlock(h, n) PROVE LockedOK'
  <2>1. /\ locked' = [locked EXCEPT ![n] = FALSE]
        /\ left' = [left EXCEPT ![n] = 0]
        /\ UNCHANGED <<failures, straddles>>
        /\ pc'[h] = "clear"
        /\ \A g \in Handler : g # h => pc'[g] = pc[g] /\ who'[g] = who[g]
    BY <1>0, <1>3 DEF Unlock, Begin
  <2>2. \A m \in Name : locked'[m] => m # n /\ locked[m] /\ left'[m] = left[m]
    BY <1>0, <2>1
  <2>3. pc'[h] \notin Recording \cup {"release"}
    BY <2>1 DEF Recording
  <2> QED
    BY <2>1, <2>2, <2>3 DEF LockedOK, RowsOf
<1>4. ASSUME NEW h \in Handler, CreateAdmin(h) \/ GrantAdmin(h) \/ CountAfter(h) \/ Fails(h)
      PROVE  LockedOK'
  <2>1. UNCHANGED lockTables
    BY <1>4 DEF CreateAdmin, GrantAdmin, CountAfter, Fails
  <2>2. pc'[h] \notin Recording \cup {"release"}
    BY <1>0, <1>4 DEF CreateAdmin, GrantAdmin, CountAfter, Fails, Goto, End, Recording
  <2> QED
    BY <1>1, <1>4, <2>1, <2>2 DEF Proceed, lockTables
<1>5. ASSUME NEW h \in Handler, FindUser(h) PROVE LockedOK'
  <2>1. UNCHANGED lockTables
    BY <1>5 DEF FindUser
  <2>2. pc[h] = "find" /\ who[h] \in Name /\ left[who[h]] \in Nat
    BY <1>0, <1>5 DEF FindUser
  <2>3. pc'[h] \in Recording => ~locked[who[h]] /\ who'[h] = who[h]
    BY <1>0, <1>5 DEF FindUser, Goto, End, Recording
  <2>4. pc'[h] = "release" => left[who[h]] = 0 /\ who'[h] = who[h]
    BY <1>0, <1>5, <2>2 DEF FindUser, Goto, End, InForce
  <2> QED
    BY <1>1, <1>5, <2>1, <2>3, <2>4 DEF Proceed, lockTables
<1>6. ASSUME NEW h \in Handler, CountBefore(h) PROVE LockedOK'
  <2>1. UNCHANGED lockTables
    BY <1>6 DEF CountBefore
  <2>2. /\ pc[h] \in Recording
        /\ pc'[h] # "release"
        /\ UNCHANGED <<who, straddles>>
    BY <1>0, <1>6 DEF CountBefore, Verify, Goto, Recording
  <2> QED
    BY <1>1, <1>6, <2>1, <2>2 DEF Proceed, lockTables
<1>7. ASSUME NEW h \in Handler, RecordUnknown(h) PROVE LockedOK'
  <2>1. PICK row \in Row : row.name = NoName /\ failures' = failures \cup {row}
    BY <1>0, <1>7, FailedRow DEF RecordUnknown
  <2>2. UNCHANGED <<locked, left>> /\ pc'[h] = "idle"
    BY <1>0, <1>7 DEF RecordUnknown, End
  <2>3. pc'[h] \notin Recording \cup {"release"}
    BY <2>2 DEF Recording
  <2> QED
    BY <1>1, <1>7, <2>1, <2>2, <2>3 DEF Proceed
<1>8. ASSUME NEW h \in Handler, RecordFailure(h) PROVE LockedOK'
  <2>1. PICK row \in Row : row.name = who[h] /\ row.age = 0 /\ failures' = failures \cup {row}
    BY <1>0, <1>8, FailedRow DEF RecordFailure
  <2>2. UNCHANGED <<locked, left>> /\ pc[h] = "record" /\ pc'[h] = "count" /\ who[h] \in Name
    BY <1>0, <1>8 DEF RecordFailure, Goto
  <2>3. pc'[h] \notin Recording \cup {"release"} /\ pc[h] \in Recording
    BY <2>2 DEF Recording
  <2>4. locked[who[h]] => left[who[h]] + 1 >= Lockout
    BY <1>0, <2>2, <2>3 DEF LockedOK
  <2>5. \A r \in failures' \ failures :
           r.name \in Name /\ locked[r.name] => r.age + left[r.name] + 1 >= Lockout
    BY <1>0, <2>1, <2>2, <2>4
  <2> QED
    BY <1>1, <1>8, <2>2, <2>3, <2>5 DEF Proceed
<1>9. ASSUME NEW h \in Handler, Release(h) PROVE LockedOK'
  <2>0. PICK n \in Name : n = who[h]
    BY <1>0, <1>9 DEF Release
  <2>1. /\ locked' = [locked EXCEPT ![n] = FALSE]
        /\ left' = [left EXCEPT ![n] = 0]
        /\ UNCHANGED <<failures, straddles, who>>
        /\ \A g \in Handler : g # h => pc'[g] = pc[g]
    BY <1>0, <1>9, <2>0 DEF Release, Verify, Goto
  <2>2. \A m \in Name : locked'[m] => m # n /\ locked[m] /\ left'[m] = left[m]
    BY <1>0, <2>1
  <2>3. \A m \in Name : m # n => \A g \in Handler : who[g] = m => pc'[g] = pc[g]
    BY <2>0, <2>1
  <2> QED
    BY <2>1, <2>2, <2>3 DEF LockedOK, RowsOf
<1>10. ASSUME NEW h \in Handler, Lock(h) PROVE LockedOK'
  <2>0. PICK n \in Name : n = who[h]
    BY <1>0, <1>10 DEF Lock
  <2>1. /\ left' = [left EXCEPT ![n] = Lockout]
        /\ locked' = [locked EXCEPT ![n] = TRUE]
        /\ UNCHANGED failures
        /\ pc'[h] = "idle"
        /\ straddles' = straddles \ {h}
        /\ \A g \in Handler : g # h => pc'[g] = pc[g] /\ who'[g] = who[g]
    BY <1>0, <1>10, <2>0 DEF Lock, End
  <2>2. left'[n] = Lockout
    BY <1>0, <2>1
  <2>3. \A m \in Name : m # n => locked'[m] = locked[m] /\ left'[m] = left[m]
    BY <1>0, <2>1
  <2>4. pc'[h] \notin Recording \cup {"release"}
    BY <2>1 DEF Recording
  <2>5. \A r \in RowsOf(n) : r.age \in Nat
    BY <1>0 DEF RowsOf, Row
  <2> SUFFICES ASSUME NEW m \in Name, locked'[m]
               PROVE  /\ left'[m] < Lockout =>
                           \A g \in Handler : who'[g] = m /\ g \notin straddles' =>
                              pc'[g] \notin Recording /\ (pc'[g] = "release" => left'[m] = 0)
                      /\ left'[m] + 1 < Lockout =>
                           \A g \in Handler : who'[g] = m =>
                              pc'[g] \notin Recording /\ (pc'[g] = "release" => left'[m] = 0)
                      /\ \A r \in RowsOf(m)' : r.age + left'[m] + 1 >= Lockout
    BY DEF LockedOK
  <2>6. CASE m = n
    <3>1. \A r \in RowsOf(n)' : r.age + Lockout + 1 >= Lockout
      BY <2>1, <2>5 DEF RowsOf
    <3> QED
      BY <2>2, <2>6, <3>1
  <2>7. CASE m # n
    BY <2>1, <2>3, <2>4, <2>7 DEF LockedOK, RowsOf
  <2> QED
    BY <2>6, <2>7
<1>11. ASSUME NEW h \in Handler, Clear(h) PROVE LockedOK'
  <2>1. failures' \subseteq failures /\ UNCHANGED <<locked, left>> /\ pc'[h] = "idle"
    BY <1>0, <1>11 DEF Clear
  <2>2. pc'[h] \notin Recording \cup {"release"}
    BY <2>1 DEF Recording
  <2> QED
    BY <1>1, <1>11, <2>1, <2>2 DEF Proceed
<1>12. ASSUME NEW n \in Name, CreateUser(n) \/ AddRole(n) \/ RemoveRole(n) PROVE LockedOK'
  BY <1>12 DEF CreateUser, AddRole, RemoveRole, LockedOK, RowsOf, lockTables
<1>13. CASE Tick
  <2>1. /\ straddles = {}
        /\ straddles' = {h \in Handler : pc[h] # "idle"}
        /\ UNCHANGED <<locked, pc, who>>
        /\ \A n \in Name : left'[n] = IF left[n] > 0 THEN left[n] - 1 ELSE 0
    BY <1>13 DEF Tick
  <2> SUFFICES ASSUME NEW n \in Name, locked[n]
               PROVE  /\ \A g \in Handler : who[g] = n /\ g \notin straddles' =>
                            pc[g] \notin Recording /\ (pc[g] = "release" => left'[n] = 0)
                      /\ left'[n] + 1 < Lockout =>
                           \A g \in Handler : who[g] = n =>
                              pc[g] \notin Recording /\ (pc[g] = "release" => left'[n] = 0)
                      /\ \A r \in RowsOf(n)' : r.age + left'[n] + 1 >= Lockout
    BY <2>1 DEF LockedOK
  <2>2. left[n] \in 0..Lockout /\ left'[n] \in Nat
    BY <1>0, <2>1
  <2>3. \A g \in Handler : g \notin straddles' => pc[g] \notin Recording \cup {"release"}
    BY <2>1 DEF Recording
  <2>4. left'[n] + 1 < Lockout =>
          \A g \in Handler : who[g] = n =>
             pc[g] \notin Recording /\ (pc[g] = "release" => left'[n] = 0)
    <3> SUFFICES ASSUME left'[n] + 1 < Lockout
                 PROVE  \A g \in Handler : who[g] = n =>
                           pc[g] \notin Recording /\ (pc[g] = "release" => left'[n] = 0)
      OBVIOUS
    <3>1. left[n] < Lockout
      BY <2>1, <2>2
    <3>2. left[n] = 0 => left'[n] = 0
      BY <2>1
    <3> QED
      BY <2>1, <3>1, <3>2 DEF LockedOK
  <2>5. ASSUME NEW r \in RowsOf(n)' PROVE r.age + left'[n] + 1 >= Lockout
    <3>1. PICK q \in failures : r = [q EXCEPT !.age = @ + 1]
      BY <1>13 DEF Tick, RowsOf
    <3>2. q \in RowsOf(n) /\ r.age = q.age + 1 /\ q.age \in Nat
      BY <1>0, <3>1 DEF RowsOf, Row
    <3>3. q.age + left[n] + 1 >= Lockout
      BY <3>2 DEF LockedOK
    <3> QED
      BY <2>1, <2>2, <3>2, <3>3
  <2> QED
    BY <2>3, <2>4, <2>5
<1>14. CASE Restart
  <2>1. UNCHANGED lockTables /\ \A h \in Handler : pc'[h] = "idle"
    BY <1>14 DEF Restart
  <2>2. \A h \in Handler : pc'[h] \notin Recording \cup {"release"}
    BY <2>1 DEF Recording
  <2> QED
    BY <2>1, <2>2 DEF LockedOK, RowsOf, lockTables
<1>15. CASE UNCHANGED vars
  BY <1>15 DEF vars, LockedOK, RowsOf
<1> QED
  BY <1>2, <1>3, <1>4, <1>5, <1>6, <1>7, <1>8, <1>9, <1>10, <1>11, <1>12, <1>13, <1>14, <1>15
  DEF Next, Arrive, Proceed

-----------------------------------------------------------------------------
(* Sums of cardinalities.                                                  *)

LEMMA SubsetCard ==
  ASSUME NEW S, IsFiniteSet(S), NEW T, T \subseteq S
  PROVE  /\ IsFiniteSet(T)
         /\ Cardinality(T) \in Nat /\ Cardinality(S) \in Nat
         /\ Cardinality(T) <= Cardinality(S)
  BY FS_Subset, FS_CardinalityType

\* Fewer rows, and no login more.
LEMMA FewerWithin ==
  ASSUME NEW A, IsFiniteSet(A), NEW B \in SUBSET Handler, NEW max \in Nat, Within(A, B, max),
         NEW C, IsFiniteSet(C), Cardinality(C) <= Cardinality(A), NEW D, D \subseteq B
  PROVE  Within(C, D, max)
<1>1. Cardinality(A) \in Nat /\ Cardinality(C) \in Nat
  BY FS_CardinalityType
<1>2. /\ IsFiniteSet(B)
      /\ Cardinality(B) \in Nat /\ Cardinality(Handler) \in Nat
  BY SubsetCard, AccountsAssumption
<1>3. Cardinality(D) \in Nat /\ Cardinality(D) <= Cardinality(B)
  BY <1>2, SubsetCard
<1> QED
  BY <1>1, <1>2, <1>3 DEF Within

\* A login becomes a row.
LEMMA MovedWithin ==
  ASSUME NEW A, IsFiniteSet(A), NEW B \in SUBSET Handler, NEW max \in Nat, Within(A, B, max),
         NEW row, NEW h \in B
  PROVE  Within(A \cup {row}, B \ {h}, max)
<1>1. /\ Cardinality(A) \in Nat /\ Cardinality(A \cup {row}) \in Nat
      /\ Cardinality(A \cup {row}) <= Cardinality(A) + 1
  BY FS_AddElement, FS_CardinalityType
<1>2. /\ IsFiniteSet(B)
      /\ Cardinality(B) \in Nat /\ Cardinality(Handler) \in Nat
  BY SubsetCard, AccountsAssumption
<1>3. Cardinality(B \ {h}) = Cardinality(B) - 1
  BY <1>2, FS_RemoveElement
<1> QED
  BY <1>1, <1>2, <1>3 DEF Within

\* Whoever passes while there are few rows.
LEMMA FewWithin ==
  ASSUME NEW A, IsFiniteSet(A), NEW max \in Nat, Cardinality(A) < max,
         NEW B \in SUBSET Handler
  PROVE  Within(A, B, max)
<1>1. Cardinality(A) \in Nat
  BY FS_CardinalityType
<1>2. Cardinality(B) \in Nat /\ Cardinality(Handler) \in Nat /\ Cardinality(B) <= Cardinality(Handler)
  BY SubsetCard, AccountsAssumption
<1> QED
  BY <1>1, <1>2 DEF Within

LEMMA WindowsAreFinite ==
  ASSUME IsFiniteSet(failures)
  PROVE  IsFiniteSet(Now) /\ \A n : IsFiniteSet(NowOf(n))
<1>1. IsFiniteSet(Now)
  BY FS_Subset DEF Now
<1>2. \A n : NowOf(n) \subseteq Now
  BY DEF NowOf
<1> QED
  BY <1>1, <1>2, FS_Subset

\* What a login counts includes what the window holds.
LEMMA CountedRecent ==
  ASSUME failures \subseteq Row, IsFiniteSet(failures), NEW h \in Handler
  PROVE  /\ \A n \in Name : Cardinality(NowOf(n)) <= CountByUser(h, n)
         /\ Cardinality(Now) <= CountByAddress(h)
         /\ \A n \in Name : CountByUser(h, n) \in Nat
         /\ CountByAddress(h) \in Nat
<1>1. \A r \in Now : r.age \in Recent(h) /\ r \in failures
  BY AccountsAssumption DEF Now, Recent, Row
<1>2. ASSUME NEW n \in Name
      PROVE  Cardinality(NowOf(n)) <= CountByUser(h, n) /\ CountByUser(h, n) \in Nat
  <2> DEFINE seen == {r \in failures : r.name = n /\ r.age \in Recent(h)}
  <2>1. NowOf(n) \subseteq seen
    BY <1>1 DEF NowOf
  <2>2. IsFiniteSet(seen)
    BY FS_Subset
  <2> HIDE DEF seen
  <2>3. Cardinality(NowOf(n)) <= Cardinality(seen) /\ Cardinality(seen) \in Nat
    BY <2>1, <2>2, SubsetCard
  <2> QED
    BY <2>3 DEF CountByUser, seen
<1>3. Cardinality(Now) <= CountByAddress(h) /\ CountByAddress(h) \in Nat
  <2> DEFINE seen == {r \in failures : r.age \in Recent(h)}
  <2>1. Now \subseteq seen
    BY <1>1
  <2>2. IsFiniteSet(seen)
    BY FS_Subset
  <2> HIDE DEF seen
  <2>3. Cardinality(Now) <= Cardinality(seen) /\ Cardinality(seen) \in Nat
    BY <2>1, <2>2, SubsetCard
  <2> QED
    BY <2>3 DEF CountByAddress, seen
<1> QED
  BY <1>2, <1>3

\* When time passes no window holds more.
LEMMA TickWindows ==
  ASSUME failures \subseteq Row, IsFiniteSet(failures), Tick
  PROVE  /\ IsFiniteSet(Now') /\ Cardinality(Now') <= Cardinality(Now)
         /\ \A n \in Name :
              IsFiniteSet(NowOf(n)') /\ Cardinality(NowOf(n)') <= Cardinality(NowOf(n))
<1>1. Now' \subseteq {[r EXCEPT !.age = @ + 1] : r \in Now}
  BY AccountsAssumption DEF Tick, Now, Row
<1>2. \A n \in Name : NowOf(n)' \subseteq {[r EXCEPT !.age = @ + 1] : r \in NowOf(n)}
  BY AccountsAssumption DEF Tick, Now, NowOf, Row
<1>3. IsFiniteSet(Now) /\ \A n : IsFiniteSet(NowOf(n))
  BY WindowsAreFinite
<1> QED
  BY <1>1, <1>2, <1>3, AgedRows

-----------------------------------------------------------------------------
(* The wrong passwords tried within one window.                            *)

LEMMA NextUserBound ==
  ASSUME TypeInv, LockedOK, UserBound, [Next]_vars
  PROVE  UserBound'
<1>0. /\ failures \subseteq Row /\ IsFiniteSet(failures)
      /\ left \in [Name -> 0..Lockout]
      /\ pc \in [Handler -> {"idle"} \cup LoginPc \cup SetupPc]
      /\ who \in [Handler -> Name \cup {NoName}]
      /\ \A h \in Handler : pc[h] # "idle" => who[h] \in Name
      /\ MaxUser \in Nat /\ NoName \notin Name
  BY TypeFacts, AccountsAssumption
<1>00. \A n \in Name : IsFiniteSet(NowOf(n)) /\ Within(NowOf(n), Trying(n), MaxUser)
  BY <1>0, WindowsAreFinite DEF UserBound
\* Nothing is added, and nobody new may record a failure.
<1>1. ASSUME NEW n \in Name, NowOf(n)' \subseteq NowOf(n), Trying(n)' \subseteq Trying(n)
      PROVE  Within(NowOf(n), Trying(n), MaxUser)'
  <2>1. Trying(n) \in SUBSET Handler
    BY DEF Trying
  <2>2. IsFiniteSet(NowOf(n)') /\ Cardinality(NowOf(n)') <= Cardinality(NowOf(n))
    BY <1>00, <1>1, SubsetCard
  <2>3. Within(NowOf(n)', Trying(n)', MaxUser)
    BY <1>0, <1>00, <1>1, <2>1, <2>2, FewerWithin
  <2> QED
    BY <2>3 DEF Within
\* There are few rows.
<1>2. ASSUME NEW n \in Name, NowOf(n)' = NowOf(n), Cardinality(NowOf(n)) < MaxUser
      PROVE  Within(NowOf(n), Trying(n), MaxUser)'
  <2>1. Trying(n)' \in SUBSET Handler
    BY DEF Trying
  <2>2. Within(NowOf(n), Trying(n)', MaxUser)
    BY <1>0, <1>00, <1>2, <2>1, FewWithin
  <2> QED
    BY <1>2, <2>2 DEF Within
<1>3. ASSUME NEW h \in Handler, Arrive(h) \/ Proceed(h) \/ Fails(h), failures' \subseteq failures,
             pc'[h] \in {"release", "record"} =>
                pc[h] \in {"release", "record"} /\ who'[h] = who[h]
      PROVE  UserBound'
  <2>1. \A n \in Name : NowOf(n)' \subseteq NowOf(n)
    BY <1>3 DEF NowOf, Now
  <2>2. \A n \in Name : Trying(n)' \subseteq Trying(n)
    BY <1>3, OthersWait DEF Trying
  <2> QED
    BY <1>1, <2>1, <2>2 DEF UserBound
<1>4. ASSUME NEW h \in Handler, Arrive(h) PROVE UserBound'
  <2>1. UNCHANGED failures /\ pc'[h] \notin {"release", "record"}
    BY <1>0, <1>4 DEF Arrive, Bootstrap, Login, Unlock, Begin, lockTables
  <2> QED
    BY <1>3, <1>4, <2>1
<1>5. ASSUME NEW h \in Handler,
             CreateAdmin(h) \/ GrantAdmin(h) \/ CountAfter(h) \/ Lock(h) \/ Clear(h) \/ Fails(h)
      PROVE  UserBound'
  <2>1. failures' \subseteq failures
    BY <1>5 DEF CreateAdmin, GrantAdmin, CountAfter, Lock, Clear, Fails, lockTables
  <2>2. pc'[h] \notin {"release", "record"}
    BY <1>0, <1>5 DEF CreateAdmin, GrantAdmin, CountAfter, Lock, Clear, Fails, Goto, End
  <2> QED
    BY <1>3, <1>5, <2>1, <2>2 DEF Proceed
<1>6. ASSUME NEW h \in Handler, Release(h) PROVE UserBound'
  <2>1. UNCHANGED failures /\ pc[h] = "release" /\ UNCHANGED who
    BY <1>6 DEF Release, Verify, Goto
  <2> QED
    BY <1>3, <1>6, <2>1 DEF Proceed
<1>7. ASSUME NEW h \in Handler, RecordUnknown(h) PROVE UserBound'
  <2>1. PICK row \in Row : row.name = NoName /\ failures' = failures \cup {row}
    BY <1>0, <1>7, FailedRow DEF RecordUnknown
  <2>2. \A n \in Name : NowOf(n)' \subseteq NowOf(n)
    BY <1>0, <2>1 DEF NowOf, Now
  <2>3. pc'[h] = "idle"
    BY <1>0, <1>7 DEF RecordUnknown, End
  <2>4. \A n \in Name : Trying(n)' \subseteq Trying(n)
    BY <1>7, <2>3, OthersWait DEF Trying, Proceed
  <2> QED
    BY <1>1, <2>2, <2>4 DEF UserBound
\* An expired lock is released: no row of that name is left in the window.
<1>8. ASSUME NEW h \in Handler, FindUser(h) PROVE UserBound'
  <2>0. PICK n \in Name : n = who[h]
    BY <1>0, <1>8 DEF FindUser
  <2>1. UNCHANGED failures
    BY <1>8 DEF FindUser, lockTables
  <2>2. CASE pc'[h] # "release"
    <3>1. pc'[h] \notin {"release", "record"}
      BY <1>0, <1>8, <2>2 DEF FindUser, Goto, End
    <3> QED
      BY <1>3, <1>8, <2>1, <3>1 DEF Proceed
  <2>3. CASE pc'[h] = "release"
    <3>1. locked[n] /\ left[n] = 0 /\ UNCHANGED who
      <4>1. locked[n] /\ ~InForce(n) /\ UNCHANGED who
        BY <1>0, <1>8, <2>0, <2>3 DEF FindUser, Goto, End
      <4> QED
        BY <1>0, <4>1 DEF InForce
    <3>2. NowOf(n) = {}
      <4>1. \A r \in RowsOf(n) : r.age + 0 + 1 >= Lockout
        BY <3>1 DEF LockedOK
      <4>2. \A r \in RowsOf(n) : r.age >= Span
        BY <1>0, <4>1, AccountsAssumption DEF RowsOf, Row
      <4> QED
        BY <1>0, <4>2, AccountsAssumption DEF NowOf, Now, RowsOf, Row
    <3>3. Cardinality(NowOf(n)) < MaxUser
      BY <3>2, FS_EmptySet, AccountsAssumption
    <3>4. \A m \in Name : NowOf(m)' = NowOf(m)
      BY <2>1 DEF NowOf, Now
    <3>5. \A m \in Name : m # n => Trying(m)' \subseteq Trying(m)
      BY <1>8, <2>0, <3>1, OthersWait DEF Trying, Proceed
    <3> QED
      BY <1>1, <1>2, <3>3, <3>4, <3>5 DEF UserBound
  <2> QED
    BY <2>2, <2>3
\* Whoever passes the count saw less than MaxUser rows.
<1>9. ASSUME NEW h \in Handler, CountBefore(h) PROVE UserBound'
  <2>0. PICK n \in Name : n = who[h]
    BY <1>0, <1>9 DEF CountBefore
  <2>1. UNCHANGED failures /\ UNCHANGED who
    BY <1>9 DEF CountBefore, Verify, Goto, lockTables
  <2>2. CASE pc'[h] \notin {"release", "record"}
    BY <1>3, <1>9, <2>1, <2>2 DEF Proceed
  <2>3. CASE pc'[h] \in {"release", "record"}
    <3>1. ~(CountByUser(h, n) >= MaxUser)
      BY <1>0, <1>9, <2>0, <2>3 DEF CountBefore, Goto
    <3>2. /\ Cardinality(NowOf(n)) <= CountByUser(h, n)
          /\ CountByUser(h, n) \in Nat /\ Cardinality(NowOf(n)) \in Nat
      BY <1>0, <1>00, CountedRecent, FS_CardinalityType
    <3>3. Cardinality(NowOf(n)) < MaxUser
      BY <1>0, <3>1, <3>2
    <3>4. \A m \in Name : NowOf(m)' = NowOf(m)
      BY <2>1 DEF NowOf, Now
    <3>5. \A m \in Name : m # n => Trying(m)' \subseteq Trying(m)
      BY <1>9, <2>0, <2>1, OthersWait DEF Trying, Proceed
    <3> QED
      BY <1>1, <1>2, <3>3, <3>4, <3>5 DEF UserBound
  <2> QED
    BY <2>2, <2>3
<1>10. ASSUME NEW h \in Handler, RecordFailure(h) PROVE UserBound'
  <2>0. PICK n \in Name : n = who[h]
    BY <1>0, <1>10 DEF RecordFailure
  <2>1. PICK row \in Row : row.name = n /\ row.age = 0 /\ failures' = failures \cup {row}
    BY <1>0, <1>10, <2>0, FailedRow DEF RecordFailure
  <2>2. pc[h] = "record" /\ pc'[h] = "count"
    BY <1>0, <1>10 DEF RecordFailure, Goto
  <2>3. /\ NowOf(n)' = NowOf(n) \cup {row}
        /\ \A m \in Name : m # n => NowOf(m)' = NowOf(m)
    BY <2>1, AccountsAssumption DEF NowOf, Now
  <2>4. \A m \in Name : Trying(m)' \subseteq Trying(m) \ {h}
    BY <1>10, <2>2, OthersWait DEF Trying, Proceed
  <2>5. h \in Trying(n) /\ Trying(n) \in SUBSET Handler
    BY <2>0, <2>2 DEF Trying
  <2>6. Within(NowOf(n) \cup {row}, Trying(n) \ {h}, MaxUser)
    BY <1>0, <1>00, <2>5, MovedWithin
  <2>7. Within(NowOf(n)', Trying(n)', MaxUser)
    <3>1. IsFiniteSet(NowOf(n) \cup {row})
      BY <1>00, FS_AddElement
    <3>2. Cardinality(NowOf(n) \cup {row}) <= Cardinality(NowOf(n) \cup {row})
      BY <3>1, FS_CardinalityType
    <3>3. Trying(n) \ {h} \in SUBSET Handler
      BY <2>5
    <3>4. Within(NowOf(n) \cup {row}, Trying(n)', MaxUser)
      BY <1>0, <2>4, <2>6, <3>1, <3>2, <3>3, FewerWithin
    <3> QED
      BY <2>3, <3>4
  <2>8. Within(NowOf(n), Trying(n), MaxUser)'
    BY <2>7 DEF Within
  <2>9. \A m \in Name : m # n => NowOf(m)' \subseteq NowOf(m) /\ Trying(m)' \subseteq Trying(m)
    BY <2>3, <2>4
  <2> QED
    BY <1>1, <2>8, <2>9 DEF UserBound
<1>11. ASSUME UNCHANGED <<failures, pc, who>> PROVE UserBound'
  BY <1>11 DEF UserBound, NowOf, Now, Trying, Within
<1>12. ASSUME NEW n \in Name, CreateUser(n) \/ AddRole(n) \/ RemoveRole(n) PROVE UserBound'
  BY <1>11, <1>12 DEF CreateUser, AddRole, RemoveRole, lockTables
<1>13. CASE Tick
  <2> SUFFICES ASSUME NEW n \in Name PROVE Within(NowOf(n), Trying(n), MaxUser)'
    BY DEF UserBound
  <2>1. IsFiniteSet(NowOf(n)') /\ Cardinality(NowOf(n)') <= Cardinality(NowOf(n))
    BY <1>0, <1>13, TickWindows
  <2>2. Trying(n)' = Trying(n) /\ Trying(n) \in SUBSET Handler
    BY <1>13 DEF Tick, Trying
  <2>3. Within(NowOf(n)', Trying(n)', MaxUser)
    BY <1>0, <1>00, <2>1, <2>2, FewerWithin
  <2> QED
    BY <2>3 DEF Within
<1>14. CASE Restart
  <2>1. \A n \in Name : NowOf(n)' \subseteq NowOf(n) /\ Trying(n)' \subseteq Trying(n)
    BY <1>14 DEF Restart, lockTables, NowOf, Now, Trying
  <2> QED
    BY <1>1, <2>1 DEF UserBound
<1>15. CASE UNCHANGED vars
  BY <1>11, <1>15 DEF vars
<1> QED
  BY <1>4, <1>5, <1>6, <1>7, <1>8, <1>9, <1>10, <1>12, <1>13, <1>14, <1>15, AccountsAssumption
  DEF Next, Proceed

LEMMA NextAddressBound ==
  ASSUME TypeInv, AddressBound, [Next]_vars
  PROVE  AddressBound'
<1>0. /\ failures \subseteq Row /\ IsFiniteSet(failures) /\ IsFiniteSet(Now)
      /\ pc \in [Handler -> {"idle"} \cup LoginPc \cup SetupPc]
      /\ who \in [Handler -> Name \cup {NoName}]
      /\ \A h \in Handler : pc[h] # "idle" => who[h] \in Name
      /\ straddles \subseteq Handler
      /\ MaxAddress \in Nat
      /\ Coming \in SUBSET Handler
  BY TypeFacts, WindowsAreFinite, AccountsAssumption DEF Coming
<1>1. ASSUME IsFiniteSet(Now'), Cardinality(Now') <= Cardinality(Now), Coming' \subseteq Coming
      PROVE  AddressBound'
  <2>1. Within(Now', Coming', MaxAddress)
    BY <1>0, <1>1, FewerWithin DEF AddressBound
  <2> QED
    BY <2>1 DEF AddressBound, Within
<1>2. ASSUME NEW h \in Handler, Arrive(h) \/ Proceed(h) \/ Fails(h), failures' \subseteq failures,
             pc'[h] \in Arriving => pc[h] \in Arriving
      PROVE  AddressBound'
  <2>1. IsFiniteSet(Now') /\ Cardinality(Now') <= Cardinality(Now)
    <3>1. Now' \subseteq Now
      BY <1>2 DEF Now
    <3> QED
      BY <1>0, <3>1, SubsetCard
  <2>2. Coming' \subseteq Coming
    BY <1>2, OthersWait DEF Coming
  <2> QED
    BY <1>1, <2>1, <2>2
\* A failure of a login that was let in.
<1>3. ASSUME NEW h \in Handler, RecordUnknown(h) \/ RecordFailure(h) PROVE AddressBound'
  <2>1. PICK row \in Row : failures' = failures \cup {row} /\ row.age = 0
    BY <1>0, <1>3, FailedRow DEF RecordUnknown, RecordFailure
  <2>2. pc[h] \in Arriving /\ pc'[h] \notin Arriving
    BY <1>0, <1>3 DEF RecordUnknown, RecordFailure, End, Goto, Arriving, Recording
  <2>3. Now' = Now \cup {row}
    BY <2>1, AccountsAssumption DEF Now
  <2>4. Coming' \subseteq Coming \ {h} /\ h \in Coming
    BY <1>3, <2>2, OthersWait DEF Coming, Proceed
  <2>5. Within(Now \cup {row}, Coming \ {h}, MaxAddress)
    BY <1>0, <2>4, MovedWithin DEF AddressBound
  <2>6. /\ IsFiniteSet(Now \cup {row})
        /\ Cardinality(Now \cup {row}) <= Cardinality(Now \cup {row})
        /\ Coming \ {h} \in SUBSET Handler
    BY <1>0, FS_AddElement, FS_CardinalityType
  <2>7. Within(Now \cup {row}, Coming', MaxAddress)
    BY <1>0, <2>4, <2>5, <2>6, FewerWithin
  <2> QED
    BY <2>3, <2>7 DEF AddressBound, Within
\* A login is let in when there are few rows.
<1>4. ASSUME NEW h \in Handler, NEW n \in Name, Login(h, n) PROVE AddressBound'
  <2>1. UNCHANGED failures /\ CountByAddress(h) < MaxAddress
    BY <1>4 DEF Login, lockTables
  <2>2. Cardinality(Now) < MaxAddress
    BY <1>0, <2>1, CountedRecent, FS_CardinalityType
  <2>3. Coming' \in SUBSET Handler
    BY DEF Coming
  <2>4. Within(Now, Coming', MaxAddress)
    BY <1>0, <2>2, <2>3, FewWithin
  <2>5. Now' = Now
    BY <2>1 DEF Now
  <2> QED
    BY <2>4, <2>5 DEF AddressBound, Within
<1>5. ASSUME NEW h \in Handler, NEW n \in Name, Bootstrap(h, n) \/ Unlock(h, n) PROVE AddressBound'
  <2>1. UNCHANGED failures
    BY <1>5 DEF Bootstrap, Unlock, lockTables
  <2>2. /\ pc'[h] \notin Arriving
        /\ \A g \in Handler : g # h => pc'[g] = pc[g]
    BY <1>0, <1>5 DEF Bootstrap, Unlock, Begin, Arriving, Recording
  <2>3. Now' = Now /\ Coming' \subseteq Coming
    BY <2>1, <2>2 DEF Now, Coming
  <2> QED
    BY <1>0, <1>1, <2>3, SubsetCard
<1>6. ASSUME NEW h \in Handler, CreateAdmin(h) \/ GrantAdmin(h) \/ CountAfter(h) \/ Lock(h)
                  \/ Clear(h) \/ Fails(h)
      PROVE  AddressBound'
  <2>1. failures' \subseteq failures
    BY <1>6 DEF CreateAdmin, GrantAdmin, CountAfter, Lock, Clear, Fails, lockTables
  <2>2. pc'[h] \notin Arriving
    BY <1>0, <1>6 DEF CreateAdmin, GrantAdmin, CountAfter, Lock, Clear, Fails, Goto, End,
                      Arriving, Recording
  <2> QED
    BY <1>2, <1>6, <2>1, <2>2 DEF Proceed
<1>7. ASSUME NEW h \in Handler, FindUser(h) \/ Release(h) \/ CountBefore(h) PROVE AddressBound'
  <2>1. UNCHANGED failures
    BY <1>7 DEF FindUser, Release, CountBefore, lockTables
  <2>2. pc[h] \in Arriving
    BY <1>7 DEF FindUser, Release, CountBefore, Arriving, Recording
  <2> QED
    BY <1>2, <1>7, <2>1, <2>2 DEF Proceed
<1>8. ASSUME UNCHANGED <<failures, pc>> PROVE AddressBound'
  BY <1>8 DEF AddressBound, Now, Coming, Within
<1>9. ASSUME NEW n \in Name, CreateUser(n) \/ AddRole(n) \/ RemoveRole(n) PROVE AddressBound'
  BY <1>8, <1>9 DEF CreateUser, AddRole, RemoveRole, lockTables
<1>10. CASE Tick
  <2>1. Coming' = Coming
    BY <1>10 DEF Tick, Coming
  <2> QED
    BY <1>0, <1>1, <1>10, <2>1, TickWindows
<1>11. CASE Restart
  <2>1. Now' = Now /\ Coming' \subseteq Coming
    BY <1>11 DEF Restart, lockTables, Now, Coming, Arriving, Recording
  <2> QED
    BY <1>0, <1>1, <2>1, SubsetCard
<1>12. CASE UNCHANGED vars
  BY <1>8, <1>12 DEF vars
<1> QED
  BY <1>3, <1>4, <1>5, <1>6, <1>7, <1>9, <1>10, <1>11, <1>12, AccountsAssumption
  DEF Next, Arrive, Proceed

LEMMA InitBounds == Init => LockedOK /\ UserBound /\ AddressBound
<1> SUFFICES ASSUME Init PROVE LockedOK /\ UserBound /\ AddressBound
  OBVIOUS
<1>1. LockedOK
  BY DEF Init, LockedOK
<1>2. IsFiniteSet({}) /\ Cardinality({}) = 0
  BY FS_EmptySet
<1>3. Now = {} /\ \A n \in Name : NowOf(n) = {}
  BY DEF Init, Now, NowOf
<1>4. \A B \in SUBSET Handler : Within({}, B, MaxUser) /\ Within({}, B, MaxAddress)
  BY <1>2, FewWithin, AccountsAssumption
<1>5. Coming \in SUBSET Handler /\ \A n \in Name : Trying(n) \in SUBSET Handler
  BY DEF Coming, Trying
<1> QED
  BY <1>1, <1>3, <1>4, <1>5 DEF UserBound, AddressBound

\* However many logins overlap, fail half-way, or find and release expired
\* locks, the wrong passwords tried on one account within one window are fewer
\* than the threshold plus the requests under way, and so are those from one
\* address (Login 36-103, failureWindow < lockoutDuration).
THEOREM FailuresAreBounded == Spec => []FailuresBounded
<1>1. TypeInv /\ LockedOK /\ UserBound /\ AddressBound /\ [Next]_vars =>
        LockedOK' /\ UserBound' /\ AddressBound'
  BY NextLocked, NextUserBound, NextAddressBound
<1>2. TypeInv /\ UserBound /\ AddressBound => FailuresBounded
  <2> SUFFICES ASSUME TypeInv, UserBound, AddressBound PROVE FailuresBounded
    OBVIOUS
  <2>1. IsFiniteSet(Now) /\ \A n : IsFiniteSet(NowOf(n))
    BY TypeFacts, WindowsAreFinite
  <2>2. \A B \in SUBSET Handler : Cardinality(B) \in Nat
    BY SubsetCard, AccountsAssumption
  <2>3. Coming \in SUBSET Handler /\ \A n \in Name : Trying(n) \in SUBSET Handler
    BY DEF Coming, Trying
  <2>4. /\ Cardinality(Now) \in Nat /\ Cardinality(Coming) \in Nat
        /\ Cardinality(Handler) \in Nat
    BY <2>1, <2>2, <2>3, FS_CardinalityType, AccountsAssumption
  <2>5. Cardinality(Now) <= MaxAddress - 1 + Cardinality(Handler)
    BY <2>4, AccountsAssumption DEF AddressBound, Within
  <2>6. ASSUME NEW n \in Name PROVE Cardinality(NowOf(n)) <= MaxUser - 1 + Cardinality(Handler)
    <3>1. Cardinality(NowOf(n)) \in Nat /\ Cardinality(Trying(n)) \in Nat
      BY <2>1, <2>2, <2>3, FS_CardinalityType
    <3> QED
      BY <2>4, <3>1, AccountsAssumption DEF UserBound, Within
  <2> QED
    BY <2>5, <2>6 DEF FailuresBounded, Now, NowOf
<1> QED
  BY <1>1, <1>2, InitTypes, InitBounds, NextTypes, PTL DEF Spec
=============================================================================
