------------------------------ MODULE Checkout ------------------------------
(***************************************************************************)
(* The resources of order placement: the pgxpool connections and the       *)
(* advisory locks.  A placement keeps one connection from BeginTx to       *)
(* commit or rollback, also while it waits for the lock.  Every failure is *)
(* reported by emitEvent, which asks the pool for a connection of its own  *)
(* (resolveABVariant, with context.Background()) before the deferred       *)
(* Rollback gives the first one back.                                      *)
(***************************************************************************)
EXTENDS Naturals, FiniteSets

CONSTANTS
    Handler,   \* goroutines serving POST /orders at the same time
    Item,      \* collectibles
    LockKey,   \* values of hashtext(), the 32-bit advisory lock space
    LockOf,    \* LockOf[i]: the advisory lock of collectible i
    Conns,     \* size of the connection pool
    Cancels,   \* TRUE: clients may go away and cancel their request
    NoItem, NoHandler

ASSUME CheckoutAssumption ==
    /\ IsFiniteSet(Handler)
    /\ Conns \in Nat \ {0}
    /\ LockOf \in [Item -> LockKey]
    /\ Cancels \in BOOLEAN
    /\ NoItem \notin Item
    /\ NoHandler \notin Handler

VARIABLES
    pc,      \* where each handler is
    item,    \* the collectible it was asked for
    inUse,   \* connections the pool has given to transactions
    owner,   \* the handler whose transaction has an advisory lock
    taken    \* collectibles with an active order

vars == <<pc, item, inUse, owner, taken>>

\* Labels between BeginTx and the end of the transaction, and the others.
InTx == {"lock", "check", "report", "rollback"}
Outside == {"idle", "lookup", "begin", "event"}

Busy == {h \in Handler : pc[h] \in InTx}
FreeConn == inUse < Conns

Init ==
    /\ pc = [h \in Handler |-> "idle"]
    /\ item = [h \in Handler |-> NoItem]
    /\ inUse = 0
    /\ owner = [l \in LockKey |-> NoHandler]
    /\ taken = {}

Goto(h, label) == pc' = [pc EXCEPT ![h] = label]

\* Mutant: an error path without the deferred Rollback leaks both.
EndTxLeaking(h) == UNCHANGED <<owner, inUse>>

\* Mutant: a lock of the session (pg_advisory_lock) outlives the transaction.
EndTxKeepingLock(h) == inUse' = inUse - 1 /\ UNCHANGED owner

\* The end of a transaction frees its lock, if it has one, and its connection.
EndTx(h) ==
    /\ owner' = [l \in LockKey |-> IF owner[l] = h THEN NoHandler ELSE owner[l]]
    /\ inUse' = inUse - 1

Arrive(h) ==
    /\ pc[h] = "idle"
    /\ \E i \in Item : item' = [item EXCEPT ![h] = i]
    /\ Goto(h, "lookup")
    /\ UNCHANGED <<inUse, owner, taken>>

\* GetByIdempotencyKey and GetByID borrow a connection each.  An order with
\* this key answers at once; a collectible that is missing, hidden or the
\* buyer's own is reported, without a transaction.
Lookup(h) ==
    /\ pc[h] = "lookup"
    /\ FreeConn
    /\ \E next \in {"begin", "event", "idle"} : Goto(h, next)
    /\ UNCHANGED <<item, inUse, owner, taken>>

Begin(h) ==
    /\ pc[h] = "begin"
    /\ FreeConn
    /\ inUse' = inUse + 1
    /\ Goto(h, "lock")
    /\ UNCHANGED <<item, owner, taken>>

\* pg_advisory_xact_lock(hashtext(id)): the connection is kept while waiting for
\* the lock, with no timeout; collectibles with one hash wait for each other.
Lock(h) ==
    /\ pc[h] = "lock"
    /\ owner[LockOf[item[h]]] = NoHandler
    /\ owner' = [owner EXCEPT ![LockOf[item[h]]] = h]
    /\ Goto(h, "check")
    /\ UNCHANGED <<item, inUse, taken>>

\* HasActiveOrder finds an order: the oversold report, inside the transaction.
Oversold(h) ==
    /\ pc[h] = "check"
    /\ item[h] \in taken
    /\ Goto(h, "report")
    /\ UNCHANGED <<item, inUse, owner, taken>>

\* It finds none: insert, commit, and report after the transaction.
Place(h) ==
    /\ pc[h] = "check"
    /\ item[h] \notin taken
    /\ taken' = taken \cup {item[h]}
    /\ EndTx(h)
    /\ Goto(h, "event")
    /\ UNCHANGED item

\* emitEvent inside the transaction needs a second connection for a moment.
Report(h) ==
    /\ pc[h] = "report"
    /\ FreeConn
    /\ Goto(h, "rollback")
    /\ UNCHANGED <<item, inUse, owner, taken>>

Rollback(h) ==
    /\ pc[h] = "rollback"
    /\ EndTx(h)
    /\ Goto(h, "idle")
    /\ UNCHANGED <<item, taken>>

\* emitEvent outside a transaction.
Event(h) ==
    /\ pc[h] = "event"
    /\ FreeConn
    /\ Goto(h, "idle")
    /\ UNCHANGED <<item, inUse, owner, taken>>

\* The request context is cancelled: what waits or runs with it fails.  The
\* report that follows has a context of its own and cannot be cancelled.
Cancel(h) ==
    /\ Cancels
    /\ \/ pc[h] = "lookup" /\ Goto(h, "idle")
       \/ pc[h] \in {"lookup", "begin"} /\ Goto(h, "event")
       \/ pc[h] \in {"lock", "check"} /\ Goto(h, "report")
    /\ UNCHANGED <<item, inUse, owner, taken>>

\* A transition completes or cancels the active order of i.
Settle(i) ==
    /\ i \in taken
    /\ FreeConn
    /\ taken' = taken \ {i}
    /\ UNCHANGED <<pc, item, inUse, owner>>

Step(h) ==
    \/ Lookup(h) \/ Begin(h) \/ Lock(h) \/ Oversold(h) \/ Place(h)
    \/ Report(h) \/ Rollback(h) \/ Event(h)

Next ==
    \/ \E h \in Handler : Arrive(h) \/ Step(h) \/ Cancel(h)
    \/ \E i \in Item : Settle(i)

Spec == Init /\ [][Next]_vars

\* The pool and PostgreSQL serve their waiters first come, first served, so a
\* handler that could go on again and again does.
LiveSpec == Spec /\ \A h \in Handler : SF_vars(Step(h))

-----------------------------------------------------------------------------
\* Types; a lock is only held by a handler of one of its collectibles, in the part
\* of its transaction that follows AcquireAdvisoryLock: no lock outlives it.
TypeOK ==
    /\ pc \in [Handler -> Outside \cup InTx]
    /\ item \in [Handler -> Item \cup {NoItem}]
    /\ inUse \in Nat
    /\ owner \in [LockKey -> Handler \cup {NoHandler}]
    /\ taken \subseteq Item
    /\ \A h \in Handler : pc[h] \in InTx \cup {"lookup", "begin"} => item[h] \in Item
    /\ \A l \in LockKey : owner[l] # NoHandler =>
         /\ LockOf[item[owner[l]]] = l
         /\ pc[owner[l]] \in {"check", "report", "rollback"}

\* A placement that has to report a failure finds a connection for it, although
\* it keeps one itself and every other placement may be waiting with one (Create
\* 60-73, emitEvent 374-388).
ReportFindsConnection == (\E h \in Handler : pc[h] = "report") => FreeConn

\* Every placement is answered: it waits for the pool and for the lock, also when
\* placements of other collectibles keep taking that lock, and never forever
\* (Create 26-110).
Answered == \A h \in Handler : pc[h] = "lookup" ~> pc[h] = "idle"
=============================================================================
