--------------------------- MODULE CheckoutProofs ---------------------------
(***************************************************************************)
(* The pool counts exactly the placements that are inside a transaction.   *)
(* With fewer concurrent placements than connections every failure report  *)
(* therefore finds the second connection it needs, however many            *)
(* collectibles and connections there are.                                 *)
(***************************************************************************)
EXTENDS Checkout, FiniteSetTheorems, TLAPS

PoolIsExact == inUse = Cardinality(Busy)

IInv == TypeOK /\ PoolIsExact

\* Transactions are finitely many, because handlers are.
LEMMA BusyIsFinite == IsFiniteSet(Busy) /\ Cardinality(Busy) \in Nat
<1>1. Busy \subseteq Handler
  BY DEF Busy
<1>2. IsFiniteSet(Busy)
  BY <1>1, CheckoutAssumption, FS_Subset DEF CheckoutAssumption
<1> QED
  BY <1>2, FS_CardinalityType

\* A step of h that stays on its side of BeginTx keeps the set of transactions.
LEMMA SameBusy ==
  ASSUME NEW h \in Handler, NEW label, TypeOK, Goto(h, label),
         (pc[h] \in InTx) <=> (label \in InTx)
  PROVE  Busy' = Busy
BY DEF Busy, Goto, TypeOK, InTx

\* BeginTx adds one transaction, its end removes one.
LEMMA BusyGrows ==
  ASSUME NEW h \in Handler, TypeOK, Goto(h, "lock"), pc[h] \notin InTx
  PROVE  Cardinality(Busy') = Cardinality(Busy) + 1
<1>1. Busy' = Busy \cup {h} /\ h \notin Busy
  BY DEF Busy, Goto, TypeOK, InTx
<1> QED
  BY <1>1, BusyIsFinite, FS_AddElement

LEMMA BusyShrinks ==
  ASSUME NEW h \in Handler, NEW label, TypeOK, Goto(h, label),
         pc[h] \in InTx, label \notin InTx
  PROVE  Cardinality(Busy') = Cardinality(Busy) - 1
<1>1. Busy' = Busy \ {h} /\ h \in Busy
  BY DEF Busy, Goto, TypeOK, InTx
<1> QED
  BY <1>1, BusyIsFinite, FS_RemoveElement

LEMMA InitOK == Init => IInv
<1> SUFFICES ASSUME Init PROVE IInv
  OBVIOUS
<1>1. TypeOK
  BY CheckoutAssumption DEF Init, TypeOK, InTx, Outside, CheckoutAssumption
<1>2. Busy = {}
  BY DEF Init, Busy, InTx
<1> QED
  BY <1>1, <1>2, FS_EmptySet DEF IInv, PoolIsExact, Init

\* One step per action: where the handler crosses BeginTx, Commit or Rollback the
\* pool and the set of transactions change together, elsewhere neither does.
LEMMA StepOK == IInv /\ [Next]_vars => IInv'
<1> SUFFICES ASSUME IInv, [Next]_vars PROVE IInv'
  OBVIOUS
<1> USE CheckoutAssumption DEF IInv, PoolIsExact, CheckoutAssumption
<1>0. inUse \in Nat /\ Cardinality(Busy) \in Nat
  BY BusyIsFinite DEF TypeOK
<1>1. ASSUME NEW h \in Handler, Arrive(h) PROVE IInv'
  <2>1. TypeOK'
    BY <1>1 DEF Arrive, Goto, TypeOK, InTx, Outside
  <2> QED
    BY <1>1, <2>1, SameBusy DEF Arrive, InTx
<1>2. ASSUME NEW h \in Handler, Lookup(h) PROVE IInv'
  <2>1. TypeOK'
    BY <1>2 DEF Lookup, Goto, TypeOK, InTx, Outside
  <2> QED
    BY <1>2, <2>1, SameBusy DEF Lookup, InTx
<1>3. ASSUME NEW h \in Handler, Begin(h) PROVE IInv'
  <2>1. TypeOK'
    BY <1>3 DEF Begin, Goto, TypeOK, InTx, Outside
  <2> QED
    BY <1>3, <2>1, BusyGrows DEF Begin, InTx
<1>4. ASSUME NEW h \in Handler, Lock(h) PROVE IInv'
  <2>1. TypeOK'
    BY <1>4 DEF Lock, Goto, TypeOK, InTx, Outside
  <2> QED
    BY <1>4, <2>1, SameBusy DEF Lock, InTx
<1>5. ASSUME NEW h \in Handler, Oversold(h) PROVE IInv'
  <2>1. TypeOK'
    BY <1>5 DEF Oversold, Goto, TypeOK, InTx, Outside
  <2> QED
    BY <1>5, <2>1, SameBusy DEF Oversold, InTx
<1>6. ASSUME NEW h \in Handler, Place(h) PROVE IInv'
  <2>1. inUse' = Cardinality(Busy')
    BY <1>6, <1>0, BusyShrinks DEF Place, EndTx, InTx
  <2>2. inUse' \in Nat
    BY <1>6, <2>1, <1>0, BusyShrinks, h \in Busy, BusyIsFinite, FS_EmptySet
    DEF Place, EndTx, InTx, Busy
  <2>3. TypeOK'
    BY <1>6, <2>2 DEF Place, EndTx, Goto, TypeOK, InTx, Outside
  <2> QED
    BY <2>1, <2>3
<1>7. ASSUME NEW h \in Handler, Report(h) PROVE IInv'
  <2>1. TypeOK'
    BY <1>7 DEF Report, Goto, TypeOK, InTx, Outside
  <2> QED
    BY <1>7, <2>1, SameBusy DEF Report, InTx
<1>8. ASSUME NEW h \in Handler, Rollback(h) PROVE IInv'
  <2>1. inUse' = Cardinality(Busy')
    BY <1>8, <1>0, BusyShrinks DEF Rollback, EndTx, InTx
  <2>2. inUse' \in Nat
    BY <1>8, <2>1, <1>0, BusyShrinks, h \in Busy, BusyIsFinite, FS_EmptySet
    DEF Rollback, EndTx, InTx, Busy
  <2>3. TypeOK'
    BY <1>8, <2>2 DEF Rollback, EndTx, Goto, TypeOK, InTx, Outside
  <2> QED
    BY <2>1, <2>3
<1>9. ASSUME NEW h \in Handler, Event(h) PROVE IInv'
  <2>1. TypeOK'
    BY <1>9 DEF Event, Goto, TypeOK, InTx, Outside
  <2> QED
    BY <1>9, <2>1, SameBusy DEF Event, InTx
<1>10. ASSUME NEW h \in Handler, Cancel(h) PROVE IInv'
  <2>1. TypeOK'
    BY <1>10 DEF Cancel, Goto, TypeOK, InTx, Outside
  <2> QED
    BY <1>10, <2>1, SameBusy DEF Cancel, InTx
<1>11. ASSUME NEW i \in Item, Settle(i) PROVE IInv'
  BY <1>11 DEF Settle, TypeOK, Busy, InTx
<1>12. CASE UNCHANGED vars
  BY <1>12 DEF vars, TypeOK, Busy, InTx
<1> QED
  BY <1>1, <1>2, <1>3, <1>4, <1>5, <1>6, <1>7, <1>8, <1>9, <1>10, <1>11, <1>12
  DEF Next, Step

THEOREM Invariance == Spec => []IInv
BY InitOK, StepOK, PTL DEF Spec

\* No lock outlives the transaction it was taken in, and every handler that is
\* past the lookup has a collectible, for any numbers of handlers, collectibles
\* and connections.
THEOREM TypeCorrect == Spec => []TypeOK
<1>1. IInv => TypeOK
  BY DEF IInv
<1> QED
  BY Invariance, <1>1, PTL

\* With more connections than concurrent placements, a placement that reports a
\* failure from inside its transaction always finds the second connection.
THEOREM ReportsAreServed ==
  ASSUME Cardinality(Handler) < Conns
  PROVE  Spec => []ReportFindsConnection
<1>1. IInv => ReportFindsConnection
  <2> SUFFICES ASSUME IInv PROVE inUse < Conns
    BY DEF ReportFindsConnection, FreeConn
  <2>1. Busy \subseteq Handler
    BY DEF Busy
  <2>2. Cardinality(Busy) <= Cardinality(Handler)
    BY <2>1, CheckoutAssumption, FS_Subset DEF CheckoutAssumption
  <2>3. Cardinality(Busy) \in Nat /\ Cardinality(Handler) \in Nat
    BY BusyIsFinite, FS_CardinalityType, CheckoutAssumption DEF CheckoutAssumption
  <2> QED
    BY <2>2, <2>3, CheckoutAssumption DEF IInv, PoolIsExact, CheckoutAssumption
<1> QED
  BY Invariance, <1>1, PTL
=============================================================================
