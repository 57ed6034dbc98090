------------------------ MODULE NotificationsProofs -------------------------
(***************************************************************************)
(* Why no notification is delivered or attempted too often.  Both bounds   *)
(* count what may still happen to a row: a row that is pending or failed,  *)
(* and not on its way to being recorded as delivered, is worth one more    *)
(* delivery; a pending row is worth max_retries + 1 attempts, a failed one *)
(* what is left of max_retries.  A manual retry, a crash or a failed       *)
(* UPDATE pays for what it adds, and the worker only spends.               *)
(***************************************************************************)
EXTENDS Notifications, TLAPS

Alive(n) == status[n] \in {"pending", "failed"}

\* What the worker read is still true of count, and of status but for resets.
BatchOK ==
    /\ phase = "idle" => DOMAIN batch = {}
    /\ \A n \in DOMAIN batch :
        /\ Alive(n)
        /\ batch[n] = count[n]
        /\ phase = "pending" => status[n] = "pending"
        /\ phase = "failed" => batch[n] < MaxRetries

\* Deliveries still to come without a new reset or fault.
MayDeliver(n) == IF Alive(n) /\ ~(current = n /\ outcome = "ok") THEN 1 ELSE 0

DeliveriesPaid == \A n \in Notif : deliveries[n] + MayDeliver(n) <= 1 + resets[n] + faults

\* Attempts still to come without a new reset or fault.
MayAttempt(n) ==
    CASE status[n] = "pending" -> MaxRetries + 1
      [] status[n] = "failed" -> MaxRetries - count[n]
      [] OTHER -> 0

Tried(n) == IF current = n THEN 1 ELSE 0

Budget(n) == (MaxRetries + 1) * (resets[n] + 1)

AttemptsPaid == \A n \in Notif : attempts[n] + MayAttempt(n) - Tried(n) <= Budget(n) + faults

IInv == TypeOK /\ BatchOK /\ DeliveriesPaid /\ AttemptsPaid

USE NotificationsAssumption DEF NotificationsAssumption

LEMMA BudgetType == TypeOK => \A n \in Notif : Budget(n) \in Nat
BY DEF Budget, TypeOK

LEMMA InitOK == Init => IInv
<1> SUFFICES ASSUME Init PROVE IInv
  OBVIOUS
<1> USE DEF Init, Notif, NoNotif, NoRows, Statuses
<1>1. DOMAIN batch = {}
  OBVIOUS
<1>2. TypeOK
  BY <1>1 DEF TypeOK
<1>3. BatchOK
  BY <1>1 DEF BatchOK
<1>4. DeliveriesPaid
  BY DEF DeliveriesPaid, MayDeliver
<1>5. AttemptsPaid
  <2> SUFFICES ASSUME NEW n \in Notif
               PROVE  attempts[n] + MayAttempt(n) - Tried(n) <= Budget(n) + faults
    BY DEF AttemptsPaid
  <2>1. Budget(n) = MaxRetries + 1
    BY DEF Budget
  <2>2. MayAttempt(n) = MaxRetries + 1 /\ Tried(n) = 0
    BY DEF MayAttempt, Tried
  <2> QED
    BY <2>1, <2>2
<1> QED
  BY <1>2, <1>3, <1>4, <1>5 DEF IInv

\* Both payments only look at these variables.
LEMMA Unpaid ==
  ASSUME UNCHANGED <<status, count, current, outcome, attempts, deliveries, resets, faults>>,
         DeliveriesPaid, AttemptsPaid
  PROVE  DeliveriesPaid' /\ AttemptsPaid'
BY DEF DeliveriesPaid, AttemptsPaid, MayDeliver, MayAttempt, Alive, Tried, Budget

-----------------------------------------------------------------------------
(* Steps that attempt and record nothing. *)

LEMMA SendOK == ASSUME IInv, Send PROVE IInv'
<1> USE DEF Send, table, worker, history
<1>1. TypeOK'
  BY DEF IInv, TypeOK
<1>2. BatchOK'
  BY DEF IInv, BatchOK, Alive
<1> QED
  BY <1>1, <1>2, Unpaid DEF IInv

LEMMA TickOK == ASSUME IInv, Tick PROVE IInv'
<1> USE DEF IInv, Tick, table, history
<1>1. PICK rows \in SUBSET Pending : batch' = [n \in rows |-> count[n]]
  BY DEF GetPendingForDelivery, Snapshot
<1>2. DOMAIN batch' = rows /\ \A n \in rows : n \in 1..sent /\ batch'[n] = count[n]
  BY <1>1 DEF Pending, Exists, Notif
<1>3. current = NoNotif
  BY DEF TypeOK, BatchOK
<1>4. TypeOK'
  BY <1>1, <1>2, <1>3 DEF TypeOK, Notif
<1>5. BatchOK'
  BY <1>1, <1>2 DEF BatchOK, Alive, Pending
<1> QED
  BY <1>4, <1>5, Unpaid

LEMMA ReadFailedOK == ASSUME IInv, ReadFailed PROVE IInv'
<1> USE DEF IInv, ReadFailed, Handled, table, history
<1>1. PICK rows \in SUBSET Retryable : batch' = [n \in rows |-> count[n]]
  BY DEF GetFailedForRetry, Snapshot
<1>2. DOMAIN batch' = rows /\ \A n \in rows : n \in 1..sent /\ batch'[n] = count[n]
  BY <1>1 DEF Retryable, Exists, Notif
<1>3. TypeOK'
  BY <1>1, <1>2 DEF TypeOK, Notif
<1>4. BatchOK'
  BY <1>1, <1>2 DEF BatchOK, Alive, Retryable
<1> QED
  BY <1>3, <1>4, Unpaid

LEMMA EndTickOK == ASSUME IInv, EndTick PROVE IInv'
<1> USE DEF IInv, EndTick, Handled, table, history
<1>1. TypeOK'
  BY DEF TypeOK
<1>2. BatchOK'
  BY DEF BatchOK, Alive
<1> QED
  BY <1>1, <1>2, Unpaid

LEMMA BackoffPassesOK == ASSUME IInv, NEW n \in Notif, BackoffPasses(n) PROVE IInv'
<1> USE DEF IInv, BackoffPasses, worker, history
<1>1. TypeOK'
  BY DEF TypeOK
<1>2. BatchOK'
  BY DEF BatchOK, Alive
<1> QED
  BY <1>1, <1>2, Unpaid

LEMMA RetryReadOK == ASSUME IInv, NEW h \in Handler, RetryRead(h) PROVE IInv'
<1>0. PICK n \in Notif : n <= sent /\ target' = [target EXCEPT ![h] = n]
  BY DEF RetryRead, Exists
<1>1. UNCHANGED <<table, worker, history>>
  BY DEF RetryRead
<1>2. n \in 0..sent
  BY <1>0 DEF IInv, TypeOK, Notif
<1>3. target' \in [Handler -> 0..sent]
  BY <1>0, <1>2 DEF IInv, TypeOK
<1>4. TypeOK'
  BY <1>1, <1>3 DEF IInv, TypeOK, table, worker, history
<1>5. BatchOK'
  BY <1>1 DEF IInv, BatchOK, Alive, table, worker
<1> QED
  BY <1>1, <1>4, <1>5, Unpaid DEF IInv, table, worker, history

-----------------------------------------------------------------------------
(* Steps that spend: an attempt and its record. *)

LEMMA AttemptOK == ASSUME IInv, Attempt PROVE IInv'
<1> USE DEF IInv, Attempt, table
<1>1. PICK n \in DOMAIN batch, result \in {"ok", "error"} :
        /\ current' = n
        /\ attempts' = [attempts EXCEPT ![n] = @ + 1]
        /\ owed' = owed \ {n}
        /\ outcome' = result
        /\ deliveries' = [deliveries EXCEPT ![n] = IF result = "ok" THEN @ + 1 ELSE @]
  OBVIOUS
<1>2. n \in Notif /\ n # NoNotif
  BY DEF TypeOK, Notif, NoNotif
<1>3. TypeOK'
  BY <1>1, <1>2 DEF TypeOK
<1>4. BatchOK'
  BY DEF BatchOK, Alive
<1>5. DeliveriesPaid'
  <2> SUFFICES ASSUME NEW k \in Notif
               PROVE  (deliveries[k] + MayDeliver(k) <= 1 + resets[k] + faults)'
    BY DEF DeliveriesPaid
  <2>1. deliveries[k] + MayDeliver(k) <= 1 + resets[k] + faults /\ deliveries[k] \in Nat
    BY DEF DeliveriesPaid, TypeOK
  <2>2. CASE k = n
    BY <1>1, <2>1, <2>2 DEF MayDeliver, Alive, BatchOK, TypeOK, NoNotif, Notif
  <2>3. CASE k # n
    <3>1. deliveries'[k] = deliveries[k]
      BY <1>1, <2>3 DEF TypeOK
    <3>2. k # current /\ k # current'
      BY <1>1, <2>3 DEF NoNotif, Notif
    <3>3. MayDeliver(k)' = MayDeliver(k)
      BY <3>2 DEF MayDeliver, Alive
    <3> QED
      BY <2>1, <3>1, <3>3
  <2> QED
    BY <2>2, <2>3
<1>6. AttemptsPaid'
  <2> SUFFICES ASSUME NEW k \in Notif
               PROVE  (attempts[k] + MayAttempt(k) - Tried(k) <= Budget(k) + faults)'
    BY DEF AttemptsPaid
  <2>1. attempts[k] + MayAttempt(k) - Tried(k) <= Budget(k) + faults
    BY DEF AttemptsPaid
  <2>2. MayAttempt(k)' = MayAttempt(k) /\ Budget(k)' = Budget(k) /\ faults' = faults
    BY DEF MayAttempt, Budget
  <2>3. MayAttempt(k) \in Int /\ Budget(k) \in Nat /\ attempts[k] \in Nat /\ faults \in Nat
    BY BudgetType DEF MayAttempt, TypeOK
  <2>4. attempts'[k] - Tried(k)' = attempts[k] - Tried(k)
    <3>1. CASE k = n
      BY <1>1, <1>2, <2>3, <3>1 DEF Tried, TypeOK
    <3>2. CASE k # n
      BY <1>1, <1>2, <2>3, <3>2 DEF Tried, TypeOK, NoNotif, Notif
    <3> QED
      BY <3>1, <3>2
  <2>5. Tried(k) \in Nat /\ Tried(k)' \in Nat /\ attempts'[k] \in Nat
    BY <1>1, <1>2 DEF Tried, TypeOK
  <2> QED
    BY <2>1, <2>2, <2>3, <2>4, <2>5
<1> QED
  BY <1>3, <1>4, <1>5, <1>6

\* What Record does to the one row it handles, in both phases.
LEMMA RecordEffect ==
  ASSUME IInv, Record
  PROVE  /\ current \in DOMAIN batch /\ current \in Notif
         /\ status' \in [Notif -> Statuses]
         /\ count' \in [Notif -> 0..MaxRetries]
         /\ due' \in [Notif -> BOOLEAN]
         /\ \A k \in Notif \ {current} : status'[k] = status[k] /\ count'[k] = count[k]
         /\ outcome = "ok" => status'[current] = "delivered"
         /\ \A k \in Notif : k = current => MayAttempt(k)' <= MayAttempt(k) - 1
<1> USE DEF IInv
<1>1. current \in DOMAIN batch /\ current \in Notif
  BY DEF Record, TypeOK, Notif, NoNotif
<1>2. Alive(current) /\ batch[current] = count[current] /\ count[current] \in 0..MaxRetries
  BY <1>1 DEF BatchOK, TypeOK
<1>3. outcome \in {"ok", "error"}
  BY DEF TypeOK
<1>4. CASE RecordFirst
  <2>1. MayAttempt(current) = MaxRetries + 1
    BY <1>1, <1>4 DEF RecordFirst, BatchOK, MayAttempt
  <2>2. CASE outcome = "ok"
    <3>1. /\ status' = [status EXCEPT ![current] = "delivered"]
          /\ count' = [count EXCEPT ![current] = 0]
          /\ due' = [due EXCEPT ![current] = TRUE]
      BY <1>4, <2>2 DEF RecordFirst, UpdateRetryState
    <3>2. /\ status' \in [Notif -> Statuses] /\ count' \in [Notif -> 0..MaxRetries]
          /\ due' \in [Notif -> BOOLEAN]
          /\ status'[current] = "delivered" /\ count'[current] = 0
          /\ \A k \in Notif \ {current} : status'[k] = status[k] /\ count'[k] = count[k]
      BY <1>1, <2>1, <3>1 DEF TypeOK, Statuses
    <3> QED
      BY <1>1, <2>1, <3>2 DEF MayAttempt
  <2>3. CASE outcome = "error"
    <3>1. /\ status' = [status EXCEPT ![current] = "failed"]
          /\ count' = [count EXCEPT ![current] = 0]
          /\ due' = [due EXCEPT ![current] = FALSE]
      BY <1>4, <2>3 DEF RecordFirst, UpdateRetryState
    <3>2. /\ status' \in [Notif -> Statuses] /\ count' \in [Notif -> 0..MaxRetries]
          /\ due' \in [Notif -> BOOLEAN]
          /\ status'[current] = "failed" /\ count'[current] = 0
          /\ \A k \in Notif \ {current} : status'[k] = status[k] /\ count'[k] = count[k]
      BY <1>1, <2>1, <3>1 DEF TypeOK, Statuses
    <3> QED
      BY <1>1, <2>1, <2>3, <3>2 DEF MayAttempt
  <2> QED
    BY <1>3, <2>2, <2>3
<1>5. CASE RecordRetry
  <2> DEFINE newCount == batch[current] + 1
  <2>1. newCount \in 0..MaxRetries /\ newCount = count[current] + 1
    BY <1>1, <1>2, <1>5 DEF RecordRetry, BatchOK
  <2>2. MayAttempt(current) \in Int /\ MayAttempt(current) >= MaxRetries - count[current]
    BY <1>2 DEF MayAttempt, Alive
  <2>3. MaxRetries - newCount <= MayAttempt(current) - 1 /\ 0 <= MayAttempt(current) - 1
    BY <1>2, <2>1, <2>2
  <2>4. CASE outcome = "ok"
    <3>1. /\ status' = [status EXCEPT ![current] = "delivered"]
          /\ count' = [count EXCEPT ![current] = newCount]
          /\ due' = [due EXCEPT ![current] = TRUE]
      BY <1>5, <2>4 DEF RecordRetry, UpdateRetryState
    <3> HIDE DEF newCount
    <3>2. /\ status' \in [Notif -> Statuses] /\ count' \in [Notif -> 0..MaxRetries]
          /\ due' \in [Notif -> BOOLEAN]
          /\ status'[current] = "delivered" /\ count'[current] = newCount
          /\ \A k \in Notif \ {current} : status'[k] = status[k] /\ count'[k] = count[k]
      BY <1>1, <2>1, <3>1 DEF TypeOK, Statuses
    <3> QED
      BY <1>1, <2>1, <2>3, <3>2 DEF MayAttempt
  <2>5. CASE outcome = "error" /\ newCount >= MaxRetries
    <3>1. /\ status' = [status EXCEPT ![current] = "permanently_failed"]
          /\ count' = [count EXCEPT ![current] = newCount]
          /\ due' = [due EXCEPT ![current] = TRUE]
      BY <1>5, <2>1, <2>5 DEF RecordRetry, UpdateRetryState
    <3> HIDE DEF newCount
    <3>2. /\ status' \in [Notif -> Statuses] /\ count' \in [Notif -> 0..MaxRetries]
          /\ due' \in [Notif -> BOOLEAN]
          /\ status'[current] = "permanently_failed" /\ count'[current] = newCount
          /\ \A k \in Notif \ {current} : status'[k] = status[k] /\ count'[k] = count[k]
      BY <1>1, <2>1, <3>1 DEF TypeOK, Statuses
    <3> QED
      BY <1>1, <2>1, <2>3, <2>5, <3>2 DEF MayAttempt
  <2>6. CASE outcome = "error" /\ newCount < MaxRetries
    <3>1. /\ status' = [status EXCEPT ![current] = "failed"]
          /\ count' = [count EXCEPT ![current] = newCount]
          /\ due' = [due EXCEPT ![current] = FALSE]
      BY <1>5, <2>1, <2>6 DEF RecordRetry, UpdateRetryState
    <3> HIDE DEF newCount
    <3>2. /\ status' \in [Notif -> Statuses] /\ count' \in [Notif -> 0..MaxRetries]
          /\ due' \in [Notif -> BOOLEAN]
          /\ status'[current] = "failed" /\ count'[current] = newCount
          /\ \A k \in Notif \ {current} : status'[k] = status[k] /\ count'[k] = count[k]
      BY <1>1, <2>1, <3>1 DEF TypeOK, Statuses
    <3> QED
      BY <1>1, <2>1, <2>3, <2>6, <3>2 DEF MayAttempt
  <2> QED
    BY <1>2, <1>3, <2>1, <2>4, <2>5, <2>6
<1> QED
  BY <1>4, <1>5 DEF Record

LEMMA RecordOK == ASSUME IInv, Record PROVE IInv'
<1> USE DEF IInv
<1>1. /\ current \in DOMAIN batch /\ current \in Notif
      /\ status' \in [Notif -> Statuses]
      /\ count' \in [Notif -> 0..MaxRetries]
      /\ due' \in [Notif -> BOOLEAN]
  BY RecordEffect
<1>2. \A k \in Notif \ {current} : status'[k] = status[k] /\ count'[k] = count[k]
  BY RecordEffect
<1>3. /\ outcome = "ok" => status'[current] = "delivered"
      /\ \A k \in Notif : k = current => MayAttempt(k)' <= MayAttempt(k) - 1
  BY RecordEffect
<1>4. /\ batch' = [n \in DOMAIN batch \ {current} |-> batch[n]]
      /\ current' = NoNotif
      /\ UNCHANGED <<sent, phase, outcome, target, attempts, deliveries, resets, owed, faults>>
  BY DEF Record, Forget, history
<1>5. TypeOK'
  BY <1>1, <1>4 DEF TypeOK
<1>6. BatchOK'
  <2>1. DOMAIN batch' = DOMAIN batch \ {current} /\ DOMAIN batch \subseteq Notif
    BY <1>4, <1>5 DEF TypeOK, Notif
  <2>2. \A n \in DOMAIN batch' :
          batch'[n] = batch[n] /\ status'[n] = status[n] /\ count'[n] = count[n]
    BY <1>2, <1>4, <2>1
  <2>3. BatchOK
    OBVIOUS
  <2> HIDE DEF IInv
  <2> QED
    BY <1>4, <2>1, <2>2, <2>3 DEF BatchOK, Alive
<1>7. DeliveriesPaid'
  <2> SUFFICES ASSUME NEW k \in Notif
               PROVE  (deliveries[k] + MayDeliver(k) <= 1 + resets[k] + faults)'
    BY DEF DeliveriesPaid
  <2>1. deliveries[k] + MayDeliver(k) <= 1 + resets[k] + faults
    BY DEF DeliveriesPaid
  <2>2. MayDeliver(k) \in {0, 1} /\ MayDeliver(k)' \in {0, 1}
    BY DEF MayDeliver
  <2>3. MayDeliver(k)' <= MayDeliver(k)
    <3>1. CASE k = current /\ outcome = "ok"
      <4>1. MayDeliver(k)' = 0
        BY <1>3, <3>1 DEF MayDeliver, Alive
      <4> QED
        BY <2>2, <4>1
    <3>2. CASE k = current /\ outcome # "ok"
      <4>1. MayDeliver(k) = 1
        BY <1>1, <3>2 DEF MayDeliver, BatchOK
      <4> QED
        BY <2>2, <4>1
    <3>3. CASE k # current
      BY <1>2, <1>4, <2>2, <3>3 DEF MayDeliver, Alive, NoNotif, Notif
    <3> QED
      BY <3>1, <3>2, <3>3
  <2> QED
    BY <1>4, <2>1, <2>2, <2>3 DEF TypeOK
<1>8. AttemptsPaid'
  <2> SUFFICES ASSUME NEW k \in Notif
               PROVE  (attempts[k] + MayAttempt(k) - Tried(k) <= Budget(k) + faults)'
    BY DEF AttemptsPaid
  <2>1. attempts[k] + MayAttempt(k) - Tried(k) <= Budget(k) + faults
    BY DEF AttemptsPaid
  <2>2. Budget(k)' = Budget(k) /\ faults' = faults /\ attempts'[k] = attempts[k]
    BY <1>4 DEF Budget
  <2>3. MayAttempt(k) \in Int /\ Budget(k) \in Nat /\ attempts[k] \in Nat /\ faults \in Nat
    BY BudgetType DEF MayAttempt, TypeOK
  <2>4. Tried(k)' = 0
    BY <1>4 DEF Tried, NoNotif, Notif
  <2>5. MayAttempt(k)' <= MayAttempt(k) - Tried(k) /\ MayAttempt(k)' \in Int
    <3>1. MayAttempt(k)' \in Int
      BY <1>1 DEF MayAttempt
    <3>2. CASE k = current
      BY <1>3, <2>3, <3>1, <3>2 DEF Tried
    <3>3. CASE k # current
      <4>1. MayAttempt(k)' = MayAttempt(k)
        BY <1>2, <3>3 DEF MayAttempt
      <4>2. Tried(k) = 0
        BY <3>3 DEF Tried
      <4> QED
        BY <2>3, <4>1, <4>2
    <3> QED
      BY <3>1, <3>2, <3>3
  <2>6. Tried(k) \in Int
    BY DEF Tried
  <2> QED
    BY <2>1, <2>2, <2>3, <2>4, <2>5, <2>6
<1> QED
  BY <1>5, <1>6, <1>7, <1>8

-----------------------------------------------------------------------------
(* Steps that pay: a fault for everything, a manual retry for one row. *)

\* A fault loses at most one attempt, and with it one delivery.
LEMMA FaultPays ==
  ASSUME IInv, faults' = faults + 1, current' = NoNotif,
         UNCHANGED <<status, count, outcome, attempts, deliveries, resets>>
  PROVE  DeliveriesPaid' /\ AttemptsPaid'
<1> USE DEF IInv
<1>1. DeliveriesPaid'
  <2> SUFFICES ASSUME NEW k \in Notif
               PROVE  (deliveries[k] + MayDeliver(k) <= 1 + resets[k] + faults)'
    BY DEF DeliveriesPaid
  <2>1. deliveries[k] + MayDeliver(k) <= 1 + resets[k] + faults
    BY DEF DeliveriesPaid
  <2> QED
    BY <2>1 DEF MayDeliver, TypeOK
<1>2. AttemptsPaid'
  <2> SUFFICES ASSUME NEW k \in Notif
               PROVE  (attempts[k] + MayAttempt(k) - Tried(k) <= Budget(k) + faults)'
    BY DEF AttemptsPaid
  <2>1. attempts[k] + MayAttempt(k) - Tried(k) <= Budget(k) + faults
    BY DEF AttemptsPaid
  <2>2. Budget(k)' = Budget(k) /\ MayAttempt(k)' = MayAttempt(k)
    BY DEF Budget, MayAttempt
  <2>3. MayAttempt(k) \in Int /\ Budget(k) \in Nat /\ attempts[k] \in Nat /\ faults \in Nat
    BY BudgetType DEF MayAttempt, TypeOK
  <2>4. Tried(k)' = 0 /\ Tried(k) \in {0, 1}
    BY DEF Tried, NoNotif, Notif
  <2> QED
    BY <2>1, <2>2, <2>3, <2>4
<1> QED
  BY <1>1, <1>2

LEMMA RecordFailsOK == ASSUME IInv, RecordFails PROVE IInv'
<1> USE DEF IInv, RecordFails, Fault, Forget, table
<1>1. TypeOK'
  BY DEF TypeOK
<1>2. BatchOK'
  BY DEF BatchOK, Alive
<1> QED
  BY <1>1, <1>2, FaultPays

LEMMA ReadFailsOK == ASSUME IInv, ReadFails PROVE IInv'
<1> USE DEF IInv, ReadFails, Handled, Fault, table
<1>1. TypeOK'
  BY DEF TypeOK
<1>2. BatchOK'
  BY DEF BatchOK, Alive
<1> QED
  BY <1>1, <1>2, FaultPays

LEMMA CrashOK == ASSUME IInv, Crash PROVE IInv'
<1> USE DEF IInv, Crash, Fault, table
<1>0. DOMAIN batch' = {}
  BY DEF NoRows
<1>1. TypeOK'
  BY <1>0 DEF TypeOK, NoNotif, NoRows
<1>2. BatchOK'
  BY <1>0 DEF BatchOK
<1> QED
  BY <1>1, <1>2, FaultPays

LEMMA ResetToPendingOK == ASSUME IInv, NEW h \in Handler, ResetToPending(h) PROVE IInv'
<1> USE DEF IInv, ResetToPending, worker
<1> DEFINE n == target[h]
<1>1. n \in Notif
  BY DEF TypeOK, Notif, NoNotif
<1>2. TypeOK'
  BY <1>1 DEF TypeOK, Statuses, NoNotif
<1>3. BatchOK'
  BY <1>1 DEF BatchOK, Alive, TypeOK, Notif
<1>4. DeliveriesPaid'
  <2> SUFFICES ASSUME NEW k \in Notif
               PROVE  (deliveries[k] + MayDeliver(k) <= 1 + resets[k] + faults)'
    BY DEF DeliveriesPaid
  <2>1. deliveries[k] + MayDeliver(k) <= 1 + resets[k] + faults
    BY DEF DeliveriesPaid
  <2>2. CASE k = n
    BY <1>1, <2>1, <2>2 DEF MayDeliver, TypeOK
  <2>3. CASE k # n
    BY <1>1, <2>1, <2>3 DEF MayDeliver, Alive, TypeOK
  <2> QED
    BY <2>2, <2>3
<1>5. AttemptsPaid'
  <2> SUFFICES ASSUME NEW k \in Notif
               PROVE  (attempts[k] + MayAttempt(k) - Tried(k) <= Budget(k) + faults)'
    BY DEF AttemptsPaid
  <2>1. attempts[k] + MayAttempt(k) - Tried(k) <= Budget(k) + faults
    BY DEF AttemptsPaid
  <2>2. /\ MayAttempt(k) \in 0..MaxRetries + 1 /\ Budget(k) \in Nat /\ Tried(k) \in {0, 1}
        /\ attempts[k] \in Nat /\ faults \in Nat /\ resets[k] \in Nat
    BY BudgetType DEF MayAttempt, TypeOK, Tried
  <2>3. Tried(k)' = Tried(k)
    BY DEF Tried
  <2>4. CASE k = n
    <3>1. MayAttempt(k)' = MaxRetries + 1
      BY <1>1, <2>4 DEF MayAttempt, TypeOK
    <3>2. Budget(k)' = Budget(k) + (MaxRetries + 1)
      BY <1>1, <2>2, <2>4 DEF Budget, TypeOK
    <3> QED
      BY <2>1, <2>2, <2>3, <3>1, <3>2
  <2>5. CASE k # n
    <3>1. MayAttempt(k)' = MayAttempt(k) /\ Budget(k)' = Budget(k)
      BY <1>1, <2>5 DEF MayAttempt, Budget, TypeOK
    <3> QED
      BY <2>1, <2>2, <2>3, <3>1
  <2> QED
    BY <2>4, <2>5
<1> QED
  BY <1>2, <1>3, <1>4, <1>5

-----------------------------------------------------------------------------
LEMMA StepOK == IInv /\ [Next]_vars => IInv'
<1> SUFFICES ASSUME IInv, [Next]_vars PROVE IInv'
  OBVIOUS
<1>1. CASE UNCHANGED vars
  <2>1. TypeOK'
    BY <1>1 DEF IInv, TypeOK, vars, table, worker, history
  <2>2. BatchOK'
    BY <1>1 DEF IInv, BatchOK, Alive, vars, table, worker, history
  <2> QED
    BY <1>1, <2>1, <2>2, Unpaid DEF IInv, vars, table, worker, history
<1> QED
  BY <1>1, SendOK, TickOK, ReadFailedOK, EndTickOK, AttemptOK, RecordOK, RecordFailsOK,
     ReadFailsOK, CrashOK, BackoffPassesOK, RetryReadOK, ResetToPendingOK
  DEF Next, WorkerStep

THEOREM Invariance == Spec => []IInv
BY InitOK, StepOK, PTL DEF Spec

\* Rows held by the worker and by manual retries exist, and retry_count never
\* exceeds max_retries.
THEOREM TypeCorrect == Spec => []TypeOK
<1>1. IInv => TypeOK
  BY DEF IInv
<1> QED
  BY Invariance, <1>1, PTL

\* However manual retries, faults and the worker interleave, and whatever the
\* batch limits, a notification is delivered once, plus once for each manual
\* retry and each fault at most.
THEOREM DeliveriesAreAccounted == Spec => []DeliveriesAccounted
<1>1. IInv => DeliveriesAccounted
  BY DEF IInv, DeliveriesPaid, DeliveriesAccounted, MayDeliver, TypeOK
<1> QED
  BY Invariance, <1>1, PTL

\* The delivery hook is called at most max_retries + 1 times for the first
\* delivery and for each manual retry, plus once for each fault.
THEOREM AttemptsAreBounded == Spec => []AttemptsBounded
<1>1. IInv => AttemptsBounded
  <2> SUFFICES ASSUME IInv, NEW n \in Notif
               PROVE  attempts[n] <= Budget(n) + faults
    BY DEF AttemptsBounded, Budget
  <2>1. attempts[n] + MayAttempt(n) - Tried(n) <= Budget(n) + faults
    BY DEF IInv, AttemptsPaid
  <2>2. MayAttempt(n) \in Nat /\ Budget(n) \in Nat /\ attempts[n] \in Nat /\ faults \in Nat
    BY BudgetType DEF IInv, MayAttempt, TypeOK
  <2>3. Tried(n) \in {0, 1} /\ Tried(n) <= MayAttempt(n)
    <3>1. CASE current = n
      <4>1. n \in DOMAIN batch /\ count[n] \in Nat
        BY <3>1 DEF IInv, TypeOK, NoNotif, Notif
      <4>2. status[n] = "pending" \/ (status[n] = "failed" /\ count[n] < MaxRetries)
        BY <4>1 DEF IInv, BatchOK, Alive, TypeOK
      <4> QED
        BY <3>1, <4>1, <4>2 DEF Tried, MayAttempt
    <3>2. CASE current # n
      <4>1. Tried(n) = 0
        BY <3>2 DEF Tried
      <4> QED
        BY <2>2, <4>1
    <3> QED
      BY <3>1, <3>2
  <2> QED
    BY <2>1, <2>2, <2>3
<1> QED
  BY Invariance, <1>1, PTL
=============================================================================
