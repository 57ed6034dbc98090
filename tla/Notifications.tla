--------------------------- MODULE Notifications ----------------------------
(***************************************************************************)
(* Delivery of notifications.  Send stores a pending row; a single worker  *)
(* reads a batch of pending rows and then a batch of failed rows whose     *)
(* backoff has passed, and for each row of a batch first attempts delivery *)
(* and then overwrites the row.  Nothing claims a row: until it is         *)
(* overwritten the owner may reset it with a manual retry, and a crash or  *)
(* a failed UPDATE leaves it as it was.                                    *)
(*                                                                         *)
(* Notifications are numbered in the order of created_at.                  *)
(***************************************************************************)
EXTENDS Integers, FiniteSets

CONSTANTS
    N,             \* bound: notifications ever sent
    Handler,       \* goroutines serving POST /notifications/:id/retry
    MaxRetries,    \* notifications.max_retries (3 by default)
    PendingLimit, FailedLimit,   \* sizes of the two batches (100 and 50)
    MaxResets,     \* bound: manual retries of one notification
    MaxFaults      \* bound: crashes and failed statements

Notif == 1..N

ASSUME NotificationsAssumption ==
    /\ N \in Nat
    /\ MaxRetries \in Nat \ {0}
    /\ PendingLimit \in Nat \ {0} /\ FailedLimit \in Nat \ {0}
    /\ MaxResets \in Nat
    /\ MaxFaults \in Nat

NoNotif == 0    \* no notification
NoRows == [n \in {} |-> 0]

VARIABLES
    sent,        \* notifications 1..sent exist
    status,      \* notifications.status
    count,       \* notifications.retry_count
    due,         \* next_retry_at is NULL or has passed
    phase,       \* what the worker is doing with its batch
    batch,       \* rows of the current batch not handled yet, with their retry_count
    current,     \* the row whose delivery has been attempted but not recorded
    outcome,     \* "ok" or "error": how that attempt ended
    target,      \* the row each manual retry has found failed
    \* History variables: what happened to each notification.
    attempts, deliveries, resets, owed, faults

table == <<sent, status, count, due>>
worker == <<phase, batch, current, outcome>>
history == <<attempts, deliveries, resets, owed, faults>>
vars == <<table, worker, target, history>>

Statuses == {"pending", "failed", "delivered", "permanently_failed"}

\* What a manual retry accepts.
Failed == {"failed", "permanently_failed"}

Init ==
    /\ sent = 0
    /\ status = [n \in Notif |-> "pending"]
    /\ count = [n \in Notif |-> 0]
    /\ due = [n \in Notif |-> TRUE]
    /\ phase = "idle" /\ batch = NoRows /\ current = NoNotif /\ outcome = "error"
    /\ target = [h \in Handler |-> NoNotif]
    /\ attempts = [n \in Notif |-> 0]
    /\ deliveries = [n \in Notif |-> 0]
    /\ resets = [n \in Notif |-> 0]
    /\ owed = {}
    /\ faults = 0

Fault == faults < MaxFaults /\ faults' = faults + 1

\* Send, once preferences, subscription mode and template let the event through.
Send ==
    /\ sent < N
    /\ sent' = sent + 1
    /\ UNCHANGED <<status, count, due, worker, target, history>>

-----------------------------------------------------------------------------
(* The worker (NotificationRetryJobWithDelivery). *)

Exists(n) == n <= sent

\* Mutant: rows that were retried before are left to the other query.
PendingFirstTime == {n \in Notif : Exists(n) /\ status[n] = "pending" /\ count[n] = 0}

Pending == {n \in Notif : Exists(n) /\ status[n] = "pending"}

\* Mutant: rows that have used up their retries are read as well.
RetryableWide == {n \in Notif : Exists(n) /\ status[n] \in Failed /\ due[n]}

Retryable ==
    {n \in Notif : Exists(n) /\ status[n] = "failed" /\ count[n] < MaxRetries /\ due[n]}

Snapshot(rows) == batch' = [n \in rows |-> count[n]]

Size(rows, limit) == IF Cardinality(rows) < limit THEN Cardinality(rows) ELSE limit

\* The oldest rows first.
GetPendingForDelivery ==
    \E rows \in SUBSET Pending :
        /\ Cardinality(rows) = Size(Pending, PendingLimit)
        /\ \A n \in rows, m \in Pending \ rows : n < m
        /\ Snapshot(rows)

\* No ORDER BY: any rows, up to the limit.
GetFailedForRetry ==
    \E rows \in SUBSET Retryable :
        /\ Cardinality(rows) = Size(Retryable, FailedLimit)
        /\ Snapshot(rows)

Tick ==
    /\ phase = "idle"
    /\ GetPendingForDelivery
    /\ phase' = "pending"
    /\ UNCHANGED <<table, current, outcome, target, history>>

Handled == DOMAIN batch = {} /\ current = NoNotif

ReadFailed ==
    /\ phase = "pending" /\ Handled
    /\ GetFailedForRetry
    /\ phase' = "failed"
    /\ UNCHANGED <<table, current, outcome, target, history>>

EndTick ==
    /\ phase = "failed" /\ Handled
    /\ phase' = "idle"
    /\ UNCHANGED <<table, batch, current, outcome, target, history>>

\* deliver(title, body), which the code calls before it writes anything.
Attempt ==
    /\ current = NoNotif
    /\ \E n \in DOMAIN batch :
        /\ phase = "pending" => \A m \in DOMAIN batch : n <= m
        /\ current' = n
        /\ attempts' = [attempts EXCEPT ![n] = @ + 1]
        /\ owed' = owed \ {n}
        /\ \E result \in {"ok", "error"} :
            /\ outcome' = result
            /\ deliveries' = [deliveries EXCEPT ![n] = IF result = "ok" THEN @ + 1 ELSE @]
    /\ UNCHANGED <<table, phase, batch, target, resets, faults>>

Forget ==
    /\ batch' = [n \in DOMAIN batch \ {current} |-> batch[n]]
    /\ current' = NoNotif

UpdateRetryState(n, newStatus, newCount, newDue) ==
    /\ status' = [status EXCEPT ![n] = newStatus]
    /\ count' = [count EXCEPT ![n] = newCount]
    /\ due' = [due EXCEPT ![n] = newDue]

\* Mutant: an off-by-one in the test for the last retry.
RecordRetryOffByOne ==
    /\ phase = "failed"
    /\ LET newCount == batch[current] + 1 IN
       \/ outcome = "ok" /\ UpdateRetryState(current, "delivered", newCount, TRUE)
       \/ outcome = "error" /\ newCount > MaxRetries /\ UpdateRetryState(current, "permanently_failed", newCount, TRUE)
       \/ outcome = "error" /\ newCount <= MaxRetries /\ UpdateRetryState(current, "failed", newCount, FALSE)

\* Mutant: the retry path leaves retry_count alone.
RecordRetryUncounted ==
    /\ phase = "failed"
    /\ \/ outcome = "ok" /\ UpdateRetryState(current, "delivered", batch[current], TRUE)
       \/ outcome = "error" /\ UpdateRetryState(current, "failed", batch[current], FALSE)

\* Mutant: the outcome of a delivery is forgotten.
RecordFirstLost ==
    /\ phase = "pending"
    /\ UpdateRetryState(current, "failed", 0, FALSE)

\* The first delivery of a pending row.
RecordFirst ==
    /\ phase = "pending"
    /\ \/ outcome = "ok" /\ UpdateRetryState(current, "delivered", 0, TRUE)
       \/ outcome = "error" /\ UpdateRetryState(current, "failed", 0, FALSE)

\* A retry, from the count read with the batch.
RecordRetry ==
    /\ phase = "failed"
    /\ LET newCount == batch[current] + 1 IN
       \/ outcome = "ok" /\ UpdateRetryState(current, "delivered", newCount, TRUE)
       \/ outcome = "error" /\ newCount >= MaxRetries /\ UpdateRetryState(current, "permanently_failed", newCount, TRUE)
       \/ outcome = "error" /\ newCount < MaxRetries /\ UpdateRetryState(current, "failed", newCount, FALSE)

Record ==
    /\ current # NoNotif
    /\ RecordFirst \/ RecordRetry
    /\ Forget
    /\ UNCHANGED <<sent, phase, outcome, target, history>>

\* The UPDATE fails: the error is logged and the next row handled.
RecordFails ==
    /\ current # NoNotif
    /\ Fault
    /\ Forget
    /\ UNCHANGED <<table, phase, outcome, target, attempts, deliveries, resets, owed>>

\* The query for failed rows fails and ends the tick.
ReadFails ==
    /\ phase = "pending" /\ Handled
    /\ Fault
    /\ phase' = "idle"
    /\ UNCHANGED <<table, batch, current, outcome, target, attempts, deliveries, resets, owed>>

\* The backoff of a failed row passes.
BackoffPasses(n) ==
    /\ ~due[n]
    /\ due' = [due EXCEPT ![n] = TRUE]
    /\ UNCHANGED <<sent, status, count, worker, target, history>>

\* The process restarts: the batch and the requests are gone.
Crash ==
    /\ Fault
    /\ phase' = "idle" /\ batch' = NoRows /\ current' = NoNotif
    /\ target' = [h \in Handler |-> NoNotif]
    /\ UNCHANGED <<table, outcome, attempts, deliveries, resets, owed>>

-----------------------------------------------------------------------------
(* Manual retry (NotificationService.Retry): read, check, overwrite. *)

Retrying(n) == {h \in Handler : target[h] = n}

RetryRead(h) ==
    /\ target[h] = NoNotif
    /\ \E n \in Notif :
        /\ Exists(n)
        /\ status[n] \in Failed
        /\ resets[n] + Cardinality(Retrying(n)) < MaxResets
        /\ target' = [target EXCEPT ![h] = n]
    /\ UNCHANGED <<table, worker, history>>

ResetToPending(h) ==
    /\ target[h] # NoNotif
    /\ status' = [status EXCEPT ![target[h]] = "pending"]
    /\ due' = [due EXCEPT ![target[h]] = TRUE]
    /\ resets' = [resets EXCEPT ![target[h]] = @ + 1]
    /\ owed' = owed \cup {target[h]}
    /\ target' = [target EXCEPT ![h] = NoNotif]
    /\ UNCHANGED <<sent, count, worker, attempts, deliveries, faults>>

-----------------------------------------------------------------------------
WorkerStep == Tick \/ ReadFailed \/ EndTick \/ Attempt \/ Record

Next ==
    \/ Send
    \/ WorkerStep \/ RecordFails \/ ReadFails \/ Crash
    \/ \E n \in Notif : BackoffPasses(n)
    \/ \E h \in Handler : RetryRead(h) \/ ResetToPending(h)

Spec == Init /\ [][Next]_vars

\* The ticker fires every minute, time passes, and requests go on.
LiveSpec ==
    /\ Spec
    /\ WF_vars(WorkerStep)
    /\ \A n \in Notif : WF_vars(BackoffPasses(n))
    /\ \A h \in Handler : WF_vars(ResetToPending(h))

-----------------------------------------------------------------------------
\* Types; the worker and the manual retries only hold rows that exist, and
\* retry_count never exceeds max_retries.
TypeOK ==
    /\ sent \in 0..N
    /\ status \in [Notif -> Statuses]
    /\ count \in [Notif -> 0..MaxRetries]
    /\ due \in [Notif -> BOOLEAN]
    /\ phase \in {"idle", "pending", "failed"}
    /\ DOMAIN batch \subseteq 1..sent
    /\ batch \in [DOMAIN batch -> 0..MaxRetries]
    /\ current \in DOMAIN batch \cup {NoNotif}
    /\ outcome \in {"ok", "error"}
    /\ target \in [Handler -> 0..sent]
    /\ attempts \in [Notif -> Nat] /\ deliveries \in [Notif -> Nat]
    /\ resets \in [Notif -> Nat]
    /\ owed \subseteq Notif
    /\ faults \in 0..MaxFaults

\* A notification reaches its owner once, and once more only for a manual retry,
\* a crash or a failed UPDATE: the worker's two batches never deliver one twice
\* (NotificationRetryJobWithDelivery 27-90).
DeliveriesAccounted == \A n \in Notif : deliveries[n] <= 1 + resets[n] + faults

\* The delivery hook is called at most max_retries + 1 times for the first
\* delivery and for each manual retry (notification_retry.go 56-89).
AttemptsBounded ==
    \A n \in Notif : attempts[n] <= (MaxRetries + 1) * (resets[n] + 1) + faults

\* Every notification ends, and stays, delivered or given up, if the owner and
\* the faults leave it alone from some time on (LIMITs, backoff, last retry).
Settles ==
    \A n \in Notif : n <= sent ~> status[n] \in {"delivered", "permanently_failed"}

\* A manual retry that the worker does not overwrite with the batch it already
\* has is attempted, whatever retry_count the row kept (Retry 115-130,
\* store GetPendingForDelivery 150-172).
PendingRetryIsPickedUp ==
    \A n \in Notif :
        n \in owed /\ status[n] = "pending" /\ n \notin DOMAIN batch ~> n \notin owed
=============================================================================
