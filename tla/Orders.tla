------------------------------- MODULE Orders -------------------------------
(***************************************************************************)
(* Order placement and the order life cycle of the LedgerMint backend:     *)
(* service/order_service.go over store/order_store.go.                     *)
(*                                                                         *)
(* One action is one SQL statement of a request handler together with the  *)
(* handler code up to the next statement, because between two statements   *)
(* any other handler may run.  A creator serves POST /orders (Create), a   *)
(* mover serves confirm, process, complete and cancel (TransitionStatus).  *)
(* PostgreSQL runs READ COMMITTED, so a statement sees what is committed   *)
(* when it starts; the rows a transaction has inserted are invisible to    *)
(* the others until it commits (variable draft).                           *)
(***************************************************************************)
EXTENDS Naturals, Sequences, FiniteSets

CONSTANTS
    User,            \* buyers and sellers
    Item,            \* collectibles
    Key,             \* client-generated Idempotency-Key values
    OrderId,         \* ids gen_random_uuid() may return
    Creator,         \* goroutines serving POST /orders
    Mover,           \* goroutines serving the status transitions
    LockKey,         \* values of hashtext(), the 32-bit advisory lock space
    LockOf,          \* LockOf[i]: the advisory lock of collectible i
    SellerOf,        \* SellerOf[i]: the seller of collectible i
    Requests,        \* the placements clients ask for
    Faults,          \* TRUE: a statement may fail, a client may go away
    SerialPerOrder,  \* TRUE: transitions of one order are never overlapped
    Calls,           \* the one-statement operations clients use
    MaxLog,          \* bound on the logged transitions of one order
    MaxCalls,        \* bound on the lasting effects of those operations
    NoOrder, NoUser, NoRequest, NoJob

ASSUME OrdersAssumption ==
    /\ LockOf \in [Item -> LockKey]
    /\ SellerOf \in [Item -> User]
    /\ Requests \subseteq [buyer : User, item : Item, key : Key]
    /\ Faults \in BOOLEAN
    /\ SerialPerOrder \in BOOLEAN
    /\ Calls \subseteq {"refund", "arbitration", "fulfillment"}
    /\ MaxLog \in Nat
    /\ MaxCalls \in Nat
    /\ NoOrder \notin OrderId
    /\ NoUser \notin User
    /\ NoRequest \notin Requests

VARIABLES
    status,       \* orders.status, "absent" before the row is committed
    placed,       \* the immutable columns of the row: buyer, item, key
    cancelledBy,  \* orders.cancelled_by
    tracking,     \* orders.fulfillment_tracking has been set
    log,          \* committed order_state_transitions rows, by created_at
    transfers,    \* collectible_tx_history rows written for the order
    spawned,      \* notifications handed to a Send goroutine
    cpc, req, draft, answer,   \* per creator
    mpc, job,                  \* per mover
    torn          \* history: orders whose transition failed after its UPDATE

tables == <<status, placed, cancelledBy, tracking, log, transfers>>
creators == <<cpc, req, draft, answer>>
movers == <<mpc, job, torn>>
vars == <<status, placed, cancelledBy, tracking, log, transfers,
          spawned, cpc, req, draft, answer, mpc, job, torn>>

-----------------------------------------------------------------------------
Status == {"pending", "confirmed", "processing", "completed", "cancelled"}
Settled == {"completed", "cancelled"}
Targets == Status \ {"pending"}

\* model.AllowedTransitions and CanTransitionTo.
AllowedTransitions ==
    [pending    |-> {"confirmed", "cancelled"},
     confirmed  |-> {"processing", "cancelled"},
     processing |-> {"completed"},
     completed  |-> {},
     cancelled  |-> {}]

\* Mutant: an order being processed can be cancelled, too.
CanTransitionWide(from, to) ==
    to \in AllowedTransitions[from] \/ (from = "processing" /\ to = "cancelled")

\* Mutant: the requested status is not checked against the current one.
CanTransitionAny(from, to) == from # to

CanTransition(from, to) == to \in AllowedTransitions[from]

\* The object-level authorization switch of TransitionStatus.
Authorized(r, to, u) ==
    \/ u = SellerOf[r.item]
    \/ to = "cancelled" /\ u = r.buyer

Exists(o) == status[o] # "absent"
Active(o) == Exists(o) /\ status[o] \notin Settled
HasActiveOrder(i) == \E o \in OrderId : Active(o) /\ placed[o].item = i
SameKey(r, s) == r.buyer = s.buyer /\ r.key = s.key
Keyed(o, r) == Exists(o) /\ SameKey(placed[o], r)

InTx == {"check", "insert", "commit"}
CreatorPc == {"idle", "lookup", "collectible", "lock"} \cup InTx
AnswerKind == {"none", "order", "oversold", "rejected", "error"}
Holds(p, l) == cpc[p] \in InTx /\ LockOf[req[p].item] = l
Slug == Targets \cup {"refund_approved", "arbitration_opened"}
Edge == [from : Status \cup {""}, to : Status]
Job == [order : OrderId, from : Status, to : Targets, by : User]

ASSUME NoJobAssumption == NoJob \notin Job

Init ==
    /\ status = [o \in OrderId |-> "absent"]
    /\ placed = [o \in OrderId |-> NoRequest]
    /\ cancelledBy = [o \in OrderId |-> NoUser]
    /\ tracking = [o \in OrderId |-> FALSE]
    /\ log = [o \in OrderId |-> << >>]
    /\ transfers = [o \in OrderId |-> 0]
    /\ spawned = {}
    /\ cpc = [p \in Creator |-> "idle"]
    /\ req = [p \in Creator |-> NoRequest]
    /\ draft = [p \in Creator |-> NoOrder]
    /\ answer = [p \in Creator |-> [kind |-> "none", order |-> NoOrder]]
    /\ mpc = [m \in Mover |-> "idle"]
    /\ job = [m \in Mover |-> NoJob]
    /\ torn = {}

-----------------------------------------------------------------------------
(* Create: the handler of POST /orders.                                    *)

\* Mutant: the handler ends without dropping the uncommitted row.
ReplyKeepingDraft(p, kind, o) ==
    /\ cpc' = [cpc EXCEPT ![p] = "idle"]
    /\ answer' = [answer EXCEPT ![p] = [kind |-> kind, order |-> o]]
    /\ UNCHANGED draft

\* Ends the handler of p; the deferred Rollback drops an uncommitted row and
\* with it the advisory lock.
Reply(p, kind, o) ==
    /\ cpc' = [cpc EXCEPT ![p] = "idle"]
    /\ draft' = [draft EXCEPT ![p] = NoOrder]
    /\ answer' = [answer EXCEPT ![p] = [kind |-> kind, order |-> o]]

Goto(p, label) == cpc' = [cpc EXCEPT ![p] = label]

Submit(p) ==
    /\ cpc[p] = "idle"
    /\ \E r \in Requests : req' = [req EXCEPT ![p] = r]
    /\ Goto(p, "lookup")
    /\ answer' = [answer EXCEPT ![p] = [kind |-> "none", order |-> NoOrder]]
    /\ UNCHANGED <<tables, spawned, draft, movers>>

\* GetByIdempotencyKey: a known key is answered with its order.
LookupKey(p) ==
    /\ cpc[p] = "lookup"
    /\ \/ \E o \in OrderId : Keyed(o, req[p]) /\ Reply(p, "order", o)
       \/ /\ \A o \in OrderId : ~Keyed(o, req[p])
          /\ Goto(p, "collectible")
          /\ UNCHANGED <<draft, answer>>
    /\ UNCHANGED <<tables, spawned, req, movers>>

\* CollectibleStore.GetByID, outside the transaction: the collectible must be
\* published and not the buyer's own.  An administrator may hide or publish it
\* at any time, so what this one read finds is open.
ReadCollectible(p) ==
    /\ cpc[p] = "collectible"
    /\ \/ /\ SellerOf[req[p].item] # req[p].buyer
          /\ Goto(p, "lock")
          /\ UNCHANGED <<draft, answer>>
       \/ Reply(p, "rejected", NoOrder)
    /\ UNCHANGED <<tables, spawned, req, movers>>

\* Mutant: the advisory lock is not exclusive.
AcquireLockShared(p) ==
    /\ cpc[p] = "lock"
    /\ Goto(p, "check")
    /\ UNCHANGED <<tables, spawned, req, draft, answer, movers>>

\* BeginTx and pg_advisory_xact_lock(hashtext(id)): waits for the transaction
\* that holds the lock of this collectible, or of one with the same hash.
AcquireLock(p) ==
    /\ cpc[p] = "lock"
    /\ \A q \in Creator : ~Holds(q, LockOf[req[p].item])
    /\ Goto(p, "check")
    /\ UNCHANGED <<tables, spawned, req, draft, answer, movers>>

\* HasActiveOrder under the lock.
CheckActive(p) ==
    /\ cpc[p] = "check"
    /\ IF HasActiveOrder(req[p].item)
         THEN Reply(p, "oversold", NoOrder)
         ELSE Goto(p, "insert") /\ UNCHANGED <<draft, answer>>
    /\ UNCHANGED <<tables, spawned, req, movers>>

\* Mutant: no unique index on (buyer_id, idempotency_key).
InsertUnindexed(p) ==
    /\ cpc[p] = "insert"
    /\ \E o \in OrderId :
         /\ ~Exists(o)
         /\ \A q \in Creator : draft[q] # o
         /\ draft' = [draft EXCEPT ![p] = o]
    /\ Goto(p, "commit")
    /\ UNCHANGED <<tables, spawned, req, answer, movers>>

\* CreateInTx and RecordTransitionInTx, invisible until commit.  The unique
\* index on (buyer_id, idempotency_key) makes the INSERT wait for a concurrent
\* transaction that inserted the same key, and fail on a committed one.
Insert(p) ==
    /\ cpc[p] = "insert"
    /\ \A q \in Creator : cpc[q] = "commit" => ~SameKey(req[q], req[p])
    /\ \/ /\ \E o \in OrderId : Keyed(o, req[p])
          /\ Reply(p, "error", NoOrder)
       \/ /\ \A o \in OrderId : ~Keyed(o, req[p])
          /\ \E o \in OrderId :
               /\ ~Exists(o)
               /\ \A q \in Creator : draft[q] # o
               /\ draft' = [draft EXCEPT ![p] = o]
          /\ Goto(p, "commit")
          /\ UNCHANGED answer
    /\ UNCHANGED <<tables, spawned, req, movers>>

\* The commit makes the order and its first log row visible and releases the
\* lock.  Under Faults the answer may be lost although the commit took effect.
Commit(p) ==
    /\ cpc[p] = "commit"
    /\ LET o == draft[p] IN
         /\ status' = [status EXCEPT ![o] = "pending"]
         /\ placed' = [placed EXCEPT ![o] = req[p]]
         /\ log' = [log EXCEPT ![o] = <<[from |-> "", to |-> "pending"]>>]
         /\ \/ Reply(p, "order", o)
            \/ Faults /\ Reply(p, "error", NoOrder)
    /\ UNCHANGED <<cancelledBy, tracking, transfers, spawned, req, movers>>

\* Any statement before the commit fails, or the client goes away: rollback.
CreateFails(p) ==
    /\ Faults
    /\ cpc[p] # "idle"
    /\ Reply(p, "error", NoOrder)
    /\ UNCHANGED <<tables, spawned, req, movers>>

-----------------------------------------------------------------------------
(* TransitionStatus: the handler of confirm, process, complete, cancel.    *)

Free(m) ==
    /\ mpc' = [mpc EXCEPT ![m] = "idle"]
    /\ job' = [job EXCEPT ![m] = NoJob]

Notify(o, slug) == spawned' = spawned \cup {<<o, slug>>}

\* GetByID, authorization and CanTransitionTo on the status just read; a
\* refused request ends here and changes nothing.
Load(m) ==
    /\ mpc[m] = "idle"
    /\ \E o \in OrderId, to \in Targets, u \in User :
         /\ Exists(o)
         /\ Len(log[o]) < MaxLog
         /\ SerialPerOrder => \A n \in Mover : mpc[n] # "idle" => job[n].order # o
         /\ Authorized(placed[o], to, u)
         /\ CanTransition(status[o], to)
         /\ job' = [job EXCEPT ![m] =
                      [order |-> o, from |-> status[o], to |-> to, by |-> u]]
    /\ mpc' = [mpc EXCEPT ![m] = "write"]
    /\ UNCHANGED <<tables, spawned, creators, torn>>

\* UpdateStatus, or Cancel with its reason and cancelled_by.  Neither UPDATE
\* looks at the status it replaces.
WriteStatus(m) ==
    /\ mpc[m] = "write"
    /\ LET j == job[m] IN
         /\ status' = [status EXCEPT ![j.order] = j.to]
         /\ cancelledBy' = IF j.to = "cancelled"
                             THEN [cancelledBy EXCEPT ![j.order] = j.by]
                             ELSE cancelledBy
    /\ mpc' = [mpc EXCEPT ![m] = "record"]
    /\ UNCHANGED <<placed, tracking, log, transfers, spawned, creators, job, torn>>

\* Mutant: the handler returns after the UPDATE.
RecordTransitionSkipped(m) ==
    /\ mpc[m] = "record"
    /\ Free(m)
    /\ UNCHANGED <<tables, spawned, creators, torn>>

\* RecordTransition, a statement of its own, logging the status that was read.
RecordTransition(m) ==
    /\ mpc[m] = "record"
    /\ LET j == job[m] IN
         /\ log' = [log EXCEPT ![j.order] = Append(@, [from |-> j.from, to |-> j.to])]
         /\ IF j.to = "completed"
              THEN mpc' = [mpc EXCEPT ![m] = "transfer"] /\ UNCHANGED <<job, spawned>>
              ELSE Free(m) /\ Notify(j.order, j.to)
    /\ UNCHANGED <<status, placed, cancelledBy, tracking, transfers, creators, torn>>

\* recordOwnershipTransfer is best effort: its failure is swallowed and the
\* notification still goes out.
RecordTransfer(m) ==
    /\ mpc[m] = "transfer"
    /\ LET o == job[m].order IN
         /\ \/ transfers' = [transfers EXCEPT ![o] = @ + 1]
            \/ Faults /\ UNCHANGED transfers
         /\ Notify(o, "completed")
    /\ Free(m)
    /\ UNCHANGED <<status, placed, cancelledBy, tracking, log, creators, torn>>

\* A failed statement ends the handler where it stands: there is no
\* transaction to undo what was already written.  A crash is this step taken
\* by every handler in flight, the last statement included.
MoveFails(m) ==
    /\ Faults
    /\ mpc[m] # "idle"
    /\ torn' = IF mpc[m] = "write" THEN torn ELSE torn \cup {job[m].order}
    /\ Free(m)
    /\ UNCHANGED <<tables, spawned, creators>>

-----------------------------------------------------------------------------
(* The one-statement operations.                                           *)

Effects ==
    {o \in OrderId : tracking[o]}
    \cup {n \in spawned : n[2] \in {"refund_approved", "arbitration_opened"}}

Asked(o, call) ==
    /\ call \in Calls
    /\ Exists(o)
    /\ Cardinality(Effects) < MaxCalls

\* Mutant: a refund is approved at any status.
ApproveRefundEarly(o) ==
    /\ Asked(o, "refund")
    /\ Notify(o, "refund_approved")
    /\ UNCHANGED <<tables, creators, movers>>

\* ApproveRefund: by the seller, on a settled order; nothing is persisted.
ApproveRefund(o) ==
    /\ Asked(o, "refund")
    /\ status[o] \in Settled
    /\ Notify(o, "refund_approved")
    /\ UNCHANGED <<tables, creators, movers>>

\* OpenArbitration: by either party, at any status.
OpenArbitration(o) ==
    /\ Asked(o, "arbitration")
    /\ Notify(o, "arbitration_opened")
    /\ UNCHANGED <<tables, creators, movers>>

\* UpdateFulfillment: by the seller, at any status.
UpdateFulfillment(o) ==
    /\ Asked(o, "fulfillment")
    /\ tracking' = [tracking EXCEPT ![o] = TRUE]
    /\ UNCHANGED <<status, placed, cancelledBy, log, transfers,
                   spawned, creators, movers>>

-----------------------------------------------------------------------------
CreatorStep(p) ==
    \/ LookupKey(p)
    \/ ReadCollectible(p)
    \/ AcquireLock(p)
    \/ CheckActive(p)
    \/ Insert(p)
    \/ Commit(p)

MoverStep(m) ==
    \/ WriteStatus(m)
    \/ RecordTransition(m)
    \/ RecordTransfer(m)

Next ==
    \/ \E p \in Creator : Submit(p) \/ CreatorStep(p) \/ CreateFails(p)
    \/ \E m \in Mover : Load(m) \/ MoverStep(m) \/ MoveFails(m)
    \/ \E o \in OrderId :
         ApproveRefund(o) \/ OpenArbitration(o) \/ UpdateFulfillment(o)

Spec == Init /\ [][Next]_vars

-----------------------------------------------------------------------------
(* What the handlers promise.                                              *)

\* Types of the tables and of the handlers' local variables; a creator holds a
\* draft exactly between its INSERT and its commit.
TypeOK ==
    /\ status \in [OrderId -> Status \cup {"absent"}]
    /\ placed \in [OrderId -> Requests \cup {NoRequest}]
    /\ cancelledBy \in [OrderId -> User \cup {NoUser}]
    /\ tracking \in [OrderId -> BOOLEAN]
    /\ log \in [OrderId -> Seq(Edge)]
    /\ transfers \in [OrderId -> Nat]
    /\ spawned \subseteq OrderId \X Slug
    /\ cpc \in [Creator -> CreatorPc]
    /\ req \in [Creator -> Requests \cup {NoRequest}]
    /\ draft \in [Creator -> OrderId \cup {NoOrder}]
    /\ answer \in [Creator -> [kind : AnswerKind, order : OrderId \cup {NoOrder}]]
    /\ mpc \in [Mover -> {"idle", "write", "record", "transfer"}]
    /\ job \in [Mover -> Job \cup {NoJob}]
    /\ torn \subseteq OrderId
    /\ \A p \in Creator : cpc[p] = "commit" <=> draft[p] # NoOrder
    /\ \A m \in Mover : mpc[m] = "idle" <=> job[m] = NoJob

\* Two placements with one (buyer, key) never leave two rows behind, whatever
\* collectibles they name and however their transactions overlap, and every
\* success answer names that one row (Create 27-34, uq_orders_buyer_idempotency).
OneOrderPerKey ==
    /\ \A o, n \in OrderId : Exists(o) /\ Keyed(n, placed[o]) => n = o
    /\ \A p \in Creator : answer[p].kind = "order" => Keyed(answer[p].order, req[p])

\* The check under the advisory lock prevents overselling: a collectible never
\* has two orders that are neither cancelled nor completed (Create 60-73).
SingleActiveOrder ==
    \A o, n \in OrderId :
        Active(o) /\ Active(n) /\ placed[o].item = placed[n].item => o = n

\* Placement and life cycle together are atomic steps of the abstract book
\* although each takes several statements (Create 60-101, TransitionStatus).
Book == INSTANCE OrderBook WITH status <- status, placed <- placed
ImplementsBook == Book!Spec

\* No order leaves the same status twice, so it is announced, cancelled and
\* transferred at most once; a transfer is written for completed orders only.
NothingDoneTwice ==
    \A o \in OrderId :
        /\ \A j, k \in 1..Len(log[o]) : log[o][j].from = log[o][k].from => j = k
        /\ transfers[o] <= IF status[o] = "completed" THEN 1 ELSE 0

\* cancelled_by names somebody exactly on cancelled orders, and a refund is
\* announced for orders that are settled and stay so (ApproveRefund 219-222).
SettlementIsFinal ==
    \A o \in OrderId :
        /\ cancelledBy[o] # NoUser <=> status[o] = "cancelled"
        /\ <<o, "refund_approved">> \in spawned => status[o] \in Settled

\* The log of an order is a legal history: it starts with the placement, every
\* row is an allowed transition, and nobody is told of a status that was not
\* logged.  It holds however requests race.
LogIsLegal ==
    \A o \in OrderId :
        /\ Exists(o) <=> log[o] # << >>
        /\ \A k \in 1..Len(log[o]) :
              IF k = 1 THEN log[o][k] = [from |-> "", to |-> "pending"]
                       ELSE <<log[o][k].from, log[o][k].to>> \in Book!Arrows
        /\ \A t \in Targets :
              <<o, t>> \in spawned => \E k \in 1..Len(log[o]) : log[o][k].to = t

\* Once no handler is at work on an order none of whose transitions failed after
\* its UPDATE, its log is the chain of statuses it went through and ends in the
\* status it has, and every one of them has been announced, whatever failed of
\* other requests, before the UPDATE, or of the transfer (TransitionStatus 163-200,
\* recordOwnershipTransfer 331-343).
LogTellsStatus ==
    \A o \in OrderId :
        /\ Exists(o)
        /\ o \notin torn
        /\ \A m \in Mover : mpc[m] # "idle" => job[m].order # o
        => /\ log[o][Len(log[o])].to = status[o]
           /\ \A k \in 2..Len(log[o]) :
                /\ log[o][k].from = log[o][k - 1].to
                /\ <<o, log[o][k].to>> \in spawned

\* A retry with a key whose order is committed is not told "oversold" because
\* of that very order.
ReplayIsNotOversold ==
    [][\A p \in Creator :
          answer'[p].kind = "oversold" /\ answer[p].kind # "oversold" =>
             \A o \in OrderId : ~Keyed(o, req[p])]_vars
=============================================================================
