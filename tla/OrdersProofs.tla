---------------------------- MODULE OrdersProofs ----------------------------
(***************************************************************************)
(* Proofs about Orders.  Under the environment assumption SerialPerOrder   *)
(* (the transitions of one order are never overlapped) the order service   *)
(* implements OrderBook, for every number of handlers, collectibles, lock  *)
(* collisions and faults.  What does not need the assumption is proved     *)
(* without it, and so is what it can be weakened to: that no transition    *)
(* overwrites a status other than the one it has read (FreshWrites), or a  *)
(* final one (NothingRevived).                                             *)
(***************************************************************************)
EXTENDS Orders, TLAPS

\* The handlers' local variables are in step with their control state.
LocalOK ==
    /\ cpc \in [Creator -> CreatorPc]
    /\ req \in [Creator -> Requests \cup {NoRequest}]
    /\ draft \in [Creator -> OrderId \cup {NoOrder}]
    /\ \A p \in Creator : cpc[p] # "idle" => req[p] \in Requests
    /\ \A p \in Creator : cpc[p] = "commit" <=> draft[p] # NoOrder

\* The committed order rows.
RowsOK ==
    /\ status \in [OrderId -> Status \cup {"absent"}]
    /\ placed \in [OrderId -> Requests \cup {NoRequest}]
    /\ \A o \in OrderId : Exists(o) => placed[o] \in Requests

\* The advisory lock: transactions on one lock exclude each other.
LockOK ==
    \A p, q \in Creator :
        /\ cpc[p] \in InTx
        /\ cpc[q] \in InTx
        /\ LockOf[req[p].item] = LockOf[req[q].item]
        => p = q

\* An uncommitted row has an id and a key of its own.
DraftOK ==
    /\ \A p \in Creator : cpc[p] = "commit" =>
         /\ status[draft[p]] = "absent"
         /\ \A o \in OrderId : ~Keyed(o, req[p])
    /\ \A p, q \in Creator :
         cpc[p] = "commit" /\ cpc[q] = "commit"
         /\ (draft[p] = draft[q] \/ SameKey(req[p], req[q])) => p = q

PlaceInv == LocalOK /\ RowsOK /\ LockOK /\ DraftOK

\* A mover works from a state it read and may leave.
JobsOK ==
    /\ mpc \in [Mover -> {"idle", "write", "record", "transfer"}]
    /\ job \in [Mover -> Job \cup {NoJob}]
    /\ \A m \in Mover : mpc[m] # "idle" =>
         /\ job[m] \in Job
         /\ Exists(job[m].order)
         /\ CanTransition(job[m].from, job[m].to)

\* Without overlap nobody else changes the status a mover has read.
SerialOK ==
    /\ \A m, n \in Mover :
         mpc[m] # "idle" /\ mpc[n] # "idle" /\ job[m].order = job[n].order => m = n
    /\ \A m \in Mover :
         mpc[m] = "write" => status[job[m].order] = job[m].from

\* What a creator found free under the lock is still free when it commits.
CheckOK ==
    \A p \in Creator : cpc[p] \in {"insert", "commit"} =>
        \A o \in OrderId : Active(o) => placed[o].item # req[p].item

\* Keys are unique among the committed rows, and answers name such rows.
KeysOK ==
    /\ answer \in [Creator -> [kind : AnswerKind, order : OrderId \cup {NoOrder}]]
    /\ \A p \in Creator : answer[p].kind = "order" => answer[p].order \in OrderId
    /\ OneOrderPerKey

CoreInv == PlaceInv /\ JobsOK /\ CheckOK
IInv == CoreInv /\ SerialOK

\* What a mover overwrites is the status it read; or, which is less, no status
\* that is final.  The code ensures neither when transitions overlap.
FreshWrites == \A m \in Mover : WriteStatus(m) => status[job[m].order] = job[m].from
NothingRevived == \A m \in Mover : WriteStatus(m) => status[job[m].order] \notin Settled

-----------------------------------------------------------------------------
LEMMA InitPlace == Init => PlaceInv
  BY DEF Init, PlaceInv, LocalOK, RowsOK, LockOK, DraftOK, Exists, CreatorPc, InTx

\* What a commit writes, whether or not its answer reaches the client.
LEMMA CommitEffect ==
  ASSUME NEW p \in Creator, Commit(p)
  PROVE  /\ status' = [status EXCEPT ![draft[p]] = "pending"]
         /\ placed' = [placed EXCEPT ![draft[p]] = req[p]]
         /\ cpc' = [cpc EXCEPT ![p] = "idle"]
         /\ draft' = [draft EXCEPT ![p] = NoOrder]
         /\ UNCHANGED <<req, movers>>
  BY DEF Commit, Reply

\* The placement invariant needs no assumption about the movers but that they
\* write real statuses.
LEMMA NextPlace ==
  ASSUME PlaceInv, JobsOK, [Next]_vars
  PROVE  PlaceInv'
<1> USE OrdersAssumption DEF PlaceInv, LocalOK, RowsOK, LockOK, DraftOK, CreatorPc, InTx,
        Exists, Keyed, SameKey, Reply, Goto, tables, movers, creators
<1>1. ASSUME NEW p \in Creator, Submit(p) PROVE PlaceInv'
  BY <1>1 DEF Submit
<1>2. ASSUME NEW p \in Creator, LookupKey(p) PROVE PlaceInv'
  BY <1>2 DEF LookupKey
<1>3. ASSUME NEW p \in Creator, ReadCollectible(p) PROVE PlaceInv'
  BY <1>3 DEF ReadCollectible
<1>4. ASSUME NEW p \in Creator, AcquireLock(p) PROVE PlaceInv'
  BY <1>4 DEF AcquireLock, Holds
<1>5. ASSUME NEW p \in Creator, CheckActive(p) PROVE PlaceInv'
  BY <1>5 DEF CheckActive
<1>6. ASSUME NEW p \in Creator, Insert(p) PROVE PlaceInv'
  <2>1. /\ cpc[p] = "insert"
        /\ UNCHANGED <<status, placed, req>>
    BY <1>6 DEF Insert
  <2>2. CASE /\ cpc' = [cpc EXCEPT ![p] = "idle"]
             /\ draft' = [draft EXCEPT ![p] = NoOrder]
    <3>1. LocalOK' /\ RowsOK'
      BY <2>1, <2>2
    <3>2. LockOK'
      BY <2>1, <2>2
    <3>3. DraftOK'
      BY <2>1, <2>2
    <3> QED
      BY <3>1, <3>2, <3>3
  <2>3. ASSUME NEW o \in OrderId, ~Exists(o), \A q \in Creator : draft[q] # o,
               \A q \in Creator : cpc[q] = "commit" => ~SameKey(req[q], req[p]),
               \A x \in OrderId : ~Keyed(x, req[p]),
               cpc' = [cpc EXCEPT ![p] = "commit"],
               draft' = [draft EXCEPT ![p] = o]
        PROVE  PlaceInv'
    <3>1. LocalOK' /\ RowsOK'
      BY <2>1, <2>3
    <3>2. LockOK'
      BY <2>1, <2>3
    <3>3. DraftOK'
      BY <2>1, <2>3
    <3> QED
      BY <3>1, <3>2, <3>3
  <2> QED
    BY <1>6, <2>2, <2>3 DEF Insert
<1>7. ASSUME NEW p \in Creator, Commit(p) PROVE PlaceInv'
  <2>1. /\ draft[p] \in OrderId
        /\ cpc[p] = "commit"
        /\ req[p] \in Requests
    <3>1. cpc[p] = "commit"
      BY <1>7 DEF Commit
    <3>2. QED
      BY <3>1
  <2>2. /\ status' = [status EXCEPT ![draft[p]] = "pending"]
        /\ placed' = [placed EXCEPT ![draft[p]] = req[p]]
        /\ cpc' = [cpc EXCEPT ![p] = "idle"]
        /\ draft' = [draft EXCEPT ![p] = NoOrder]
        /\ req' = req
    BY <1>7, CommitEffect
  <2>3. LocalOK'
    BY <2>1, <2>2
  <2>4. RowsOK'
    BY <2>1, <2>2 DEF Status
  <2>5. LockOK'
    BY <2>1, <2>2
  <2>6. ASSUME NEW q \in Creator, cpc'[q] = "commit"
        PROVE  /\ status'[draft'[q]] = "absent"
               /\ \A o \in OrderId : ~Keyed(o, req[q])'
    <3>1. /\ q # p
          /\ cpc[q] = "commit"
          /\ draft'[q] = draft[q]
          /\ draft[q] \in OrderId
      BY <2>1, <2>2, <2>6
    <3>2. draft[q] # draft[p] /\ ~SameKey(req[p], req[q])
      BY <2>1, <3>1
    <3>3. QED
      BY <2>1, <2>2, <3>1, <3>2
  <2>7. DraftOK'
    BY <2>1, <2>2, <2>6
  <2> QED
    BY <2>3, <2>4, <2>5, <2>7
<1>8. ASSUME NEW p \in Creator, CreateFails(p) PROVE PlaceInv'
  BY <1>8 DEF CreateFails
<1>9. ASSUME NEW m \in Mover, WriteStatus(m) PROVE PlaceInv'
  BY <1>9 DEF WriteStatus, JobsOK, Job, Targets, Status
<1>10. ASSUME NEW m \in Mover, Load(m) \/ RecordTransition(m) \/ RecordTransfer(m) \/ MoveFails(m)
       PROVE  PlaceInv'
  <2>1. UNCHANGED <<status, placed, cpc, req, draft>>
    BY <1>10 DEF Load, RecordTransition, RecordTransfer, MoveFails
  <2> QED
    BY <2>1
<1>11. ASSUME NEW o \in OrderId, ApproveRefund(o) \/ OpenArbitration(o) \/ UpdateFulfillment(o)
       PROVE  PlaceInv'
  BY <1>11 DEF ApproveRefund, OpenArbitration, UpdateFulfillment, Asked
<1>12. CASE UNCHANGED vars
  BY <1>12 DEF vars
<1> QED
  BY <1>1, <1>2, <1>3, <1>4, <1>5, <1>6, <1>7, <1>8, <1>9, <1>10, <1>11, <1>12
  DEF Next, CreatorStep, MoverStep

LEMMA InitJobs == Init => JobsOK /\ SerialOK /\ CheckOK
  BY DEF Init, JobsOK, SerialOK, CheckOK

\* What a mover's UPDATE writes.
LEMMA WriteEffect ==
  ASSUME NEW m \in Mover, WriteStatus(m)
  PROVE  /\ mpc[m] = "write"
         /\ status' = [status EXCEPT ![job[m].order] = job[m].to]
         /\ mpc' = [mpc EXCEPT ![m] = "record"]
         /\ UNCHANGED <<placed, creators, job>>
  BY DEF WriteStatus

\* The jobs keep naming existing orders and legal steps, racing or not.
LEMMA NextJobs ==
  ASSUME PlaceInv, JobsOK, [Next]_vars
  PROVE  JobsOK'
<1> USE OrdersAssumption DEF JobsOK, Exists
<1>0. /\ draft \in [Creator -> OrderId \cup {NoOrder}]
      /\ status \in [OrderId -> Status \cup {"absent"}]
  BY DEF PlaceInv, LocalOK, RowsOK
<1>1. ASSUME NEW p \in Creator,
             Submit(p) \/ LookupKey(p) \/ ReadCollectible(p) \/ AcquireLock(p)
               \/ CheckActive(p) \/ Insert(p) \/ CreateFails(p)
      PROVE  JobsOK'
  BY <1>1 DEF Submit, LookupKey, ReadCollectible, AcquireLock, CheckActive, Insert,
              CreateFails, tables, movers
<1>2. ASSUME NEW p \in Creator, Commit(p) PROVE JobsOK'
  BY <1>0, <1>2, CommitEffect DEF movers, Job
<1>3. ASSUME NEW m \in Mover, Load(m) PROVE JobsOK'
  BY <1>0, <1>3 DEF Load, tables, Job, Status
<1>4. ASSUME NEW m \in Mover, WriteStatus(m) PROVE JobsOK'
  BY <1>0, <1>4, WriteEffect DEF Job, Targets, Status
<1>5. ASSUME NEW m \in Mover, RecordTransition(m) \/ RecordTransfer(m) \/ MoveFails(m)
      PROVE  JobsOK'
  BY <1>5 DEF RecordTransition, RecordTransfer, MoveFails, Free, tables
<1>6. ASSUME NEW o \in OrderId, ApproveRefund(o) \/ OpenArbitration(o) \/ UpdateFulfillment(o)
      PROVE  JobsOK'
  BY <1>6 DEF ApproveRefund, OpenArbitration, UpdateFulfillment, tables, movers
<1>7. CASE UNCHANGED vars
  BY <1>7 DEF vars
<1> QED
  BY <1>1, <1>2, <1>3, <1>4, <1>5, <1>6, <1>7 DEF Next, CreatorStep, MoverStep

\* When the transitions of one order do not overlap, a status a mover has read
\* stays until the mover writes.
LEMMA NextSerial ==
  ASSUME SerialPerOrder = TRUE, PlaceInv, JobsOK, SerialOK, [Next]_vars
  PROVE  SerialOK'
<1> USE OrdersAssumption DEF JobsOK, SerialOK, Exists
<1>0. /\ draft \in [Creator -> OrderId \cup {NoOrder}]
      /\ status \in [OrderId -> Status \cup {"absent"}]
      /\ \A p \in Creator : cpc[p] = "commit" => status[draft[p]] = "absent"
  BY DEF PlaceInv, LocalOK, RowsOK, DraftOK
<1>1. ASSUME NEW p \in Creator,
             Submit(p) \/ LookupKey(p) \/ ReadCollectible(p) \/ AcquireLock(p)
               \/ CheckActive(p) \/ Insert(p) \/ CreateFails(p)
      PROVE  SerialOK'
  BY <1>1 DEF Submit, LookupKey, ReadCollectible, AcquireLock, CheckActive, Insert,
              CreateFails, tables, movers
<1>2. ASSUME NEW p \in Creator, Commit(p) PROVE SerialOK'
  <2>1. cpc[p] = "commit"
    BY <1>2 DEF Commit
  <2>2. QED
    BY <1>0, <1>2, <2>1, CommitEffect DEF movers, Job
<1>3. ASSUME NEW m \in Mover, Load(m) PROVE SerialOK'
  BY <1>0, <1>3 DEF Load, tables, Job, Status
<1>4. ASSUME NEW m \in Mover, WriteStatus(m) PROVE SerialOK'
  BY <1>0, <1>4, WriteEffect DEF Job
<1>5. ASSUME NEW m \in Mover, RecordTransition(m) \/ RecordTransfer(m) \/ MoveFails(m)
      PROVE  SerialOK'
  BY <1>5 DEF RecordTransition, RecordTransfer, MoveFails, Free, tables
<1>6. ASSUME NEW o \in OrderId, ApproveRefund(o) \/ OpenArbitration(o) \/ UpdateFulfillment(o)
      PROVE  SerialOK'
  BY <1>6 DEF ApproveRefund, OpenArbitration, UpdateFulfillment, tables, movers
<1>7. CASE UNCHANGED vars
  BY <1>7 DEF vars
<1> QED
  BY <1>1, <1>2, <1>3, <1>4, <1>5, <1>6, <1>7 DEF Next, CreatorStep, MoverStep

\* A status that was read and may be left is not final.
LEMMA FreshRevivesNothing ==
  ASSUME JobsOK, FreshWrites
  PROVE  NothingRevived
<1> SUFFICES ASSUME NEW m \in Mover, WriteStatus(m)
             PROVE  status[job[m].order] \notin Settled
  BY DEF NothingRevived
<1>1. /\ job[m] \in Job
      /\ CanTransition(job[m].from, job[m].to)
      /\ status[job[m].order] = job[m].from
  BY WriteEffect DEF JobsOK, FreshWrites
<1> QED
  BY <1>1 DEF Job, CanTransition, AllowedTransitions, Settled, Status

LEMMA SerialWritesAreFresh ==
  ASSUME SerialOK
  PROVE  FreshWrites
BY WriteEffect DEF SerialOK, FreshWrites

\* Where nothing happens nothing is written.
LEMMA StutterIsFresh ==
  ASSUME JobsOK, UNCHANGED vars
  PROVE  FreshWrites
<1> SUFFICES ASSUME NEW m \in Mover, WriteStatus(m)
             PROVE  FALSE
  BY DEF FreshWrites
<1>1. mpc[m] = "write" /\ mpc' = [mpc EXCEPT ![m] = "record"] /\ mpc' = mpc
  BY WriteEffect DEF vars
<1> QED
  BY <1>1 DEF JobsOK

\* The lock keeps other creators away from a collectible that was found free,
\* and a mover that revives nothing makes no settled order active again.
LEMMA NextCheck ==
  ASSUME PlaceInv, JobsOK, CheckOK, NothingRevived, [Next]_vars
  PROVE  CheckOK'
<1> USE OrdersAssumption DEF CheckOK, Active, Exists
<1>0. /\ cpc \in [Creator -> CreatorPc]
      /\ req \in [Creator -> Requests \cup {NoRequest}]
      /\ draft \in [Creator -> OrderId \cup {NoOrder}]
      /\ status \in [OrderId -> Status \cup {"absent"}]
      /\ placed \in [OrderId -> Requests \cup {NoRequest}]
  BY DEF PlaceInv, LocalOK, RowsOK
<1>1. ASSUME NEW p \in Creator,
             Submit(p) \/ LookupKey(p) \/ ReadCollectible(p) \/ AcquireLock(p)
               \/ Insert(p) \/ CreateFails(p)
      PROVE  CheckOK'
  BY <1>0, <1>1 DEF Submit, LookupKey, ReadCollectible, AcquireLock, Insert,
              CreateFails, Reply, Goto, tables
<1>2. ASSUME NEW p \in Creator, CheckActive(p) PROVE CheckOK'
  BY <1>0, <1>2 DEF CheckActive, HasActiveOrder, Reply, Goto, tables
<1>3. ASSUME NEW p \in Creator, Commit(p) PROVE CheckOK'
  <2>1. cpc[p] = "commit"
    BY <1>3 DEF Commit
  <2>2. \A q \in Creator : q # p /\ cpc[q] \in InTx => req[q].item # req[p].item
    BY <2>1 DEF PlaceInv, LockOK, InTx
  <2>3. QED
    BY <1>0, <1>3, <2>1, <2>2, CommitEffect DEF InTx
<1>4. ASSUME NEW m \in Mover, WriteStatus(m) PROVE CheckOK'
  <2>1. /\ job[m].order \in OrderId
        /\ Active(job[m].order)
    BY <1>0, <1>4, WriteEffect
    DEF JobsOK, NothingRevived, Job
  <2>2. QED
    BY <1>0, <1>4, <2>1, WriteEffect DEF creators
<1>5. ASSUME NEW m \in Mover, Load(m) \/ RecordTransition(m) \/ RecordTransfer(m) \/ MoveFails(m)
      PROVE  CheckOK'
  BY <1>5 DEF Load, RecordTransition, RecordTransfer, MoveFails, tables, creators
<1>6. ASSUME NEW o \in OrderId, ApproveRefund(o) \/ OpenArbitration(o) \/ UpdateFulfillment(o)
      PROVE  CheckOK'
  BY <1>6 DEF ApproveRefund, OpenArbitration, UpdateFulfillment, tables, creators
<1>7. CASE UNCHANGED vars
  BY <1>7 DEF vars
<1> QED
  BY <1>1, <1>2, <1>3, <1>4, <1>5, <1>6, <1>7 DEF Next, CreatorStep, MoverStep

\* Existing rows keep their immutable columns, and the unique index keeps their
\* keys apart.
LEMMA NextKeys ==
  ASSUME PlaceInv, JobsOK, KeysOK, [Next]_vars
  PROVE  KeysOK'
<1> USE OrdersAssumption DEF KeysOK, OneOrderPerKey, Exists, Keyed, SameKey, AnswerKind
<1>0. /\ req \in [Creator -> Requests \cup {NoRequest}]
      /\ draft \in [Creator -> OrderId \cup {NoOrder}]
      /\ status \in [OrderId -> Status \cup {"absent"}]
      /\ placed \in [OrderId -> Requests \cup {NoRequest}]
  BY DEF PlaceInv, LocalOK, RowsOK
<1>1. ASSUME NEW p \in Creator, Submit(p) PROVE KeysOK'
  BY <1>0, <1>1 DEF Submit, tables
<1>2. ASSUME NEW p \in Creator, LookupKey(p) PROVE KeysOK'
  <2>1. UNCHANGED <<status, placed, req>>
    BY <1>2 DEF LookupKey, tables
  <2>2. CASE UNCHANGED answer
    BY <2>1, <2>2
  <2>3. ASSUME NEW o \in OrderId, Keyed(o, req[p]),
               answer' = [answer EXCEPT ![p] = [kind |-> "order", order |-> o]]
        PROVE  KeysOK'
    BY <2>1, <2>3
  <2> QED
    BY <1>2, <2>2, <2>3 DEF LookupKey, Reply
<1>3. ASSUME NEW p \in Creator,
             ReadCollectible(p) \/ AcquireLock(p) \/ CheckActive(p) \/ Insert(p) \/ CreateFails(p)
      PROVE  KeysOK'
  <2>1. UNCHANGED <<status, placed, req>>
    BY <1>3 DEF ReadCollectible, AcquireLock, CheckActive, Insert, CreateFails, tables
  <2>2. \/ UNCHANGED answer
        \/ \E k \in {"oversold", "rejected", "error"} :
             answer' = [answer EXCEPT ![p] = [kind |-> k, order |-> NoOrder]]
    BY <1>3 DEF ReadCollectible, AcquireLock, CheckActive, Insert, CreateFails, Reply
  <2>3. QED
    BY <2>1, <2>2
<1>4. ASSUME NEW p \in Creator, Commit(p) PROVE KeysOK'
  <2>1. /\ cpc[p] = "commit"
        /\ \/ answer' = [answer EXCEPT ![p] = [kind |-> "order", order |-> draft[p]]]
           \/ answer' = [answer EXCEPT ![p] = [kind |-> "error", order |-> NoOrder]]
    BY <1>4 DEF Commit, Reply
  <2>2. /\ draft[p] \in OrderId
        /\ status[draft[p]] = "absent"
        /\ \A o \in OrderId : ~Keyed(o, req[p])
    BY <2>1 DEF PlaceInv, LocalOK, DraftOK
  <2>3. \A o \in OrderId : Exists(o)' <=> Exists(o) \/ o = draft[p]
    BY <1>0, <1>4, <2>2, CommitEffect
  <2>4. \A o \in OrderId : placed'[o] = IF o = draft[p] THEN req[p] ELSE placed[o]
    BY <1>0, <1>4, <2>2, CommitEffect
  <2>5. \A o, n \in OrderId : Exists(o)' /\ Keyed(n, placed[o])' => n = o
    BY <2>2, <2>3, <2>4
  <2>6. ASSUME NEW q \in Creator, answer'[q].kind = "order"
        PROVE  Keyed(answer[q].order, req[q])'
    <3>1. req' = req
      BY <1>4, CommitEffect
    <3>2. CASE q = p
      BY <2>1, <2>2, <2>3, <2>4, <2>6, <3>1, <3>2
    <3>3. CASE q # p
      <4>1. /\ answer'[q] = answer[q]
            /\ Keyed(answer[q].order, req[q])
        BY <2>1, <2>6, <3>3
      <4>2. answer[q].order \in OrderId
        BY <2>6, <4>1
      <4> QED
        BY <2>2, <2>3, <2>4, <3>1, <4>1, <4>2
    <3> QED
      BY <3>2, <3>3
  <2> QED
    BY <2>1, <2>2, <2>5, <2>6
<1>5. ASSUME NEW m \in Mover, WriteStatus(m) PROVE KeysOK'
  BY <1>0, <1>5, WriteEffect DEF JobsOK, Job, Targets, Status, creators
<1>6. ASSUME NEW m \in Mover, Load(m) \/ RecordTransition(m) \/ RecordTransfer(m) \/ MoveFails(m)
      PROVE  KeysOK'
  BY <1>6 DEF Load, RecordTransition, RecordTransfer, MoveFails, tables, creators
<1>7. ASSUME NEW o \in OrderId, ApproveRefund(o) \/ OpenArbitration(o) \/ UpdateFulfillment(o)
      PROVE  KeysOK'
  BY <1>7 DEF ApproveRefund, OpenArbitration, UpdateFulfillment, tables, creators
<1>8. CASE UNCHANGED vars
  BY <1>8 DEF vars
<1> QED
  BY <1>1, <1>2, <1>3, <1>4, <1>5, <1>6, <1>7, <1>8 DEF Next, CreatorStep, MoverStep

LEMMA InitKeys == Init => KeysOK
  BY OrdersAssumption DEF Init, KeysOK, OneOrderPerKey, Exists, Keyed, AnswerKind

\* The part of the invariant that holds however transition requests race.
LEMMA RacingInvariant == Spec => [](PlaceInv /\ JobsOK /\ KeysOK)
<1>1. Init => PlaceInv /\ JobsOK /\ KeysOK
  BY InitPlace, InitJobs, InitKeys
<1>2. PlaceInv /\ JobsOK /\ KeysOK /\ [Next]_vars => (PlaceInv /\ JobsOK /\ KeysOK)'
  BY NextPlace, NextJobs, NextKeys
<1> QED
  BY <1>1, <1>2, PTL DEF Spec

\* However placements overlap, over any collectibles and locks and with any
\* faults, one (buyer, key) has one order, and success answers name it.
THEOREM KeysAreIdempotent == Spec => []OneOrderPerKey
<1>1. KeysOK => OneOrderPerKey
  BY DEF KeysOK
<1> QED
  BY <1>1, RacingInvariant, PTL

\* The invariant of the placements, while no settled order is revived.
LEMMA UnrevivedInvariant == Spec /\ [][NothingRevived]_vars => []CoreInv
<1>1. Init => CoreInv
  BY InitPlace, InitJobs DEF CoreInv
<1>2. CoreInv /\ [Next]_vars /\ [NothingRevived]_vars => CoreInv'
  BY NextPlace, NextJobs, NextCheck, StutterIsFresh, FreshRevivesNothing DEF CoreInv
<1> QED
  BY <1>1, <1>2, PTL DEF Spec

LEMMA FreshInvariant == Spec /\ [][FreshWrites]_vars => []CoreInv
<1>1. Init => CoreInv
  BY InitPlace, InitJobs DEF CoreInv
<1>2. CoreInv /\ [Next]_vars /\ [FreshWrites]_vars => CoreInv'
  BY NextPlace, NextJobs, NextCheck, StutterIsFresh, FreshRevivesNothing DEF CoreInv
<1> QED
  BY <1>1, <1>2, PTL DEF Spec

\* The full invariant, without overlapping transitions of one order.
LEMMA SerialInvariant ==
  ASSUME SerialPerOrder = TRUE
  PROVE  Spec => []IInv
<1>1. Init => IInv
  BY InitPlace, InitJobs DEF IInv, CoreInv
<1>2. IInv /\ [Next]_vars => IInv'
  BY NextPlace, NextJobs, NextSerial, NextCheck, SerialWritesAreFresh, FreshRevivesNothing
  DEF IInv, CoreInv
<1> QED
  BY <1>1, <1>2, PTL DEF Spec

-----------------------------------------------------------------------------
\* The columns and local variables PlaceInv, JobsOK and KeysOK do not type.
RestOK ==
    /\ cancelledBy \in [OrderId -> User \cup {NoUser}]
    /\ tracking \in [OrderId -> BOOLEAN]
    /\ log \in [OrderId -> Seq(Edge)]
    /\ transfers \in [OrderId -> Nat]
    /\ spawned \subseteq OrderId \X Slug
    /\ torn \subseteq OrderId
    /\ \A m \in Mover : mpc[m] = "idle" <=> job[m] = NoJob

LEMMA NextRest ==
  ASSUME PlaceInv, JobsOK, RestOK, [Next]_vars
  PROVE  RestOK'
<1> USE OrdersAssumption, NoJobAssumption DEF RestOK, JobsOK
<1>1. ASSUME NEW p \in Creator,
             Submit(p) \/ LookupKey(p) \/ ReadCollectible(p) \/ AcquireLock(p)
               \/ CheckActive(p) \/ Insert(p) \/ CreateFails(p)
      PROVE  RestOK'
  BY <1>1 DEF Submit, LookupKey, ReadCollectible, AcquireLock, CheckActive, Insert,
              CreateFails, tables, movers
<1>2. ASSUME NEW p \in Creator, Commit(p) PROVE RestOK'
  <2>1. /\ log' = [log EXCEPT ![draft[p]] = <<[from |-> "", to |-> "pending"]>>]
        /\ UNCHANGED <<cancelledBy, tracking, transfers, spawned, movers>>
    BY <1>2 DEF Commit
  <2>2. [from |-> "", to |-> "pending"] \in Edge
    BY DEF Edge, Status
  <2>3. <<[from |-> "", to |-> "pending"]>> \in Seq(Edge)
    <3>1. \A e \in Edge : <<e>> \in Seq(Edge)
      OBVIOUS
    <3> QED
      BY <2>2, <3>1
  <2>4. QED
    BY <2>1, <2>3 DEF movers
<1>3. ASSUME NEW m \in Mover, Load(m) PROVE RestOK'
  BY <1>3 DEF Load, tables, Job, PlaceInv, RowsOK, Exists
<1>4. ASSUME NEW m \in Mover, WriteStatus(m) PROVE RestOK'
  BY <1>4 DEF WriteStatus, Job
<1>5. ASSUME NEW m \in Mover, RecordTransition(m) PROVE RestOK'
  <2>1. /\ job[m] \in Job
        /\ job[m].order \in OrderId
        /\ [from |-> job[m].from, to |-> job[m].to] \in Edge
        /\ job[m].to \in Slug
    BY <1>5 DEF RecordTransition, Job, Edge, Slug, Targets
  <2>2. /\ log' = [log EXCEPT ![job[m].order] =
                      Append(@, [from |-> job[m].from, to |-> job[m].to])]
        /\ UNCHANGED <<cancelledBy, tracking, transfers, torn>>
        /\ \/ UNCHANGED <<job, spawned>> /\ mpc' = [mpc EXCEPT ![m] = "transfer"]
           \/ Free(m) /\ Notify(job[m].order, job[m].to)
    BY <1>5 DEF RecordTransition
  <2>3. log' \in [OrderId -> Seq(Edge)]
    BY <2>1, <2>2
  <2>4. spawned' \subseteq OrderId \X Slug
    BY <2>1, <2>2 DEF Notify
  <2>5. mpc[m] = "record"
    BY <1>5 DEF RecordTransition
  <2>6. \A n \in Mover : mpc'[n] = "idle" <=> job'[n] = NoJob
    BY <2>2, <2>5 DEF Free
  <2> QED
    BY <2>2, <2>3, <2>4, <2>6
<1>6. ASSUME NEW m \in Mover, RecordTransfer(m) PROVE RestOK'
  <2>1. /\ job[m].order \in OrderId
        /\ transfers' = [transfers EXCEPT ![job[m].order] = @ + 1] \/ UNCHANGED transfers
        /\ spawned' = spawned \cup {<<job[m].order, "completed">>}
        /\ Free(m)
        /\ UNCHANGED <<cancelledBy, tracking, log, torn>>
    BY <1>6 DEF RecordTransfer, Notify, Job
  <2>2. <<job[m].order, "completed">> \in OrderId \X Slug
    BY <2>1 DEF Slug, Targets, Status
  <2>3. transfers' \in [OrderId -> Nat]
    BY <2>1
  <2>4. \A n \in Mover : mpc'[n] = "idle" <=> job'[n] = NoJob
    BY <2>1 DEF Free
  <2> QED
    BY <2>1, <2>2, <2>3, <2>4
<1>7. ASSUME NEW m \in Mover, MoveFails(m) PROVE RestOK'
  <2>1. /\ mpc[m] # "idle" /\ job[m].order \in OrderId
        /\ torn' = torn \/ torn' = torn \cup {job[m].order}
        /\ Free(m)
        /\ UNCHANGED <<tables, spawned>>
    BY <1>7 DEF MoveFails, Job
  <2> QED
    BY <2>1 DEF Free, tables
<1>8. ASSUME NEW o \in OrderId, ApproveRefund(o) \/ OpenArbitration(o) \/ UpdateFulfillment(o)
      PROVE  RestOK'
  <2>1. <<o, "refund_approved">> \in OrderId \X Slug /\ <<o, "arbitration_opened">> \in OrderId \X Slug
    BY DEF Slug
  <2>2. \/ UNCHANGED spawned
        \/ spawned' = spawned \cup {<<o, "refund_approved">>}
        \/ spawned' = spawned \cup {<<o, "arbitration_opened">>}
    BY <1>8 DEF ApproveRefund, OpenArbitration, UpdateFulfillment, Notify
  <2>3. tracking' \in [OrderId -> BOOLEAN]
    BY <1>8 DEF ApproveRefund, OpenArbitration, UpdateFulfillment, tables
  <2>4. UNCHANGED <<cancelledBy, log, transfers, mpc, job, torn>>
    BY <1>8 DEF ApproveRefund, OpenArbitration, UpdateFulfillment, tables, movers
  <2> QED
    BY <2>1, <2>2, <2>3, <2>4
<1>9. CASE UNCHANGED vars
  BY <1>9 DEF vars
<1> QED
  BY <1>1, <1>2, <1>3, <1>4, <1>5, <1>6, <1>7, <1>8, <1>9
  DEF Next, CreatorStep, MoverStep

\* Every table and local variable keeps its type, racing or not.
THEOREM TypeCorrect == Spec => []TypeOK
<1>1. Init => RestOK
  <2>1. << >> \in Seq(Edge)
    OBVIOUS
  <2> QED
    BY <2>1 DEF Init, RestOK
<1>2. PlaceInv /\ JobsOK /\ KeysOK /\ RestOK /\ [Next]_vars => RestOK'
  BY NextRest
<1>3. PlaceInv /\ JobsOK /\ KeysOK /\ RestOK => TypeOK
  BY DEF PlaceInv, LocalOK, RowsOK, JobsOK, KeysOK, RestOK, TypeOK
<1> QED
  BY <1>1, <1>2, <1>3, RacingInvariant, PTL DEF Spec

-----------------------------------------------------------------------------
\* A log is a legal history, and tells what it is said to tell.
Legal(s) ==
    \A k \in 1..Len(s) :
        IF k = 1 THEN s[k] = [from |-> "", to |-> "pending"]
                 ELSE <<s[k].from, s[k].to>> \in Book!Arrows
Tells(s, t) == \E k \in 1..Len(s) : s[k].to = t

\* A mover that is about to transfer the ownership has logged the completion.
LogOK ==
    /\ \A o \in OrderId :
         /\ Exists(o) <=> log[o] # << >>
         /\ Legal(log[o])
         /\ \A t \in Targets : <<o, t>> \in spawned => Tells(log[o], t)
    /\ \A m \in Mover : mpc[m] = "transfer" => Tells(log[job[m].order], "completed")

\* A logged transition keeps a legal log legal and what it tells.
LEMMA LogGrows ==
  ASSUME NEW s \in Seq(Edge), NEW e \in Edge, s # << >>, Legal(s),
         <<e.from, e.to>> \in Book!Arrows
  PROVE  /\ Append(s, e) # << >>
         /\ Legal(Append(s, e))
         /\ Tells(Append(s, e), e.to)
         /\ \A t : Tells(s, t) => Tells(Append(s, e), t)
<1>1. /\ Len(s) \in Nat /\ Len(s) # 0
      /\ Len(Append(s, e)) = Len(s) + 1
      /\ \A k \in 1..Len(s) : Append(s, e)[k] = s[k]
      /\ Append(s, e)[Len(s) + 1] = e
  OBVIOUS
<1>2. 1..(Len(s) + 1) = 1..Len(s) \cup {Len(s) + 1}
  BY <1>1
<1>3. Legal(Append(s, e))
  <2> SUFFICES ASSUME NEW k \in 1..(Len(s) + 1)
               PROVE  IF k = 1
                        THEN Append(s, e)[k] = [from |-> "", to |-> "pending"]
                        ELSE <<Append(s, e)[k].from, Append(s, e)[k].to>> \in Book!Arrows
    BY <1>1 DEF Legal
  <2>1. CASE k \in 1..Len(s)
    BY <1>1, <2>1 DEF Legal
  <2>2. CASE k = Len(s) + 1
    <3>1. k # 1 /\ Append(s, e)[k] = e
      BY <1>1, <2>2
    <3> QED
      BY <3>1
  <2> QED
    BY <1>2, <2>1, <2>2
<1>4. Tells(Append(s, e), e.to)
  BY <1>1, <1>2 DEF Tells
<1>5. \A t : Tells(s, t) => Tells(Append(s, e), t)
  BY <1>1, <1>2 DEF Tells
<1> QED
  BY <1>1, <1>3, <1>4, <1>5

LEMMA OnlyOne == \A k \in 1..1 : k = 1
OBVIOUS

LEMMA FirstRow ==
  ASSUME NEW s, s = <<[from |-> "", to |-> "pending"]>>
  PROVE  s # << >> /\ Legal(s)
<1>1. Len(s) = 1 /\ s[1] = [from |-> "", to |-> "pending"]
  OBVIOUS
<1>2. Legal(s)
  BY <1>1, OnlyOne DEF Legal
<1> QED
  BY <1>1, <1>2

LEMMA NextLog ==
  ASSUME PlaceInv, JobsOK, RestOK, LogOK, [Next]_vars
  PROVE  LogOK'
<1> USE OrdersAssumption DEF LogOK, JobsOK, Exists
<1>0. /\ draft \in [Creator -> OrderId \cup {NoOrder}]
      /\ status \in [OrderId -> Status \cup {"absent"}]
      /\ log \in [OrderId -> Seq(Edge)]
  BY DEF PlaceInv, LocalOK, RowsOK, RestOK
<1>1. ASSUME NEW p \in Creator,
             Submit(p) \/ LookupKey(p) \/ ReadCollectible(p) \/ AcquireLock(p)
               \/ CheckActive(p) \/ Insert(p) \/ CreateFails(p)
      PROVE  LogOK'
  <2>1. UNCHANGED <<status, log, spawned, mpc, job>>
    BY <1>1 DEF Submit, LookupKey, ReadCollectible, AcquireLock, CheckActive, Insert,
                CreateFails, tables, movers
  <2> QED
    BY <2>1
<1>2. ASSUME NEW p \in Creator, Commit(p) PROVE LogOK'
  <2>1. /\ cpc[p] = "commit"
        /\ status' = [status EXCEPT ![draft[p]] = "pending"]
        /\ log' = [log EXCEPT ![draft[p]] = <<[from |-> "", to |-> "pending"]>>]
        /\ UNCHANGED <<spawned, mpc, job>>
    BY <1>2 DEF Commit, movers
  <2>2. draft[p] \in OrderId /\ status[draft[p]] = "absent"
    BY <1>0, <2>1 DEF PlaceInv, LocalOK, DraftOK
  <2>3. log[draft[p]] = << >>
    BY <2>2
  <2>4. \A t \in Targets : <<draft[p], t>> \notin spawned
    BY <2>2, <2>3 DEF Tells
  <2>5. \A m \in Mover : mpc[m] # "idle" =>
          job[m].order \in OrderId /\ job[m].order # draft[p]
    BY <2>2 DEF Job
  <2>6. log'[draft[p]] # << >> /\ Legal(log'[draft[p]])
    BY <1>0, <2>1, <2>2, FirstRow
  <2>7. \A o \in OrderId : o # draft[p] => log'[o] = log[o] /\ status'[o] = status[o]
    BY <1>0, <2>1, <2>2
  <2>8. status'[draft[p]] = "pending"
    BY <1>0, <2>1, <2>2
  <2>9. \A o \in OrderId :
          /\ Exists(o)' <=> log'[o] # << >>
          /\ Legal(log'[o])
          /\ \A t \in Targets : <<o, t>> \in spawned' => Tells(log'[o], t)
    <3> TAKE o \in OrderId
    <3>1. CASE o = draft[p]
      BY <2>1, <2>4, <2>6, <2>8, <3>1
    <3>2. CASE o # draft[p]
      BY <2>1, <2>7, <3>2
    <3> QED
      BY <3>1, <3>2
  <2>10. \A m \in Mover : mpc'[m] = "transfer" => Tells(log'[job'[m].order], "completed")
    BY <2>1, <2>5, <2>7
  <2> QED
    BY <2>9, <2>10
<1>3. ASSUME NEW m \in Mover, Load(m) PROVE LogOK'
  <2>1. /\ UNCHANGED <<status, log, spawned>>
        /\ mpc' = [mpc EXCEPT ![m] = "write"]
        /\ \A n \in Mover : n # m => job'[n] = job[n]
    BY <1>3 DEF Load, tables
  <2> QED
    BY <2>1
<1>4. ASSUME NEW m \in Mover, WriteStatus(m) PROVE LogOK'
  <2>1. /\ UNCHANGED <<log, spawned, job>>
        /\ mpc' = [mpc EXCEPT ![m] = "record"]
        /\ status' = [status EXCEPT ![job[m].order] = job[m].to]
        /\ mpc[m] = "write"
    BY <1>4 DEF WriteStatus
  <2>2. /\ job[m].to # "absent"
        /\ Exists(job[m].order)
    BY <2>1 DEF Job, Targets, Status
  <2> QED
    BY <1>0, <2>1, <2>2
<1>5. ASSUME NEW m \in Mover, RecordTransition(m) PROVE LogOK'
  <2> DEFINE o == job[m].order
             e == [from |-> job[m].from, to |-> job[m].to]
  <2>1. /\ o \in OrderId /\ e \in Edge /\ e.from = job[m].from /\ e.to = job[m].to
        /\ <<e.from, e.to>> \in Book!Arrows
        /\ Exists(o)
    <3>1. job[m] \in Job /\ CanTransition(job[m].from, job[m].to) /\ Exists(o)
      BY <1>5 DEF RecordTransition
    <3>2. <<job[m].from, job[m].to>> \in Book!Arrows
      BY <3>1 DEF Book!Arrows, CanTransition, AllowedTransitions, Job, Status, Targets
    <3>3. o \in OrderId /\ job[m].from \in Status /\ job[m].to \in Status
      BY <3>1 DEF Job, Targets
    <3>4. e \in Edge /\ e.from = job[m].from /\ e.to = job[m].to
      BY <3>3 DEF Edge
    <3> QED
      BY <3>1, <3>2, <3>3, <3>4
  <2>2. /\ log' = [log EXCEPT ![o] = Append(log[o], e)]
        /\ UNCHANGED status
        /\ mpc[m] = "record"
    BY <1>5 DEF RecordTransition
  <2>3. /\ log'[o] # << >> /\ Legal(log'[o]) /\ Tells(log'[o], e.to)
        /\ \A t : Tells(log[o], t) => Tells(log'[o], t)
    <3>1. log[o] \in Seq(Edge) /\ log[o] # << >> /\ Legal(log[o])
      BY <1>0, <2>1
    <3>2. log'[o] = Append(log[o], e)
      BY <1>0, <2>1, <2>2
    <3> HIDE DEF e, o
    <3> QED
      BY <2>1, <3>1, <3>2, LogGrows
  <2>4. \A n \in OrderId : n # o => log'[n] = log[n]
    BY <1>0, <2>2
  <2>5. CASE e.to = "completed" /\ mpc' = [mpc EXCEPT ![m] = "transfer"]
             /\ UNCHANGED <<job, spawned>>
    <3>1. \A n \in Mover : mpc'[n] = "transfer" => Tells(log'[job[n].order], "completed")
      BY <2>3, <2>4, <2>5, <2>1 DEF Job
    <3> QED
      BY <2>1, <2>2, <2>3, <2>4, <2>5, <3>1
  <2>6. CASE Free(m) /\ Notify(o, e.to)
    <3>1. \A n \in Mover : mpc'[n] = "transfer" =>
             mpc[n] = "transfer" /\ job'[n] = job[n] /\ job[n].order \in OrderId
      BY <2>6 DEF Free, Job
    <3>2. spawned' = spawned \cup {<<o, e.to>>}
      BY <2>6 DEF Notify
    <3>3. \A n \in OrderId, t \in Targets : <<n, t>> \in spawned' =>
             <<n, t>> \in spawned \/ (n = o /\ t = e.to)
      BY <3>2
    <3> QED
      BY <2>1, <2>2, <2>3, <2>4, <3>1, <3>3
  <2> QED
    BY <1>5, <2>1, <2>5, <2>6 DEF RecordTransition
<1>6. ASSUME NEW m \in Mover, RecordTransfer(m) PROVE LogOK'
  <2>1. /\ UNCHANGED <<status, log>>
        /\ mpc[m] = "transfer"
        /\ spawned' = spawned \cup {<<job[m].order, "completed">>}
        /\ mpc' = [mpc EXCEPT ![m] = "idle"]
        /\ job' = [job EXCEPT ![m] = NoJob]
    BY <1>6 DEF RecordTransfer, Notify, Free
  <2>2. \A n \in OrderId, t \in Targets : <<n, t>> \in spawned' =>
           <<n, t>> \in spawned \/ (n = job[m].order /\ t = "completed")
    BY <2>1
  <2>3. Tells(log[job[m].order], "completed")
    BY <2>1
  <2>4. \A n \in Mover : mpc'[n] = "transfer" => mpc[n] = "transfer" /\ job'[n] = job[n]
    BY <2>1
  <2> QED
    BY <2>1, <2>2, <2>3, <2>4
<1>7. ASSUME NEW m \in Mover, MoveFails(m) PROVE LogOK'
  <2>1. /\ UNCHANGED <<status, log, spawned>>
        /\ \A n \in Mover : mpc'[n] = "transfer" => mpc[n] = "transfer" /\ job'[n] = job[n]
    BY <1>7 DEF MoveFails, Free, tables
  <2> QED
    BY <2>1
<1>8. ASSUME NEW o \in OrderId, ApproveRefund(o) \/ OpenArbitration(o) \/ UpdateFulfillment(o)
      PROVE  LogOK'
  <2>1. UNCHANGED <<status, log, mpc, job>>
    BY <1>8 DEF ApproveRefund, OpenArbitration, UpdateFulfillment, tables, movers
  <2>2. \A n \in OrderId, t \in Targets : <<n, t>> \in spawned' => <<n, t>> \in spawned
    BY <1>8 DEF ApproveRefund, OpenArbitration, UpdateFulfillment, Notify, tables, Targets, Status
  <2> QED
    BY <2>1, <2>2
<1>9. CASE UNCHANGED vars
  <2>1. UNCHANGED <<status, log, spawned, mpc, job>>
    BY <1>9 DEF vars
  <2> QED
    BY <2>1
<1> QED
  BY <1>1, <1>2, <1>3, <1>4, <1>5, <1>6, <1>7, <1>8, <1>9
  DEF Next, CreatorStep, MoverStep

\* However requests race and whatever fails, an order's log starts with its
\* placement, holds allowed transitions only, and tells of every status that
\* somebody was told of (TransitionStatus 130-203).
THEOREM LogsAreLegal == Spec => []LogIsLegal
<1>1. Init => RestOK /\ LogOK
  <2>1. << >> \in Seq(Edge)
    OBVIOUS
  <2> QED
    BY <2>1 DEF Init, RestOK, LogOK, Exists, Legal, Tells
<1>2. PlaceInv /\ JobsOK /\ KeysOK /\ RestOK /\ LogOK /\ [Next]_vars => RestOK' /\ LogOK'
  BY NextRest, NextLog
<1>3. LogOK => LogIsLegal
  BY DEF LogOK, LogIsLegal, Legal, Tells
<1> QED
  BY <1>1, <1>2, <1>3, RacingInvariant, PTL DEF Spec

-----------------------------------------------------------------------------
\* A commit is an atomic placement of the abstract book: the collectible is
\* still free and the key still unused.
LEMMA CommitIsPlace ==
  ASSUME CoreInv, NEW p \in Creator, Commit(p)
  PROVE  Book!Next
<1> USE DEF CoreInv
<1>1. cpc[p] = "commit"
  BY DEF Commit
<1>2. /\ draft[p] \in OrderId
      /\ status[draft[p]] = "absent"
      /\ req[p] \in Requests
      /\ \A o \in OrderId : ~Keyed(o, req[p])
      /\ \A o \in OrderId : Active(o) => placed[o].item # req[p].item
  BY <1>1, OrdersAssumption DEF PlaceInv, LocalOK, DraftOK, CheckOK
<1>3. Book!Place(draft[p], req[p])
  BY <1>2, CommitEffect
  DEF Book!Place, Book!Taken, Active, Exists, Settled, Keyed, SameKey
<1> QED
  BY <1>2, <1>3 DEF Book!Next

\* An UPDATE of the status is an arrow of the abstract state machine.
LEMMA WriteIsMove ==
  ASSUME CoreInv, FreshWrites, NEW m \in Mover, WriteStatus(m)
  PROVE  Book!Next
<1>1. /\ job[m] \in Job
      /\ CanTransition(job[m].from, job[m].to)
      /\ status[job[m].order] = job[m].from
  BY WriteEffect DEF CoreInv, JobsOK, FreshWrites
<1>2. <<status[job[m].order], job[m].to>> \in Book!Arrows
  BY <1>1 DEF Book!Arrows, CanTransition, AllowedTransitions, Job, Status, Targets
<1>3. Book!Move(job[m].order, job[m].to)
  BY <1>2, WriteEffect DEF Book!Move
<1> QED
  BY <1>1, <1>3 DEF Book!Next, Book!States, Job, Targets, Status

\* Every step of the handlers is a step of the book or leaves it alone.
LEMMA StepRefines ==
  ASSUME CoreInv, FreshWrites, [Next]_vars
  PROVE  [Book!Next]_<<status, placed>>
<1>1. ASSUME NEW p \in Creator,
             Submit(p) \/ LookupKey(p) \/ ReadCollectible(p) \/ AcquireLock(p)
               \/ CheckActive(p) \/ Insert(p) \/ CreateFails(p)
      PROVE  UNCHANGED <<status, placed>>
  BY <1>1 DEF Submit, LookupKey, ReadCollectible, AcquireLock, CheckActive, Insert,
              CreateFails, tables
<1>2. ASSUME NEW m \in Mover, Load(m) \/ RecordTransition(m) \/ RecordTransfer(m) \/ MoveFails(m)
      PROVE  UNCHANGED <<status, placed>>
  BY <1>2 DEF Load, RecordTransition, RecordTransfer, MoveFails, tables
<1>3. ASSUME NEW o \in OrderId, ApproveRefund(o) \/ OpenArbitration(o) \/ UpdateFulfillment(o)
      PROVE  UNCHANGED <<status, placed>>
  BY <1>3 DEF ApproveRefund, OpenArbitration, UpdateFulfillment, tables
<1>4. CASE UNCHANGED vars
  BY <1>4 DEF vars
<1> QED
  BY <1>1, <1>2, <1>3, <1>4, CommitIsPlace, WriteIsMove DEF Next, CreatorStep, MoverStep

\* If no UPDATE overwrites another status than the one its request has read, as
\* "WHERE status = from" would have it, the order service implements the
\* abstract order book, however transitions overlap (store UpdateStatus 79-83,
\* Cancel 85-90).
THEOREM FreshWritesImplementBook ==
  Spec /\ [][FreshWrites]_vars => ImplementsBook
<1>1. Init => Book!Init
  BY DEF Init, Book!Init
<1>2. CoreInv /\ [Next]_vars /\ [FreshWrites]_vars => [Book!Next]_(Book!bookVars)
  BY StepRefines, StutterIsFresh DEF Book!bookVars, CoreInv
<1> QED
  BY <1>1, <1>2, FreshInvariant, PTL DEF Spec, ImplementsBook, Book!Spec

LEMMA SerialIsFresh ==
  ASSUME SerialPerOrder = TRUE
  PROVE  Spec => [][FreshWrites]_vars
<1>1. IInv /\ [Next]_vars => [FreshWrites]_vars
  BY SerialWritesAreFresh DEF IInv
<1> QED
  BY <1>1, SerialInvariant, PTL DEF Spec

\* When the transitions of one order are not overlapped, the order service
\* implements the abstract order book.
THEOREM OrdersImplementBook ==
  ASSUME SerialPerOrder = TRUE
  PROVE  Spec => ImplementsBook
BY SerialIsFresh, FreshWritesImplementBook

-----------------------------------------------------------------------------
\* The abstract book is safe.
LEMMA BookIsSafe == Book!Spec => []Book!BookInv
<1>1. Book!Init => Book!BookInv
  BY DEF Book!Init, Book!BookInv, Book!Taken
<1>2. ASSUME Book!BookInv, NEW o \in OrderId, NEW r \in Requests, Book!Place(o, r)
      PROVE  Book!BookInv'
  BY <1>2, OrdersAssumption DEF Book!Place, Book!BookInv, Book!States, Book!Taken
<1>3. ASSUME Book!BookInv, NEW o \in OrderId, NEW to \in Book!States, Book!Move(o, to)
      PROVE  Book!BookInv'
  BY <1>3 DEF Book!Move, Book!Arrows, Book!BookInv, Book!States, Book!Taken
<1>4. Book!BookInv /\ [Book!Next]_(Book!bookVars) => Book!BookInv'
  BY <1>2, <1>3 DEF Book!Next, Book!bookVars, Book!BookInv, Book!Taken
<1> QED
  BY <1>1, <1>4, PTL DEF Book!Spec

\* No overselling: a collectible never has two orders that are neither
\* cancelled nor completed.
THEOREM NeverOversold ==
  ASSUME SerialPerOrder = TRUE
  PROVE  Spec => []SingleActiveOrder
<1>1. Book!BookInv => SingleActiveOrder
  BY DEF Book!BookInv, Book!Taken, Book!States, SingleActiveOrder, Active, Exists, Settled
<1> QED
  BY <1>1, OrdersImplementBook, BookIsSafe, PTL DEF ImplementsBook

-----------------------------------------------------------------------------
\* A status is written over one that is not settled, and a cancellation names
\* its author.
LEMMA NextSettlement ==
  ASSUME CoreInv, NothingRevived, RestOK, SettlementIsFinal, [Next]_vars
  PROVE  SettlementIsFinal'
<1> USE OrdersAssumption DEF SettlementIsFinal, RestOK
<1>0. /\ draft \in [Creator -> OrderId \cup {NoOrder}]
      /\ status \in [OrderId -> Status \cup {"absent"}]
  BY DEF CoreInv, PlaceInv, LocalOK, RowsOK
<1>1. ASSUME NEW p \in Creator,
             Submit(p) \/ LookupKey(p) \/ ReadCollectible(p) \/ AcquireLock(p)
               \/ CheckActive(p) \/ Insert(p) \/ CreateFails(p)
      PROVE  UNCHANGED <<status, cancelledBy, spawned>>
  BY <1>1 DEF Submit, LookupKey, ReadCollectible, AcquireLock, CheckActive, Insert,
              CreateFails, tables
<1>2. ASSUME NEW p \in Creator, Commit(p) PROVE SettlementIsFinal'
  <2>1. /\ cpc[p] = "commit"
        /\ status' = [status EXCEPT ![draft[p]] = "pending"]
        /\ UNCHANGED <<cancelledBy, spawned>>
    BY <1>2 DEF Commit
  <2>2. draft[p] \in OrderId /\ status[draft[p]] = "absent"
    BY <1>0, <2>1 DEF CoreInv, PlaceInv, LocalOK, DraftOK
  <2> QED
    BY <1>0, <2>1, <2>2 DEF Settled
<1>3. ASSUME NEW m \in Mover, Load(m) \/ MoveFails(m)
      PROVE  UNCHANGED <<status, cancelledBy, spawned>>
  BY <1>3 DEF Load, MoveFails, tables
<1>4. ASSUME NEW m \in Mover, WriteStatus(m) PROVE SettlementIsFinal'
  <2> DEFINE o == job[m].order
  <2>1. /\ job[m] \in Job
        /\ CanTransition(job[m].from, job[m].to)
        /\ status[o] \notin Settled
    BY <1>4, WriteEffect DEF CoreInv, JobsOK, NothingRevived
  <2>2. /\ o \in OrderId /\ job[m].by \in User /\ job[m].to \in Targets
        /\ status[o] \notin Settled
    BY <2>1 DEF Job
  <2>3. /\ status' = [status EXCEPT ![o] = job[m].to]
        /\ cancelledBy' = IF job[m].to = "cancelled"
                            THEN [cancelledBy EXCEPT ![o] = job[m].by] ELSE cancelledBy
        /\ UNCHANGED spawned
    BY <1>4 DEF WriteStatus
  <2>4. job[m].by # NoUser
    BY <2>2
  <2>5. /\ cancelledBy'[o] # NoUser <=> status'[o] = "cancelled"
        /\ <<o, "refund_approved">> \notin spawned'
    BY <1>0, <2>2, <2>3, <2>4 DEF Settled
  <2>6. \A n \in OrderId : n # o => cancelledBy'[n] = cancelledBy[n] /\ status'[n] = status[n]
    BY <1>0, <2>2, <2>3
  <2> QED
    BY <2>3, <2>5, <2>6
<1>5. ASSUME NEW m \in Mover, RecordTransition(m) \/ RecordTransfer(m)
      PROVE  SettlementIsFinal'
  <2>1. /\ job[m] \in Job
        /\ UNCHANGED <<status, cancelledBy>>
        /\ \/ UNCHANGED spawned
           \/ spawned' = spawned \cup {<<job[m].order, job[m].to>>}
           \/ spawned' = spawned \cup {<<job[m].order, "completed">>}
    BY <1>5 DEF RecordTransition, RecordTransfer, Notify, CoreInv, JobsOK
  <2>2. job[m].to # "refund_approved"
    BY <2>1 DEF Job, Targets, Status
  <2>3. \A n \in OrderId : <<n, "refund_approved">> \in spawned' =>
           <<n, "refund_approved">> \in spawned
    BY <2>1, <2>2
  <2> QED
    BY <2>1, <2>3
<1>6. ASSUME NEW o \in OrderId, ApproveRefund(o) \/ OpenArbitration(o) \/ UpdateFulfillment(o)
      PROVE  SettlementIsFinal'
  <2>1. UNCHANGED <<status, cancelledBy>>
    BY <1>6 DEF ApproveRefund, OpenArbitration, UpdateFulfillment, tables
  <2>2. \A n \in OrderId : <<n, "refund_approved">> \in spawned' =>
           <<n, "refund_approved">> \in spawned \/ status[n] \in Settled
    BY <1>6 DEF ApproveRefund, OpenArbitration, UpdateFulfillment, Notify
  <2> QED
    BY <2>1, <2>2
<1>7. CASE UNCHANGED vars
  BY <1>7 DEF vars
<1> QED
  BY <1>1, <1>2, <1>3, <1>4, <1>5, <1>6, <1>7 DEF Next, CreatorStep, MoverStep

\* A second active order of a collectible comes from a commit that did not find
\* the first, or from an order that is active again.
LEMMA NextSingle ==
  ASSUME CoreInv, NothingRevived, SingleActiveOrder, [Next]_vars
  PROVE  SingleActiveOrder'
<1> USE OrdersAssumption DEF SingleActiveOrder, Active, Exists
<1>0. /\ draft \in [Creator -> OrderId \cup {NoOrder}]
      /\ status \in [OrderId -> Status \cup {"absent"}]
      /\ placed \in [OrderId -> Requests \cup {NoRequest}]
  BY DEF CoreInv, PlaceInv, LocalOK, RowsOK
<1>1. ASSUME UNCHANGED <<status, placed>> PROVE SingleActiveOrder'
  BY <1>1
<1>2. ASSUME NEW p \in Creator, Commit(p) PROVE SingleActiveOrder'
  <2>1. cpc[p] = "commit"
    BY <1>2 DEF Commit
  <2>2. /\ draft[p] \in OrderId
        /\ \A o \in OrderId : Active(o) => placed[o].item # req[p].item
    BY <1>0, <2>1 DEF CoreInv, PlaceInv, LocalOK, CheckOK
  <2> QED
    BY <1>0, <1>2, <2>2, CommitEffect
<1>3. ASSUME NEW m \in Mover, WriteStatus(m) PROVE SingleActiveOrder'
  <2>1. job[m].order \in OrderId /\ Active(job[m].order)
    BY <1>0, <1>3, WriteEffect DEF CoreInv, JobsOK, NothingRevived, Job
  <2> QED
    BY <1>0, <1>3, <2>1, WriteEffect
<1>4. ASSUME NEW p \in Creator,
             Submit(p) \/ LookupKey(p) \/ ReadCollectible(p) \/ AcquireLock(p)
               \/ CheckActive(p) \/ Insert(p) \/ CreateFails(p)
      PROVE  UNCHANGED <<status, placed>>
  BY <1>4 DEF Submit, LookupKey, ReadCollectible, AcquireLock, CheckActive, Insert,
              CreateFails, tables
<1>5. ASSUME NEW m \in Mover, Load(m) \/ RecordTransition(m) \/ RecordTransfer(m) \/ MoveFails(m)
      PROVE  UNCHANGED <<status, placed>>
  BY <1>5 DEF Load, RecordTransition, RecordTransfer, MoveFails, tables
<1>6. ASSUME NEW o \in OrderId, ApproveRefund(o) \/ OpenArbitration(o) \/ UpdateFulfillment(o)
      PROVE  UNCHANGED <<status, placed>>
  BY <1>6 DEF ApproveRefund, OpenArbitration, UpdateFulfillment, tables
<1>7. UNCHANGED vars => UNCHANGED <<status, placed>>
  BY DEF vars
<1> QED
  BY <1>1, <1>2, <1>3, <1>4, <1>5, <1>6, <1>7 DEF Next, CreatorStep, MoverStep

\* Overselling needs a revival: however placements and transitions overlap and
\* fail, as long as no UPDATE overwrites a settled status no collectible has two
\* active orders, cancelled_by tells the cancelled ones and refunds are of
\* settled ones.  The race that oversells takes just that step
\* (TransitionStatus 151-168).
THEOREM OversellingNeedsRevival ==
  Spec /\ [][NothingRevived]_vars => [](SingleActiveOrder /\ SettlementIsFinal)
<1>1. Init => RestOK /\ SingleActiveOrder /\ SettlementIsFinal
  <2>1. << >> \in Seq(Edge)
    OBVIOUS
  <2> QED
    BY <2>1 DEF Init, RestOK, SettlementIsFinal, SingleActiveOrder, Active, Exists
<1>2. /\ CoreInv /\ RestOK /\ SingleActiveOrder /\ SettlementIsFinal
      /\ [Next]_vars /\ [NothingRevived]_vars
      => (RestOK /\ SingleActiveOrder /\ SettlementIsFinal)'
  BY NextRest, NextSettlement, NextSingle, StutterIsFresh, FreshRevivesNothing DEF CoreInv
<1> QED
  BY <1>1, <1>2, UnrevivedInvariant, PTL DEF Spec

LEMMA SerialRevivesNothing ==
  ASSUME SerialPerOrder = TRUE
  PROVE  Spec => [][NothingRevived]_vars
<1>1. IInv /\ [Next]_vars => [NothingRevived]_vars
  BY SerialWritesAreFresh, FreshRevivesNothing DEF IInv, CoreInv
<1> QED
  BY <1>1, SerialInvariant, PTL DEF Spec

\* Without overlapping transitions, an order that was settled stays settled,
\* cancelled_by is set on cancelled orders only, and a refund is announced for
\* settled orders only (ApproveRefund 205-231, store Cancel 85-90).
THEOREM SettlementsAreFinal ==
  ASSUME SerialPerOrder = TRUE
  PROVE  Spec => []SettlementIsFinal
BY OversellingNeedsRevival, SerialRevivesNothing, PTL

-----------------------------------------------------------------------------
(* No status is left twice: the statuses an order leaves rise.             *)

\* Placement comes first, from no status.
Rank(s) ==
    IF s = "pending" THEN 1 ELSE IF s = "confirmed" THEN 2
    ELSE IF s = "processing" THEN 3 ELSE IF s \in Settled THEN 4 ELSE 0

Rising(s) == \A j, k \in 1..Len(s) : j < k => Rank(s[j].from) < Rank(s[k].from)
Below(s, x) == \A k \in 1..Len(s) : Rank(s[k].from) < Rank(x)

\* The log only left statuses before the present one; a mover that has not
\* logged its step is about to leave one that no row left; and nothing is
\* transferred before the last statement of a completion.
OnceOK ==
    /\ \A o \in OrderId :
         /\ Rising(log[o])
         /\ Exists(o) => Below(log[o], status[o])
         /\ transfers[o] <= IF status[o] = "completed" THEN 1 ELSE 0
    /\ \A m \in Mover : mpc[m] # "idle" =>
         /\ transfers[job[m].order] = 0
         /\ mpc[m] \in {"write", "record"} => Below(log[job[m].order], job[m].from)
         /\ mpc[m] \in {"record", "transfer"} => status[job[m].order] = job[m].to
         /\ mpc[m] = "transfer" => job[m].to = "completed"

LEMMA RankRises ==
  ASSUME NEW x \in Status, NEW y \in Targets, CanTransition(x, y)
  PROVE  /\ Rank(x) \in Nat /\ Rank(y) \in Nat
         /\ Rank(x) < Rank(y)
<1>1. \/ x = "pending" /\ y \in {"confirmed", "cancelled"}
      \/ x = "confirmed" /\ y \in {"processing", "cancelled"}
      \/ x = "processing" /\ y = "completed"
  BY DEF CanTransition, AllowedTransitions, Status
<1> QED
  BY <1>1 DEF Rank, Settled

\* Logging a step from a status that no row left keeps the order.
LEMMA RisingGrows ==
  ASSUME NEW s \in Seq(Edge), NEW e \in Edge, Rising(s), Below(s, e.from)
  PROVE  /\ Rising(Append(s, e))
         /\ \A x \in Status : Below(s, x) /\ Rank(e.from) < Rank(x) => Below(Append(s, e), x)
<1>1. /\ Len(s) \in Nat
      /\ Len(Append(s, e)) = Len(s) + 1
      /\ \A k \in 1..Len(s) : Append(s, e)[k] = s[k]
      /\ Append(s, e)[Len(s) + 1] = e
  OBVIOUS
<1>2. 1..(Len(s) + 1) = 1..Len(s) \cup {Len(s) + 1}
  BY <1>1
<1>3. Rising(Append(s, e))
  <2> SUFFICES ASSUME NEW j \in 1..(Len(s) + 1), NEW k \in 1..(Len(s) + 1), j < k
               PROVE  Rank(Append(s, e)[j].from) < Rank(Append(s, e)[k].from)
    BY <1>1 DEF Rising
  <2>1. j \in 1..Len(s)
    BY <1>1
  <2>2. CASE k \in 1..Len(s)
    BY <1>1, <2>1, <2>2 DEF Rising
  <2>3. CASE k = Len(s) + 1
    BY <1>1, <2>1, <2>3 DEF Below
  <2> QED
    BY <1>2, <2>2, <2>3
<1>4. ASSUME NEW x \in Status, Below(s, x), Rank(e.from) < Rank(x)
      PROVE  Below(Append(s, e), x)
  BY <1>1, <1>2, <1>4 DEF Below
<1> QED
  BY <1>3, <1>4

LEMMA FirstRises ==
  ASSUME NEW s, NEW e, s = <<e>>, Rank(e.from) = 0
  PROVE  Rising(s) /\ Below(s, "pending")
<1>1. Len(s) = 1 /\ s[1] = e
  OBVIOUS
<1>2. Rank("pending") = 1
  BY DEF Rank
<1>3. Rising(s)
  BY <1>1 DEF Rising
<1>4. Below(s, "pending")
  BY <1>1, <1>2, OnlyOne DEF Below
<1> QED
  BY <1>3, <1>4

LEMMA RankOfNone == Rank([from |-> "", to |-> "pending"].from) = 0
  BY DEF Rank, Settled

LEMMA NextOnce ==
  ASSUME SerialPerOrder = TRUE, IInv, RestOK, LogOK, OnceOK, [Next]_vars
  PROVE  OnceOK'
<1> USE OrdersAssumption
<1>0. /\ draft \in [Creator -> OrderId \cup {NoOrder}]
      /\ status \in [OrderId -> Status \cup {"absent"}]
      /\ log \in [OrderId -> Seq(Edge)]
      /\ transfers \in [OrderId -> Nat]
      /\ mpc \in [Mover -> {"idle", "write", "record", "transfer"}]
      /\ job \in [Mover -> Job \cup {NoJob}]
  BY DEF IInv, CoreInv, PlaceInv, LocalOK, RowsOK, JobsOK, RestOK
<1>00. ASSUME NEW m \in Mover, mpc[m] # "idle"
       PROVE  /\ job[m] \in Job /\ job[m].order \in OrderId
              /\ job[m].from \in Status /\ job[m].to \in Targets
              /\ status[job[m].order] # "absent"
              /\ CanTransition(job[m].from, job[m].to)
              /\ mpc[m] = "write" => status[job[m].order] = job[m].from
              /\ \A n \in Mover : n # m /\ mpc[n] # "idle" => job[n].order # job[m].order
  BY <1>00 DEF IInv, CoreInv, JobsOK, SerialOK, Job, Exists
<1>1. ASSUME UNCHANGED <<status, log, transfers, mpc, job>> PROVE OnceOK'
  BY <1>1 DEF OnceOK, Exists
<1>2. ASSUME NEW p \in Creator,
             Submit(p) \/ LookupKey(p) \/ ReadCollectible(p) \/ AcquireLock(p)
               \/ CheckActive(p) \/ Insert(p) \/ CreateFails(p)
      PROVE  UNCHANGED <<status, log, transfers, mpc, job>>
  BY <1>2 DEF Submit, LookupKey, ReadCollectible, AcquireLock, CheckActive, Insert,
              CreateFails, tables, movers
<1>3. ASSUME NEW p \in Creator, Commit(p) PROVE OnceOK'
  <2> DEFINE o == draft[p]
             first == [from |-> "", to |-> "pending"]
  <2>1. /\ cpc[p] = "commit"
        /\ status' = [status EXCEPT ![o] = "pending"]
        /\ log' = [log EXCEPT ![o] = <<first>>]
        /\ UNCHANGED <<transfers, mpc, job>>
    BY <1>3 DEF Commit, movers
  <2>2. o \in OrderId /\ status[o] = "absent"
    BY <1>0, <2>1 DEF IInv, CoreInv, PlaceInv, LocalOK, DraftOK
  <2>3. Rank(first.from) = 0
    BY RankOfNone
  <2> HIDE DEF first, o
  <2>4. Rising(log'[o]) /\ Below(log'[o], "pending")
    <3>1. log'[o] = <<first>>
      BY <1>0, <2>1, <2>2
    <3> QED
      BY <2>3, <3>1, FirstRises
  <2>5. /\ status'[o] = "pending"
        /\ \A n \in OrderId : n # o => log'[n] = log[n] /\ status'[n] = status[n]
    BY <1>0, <2>1, <2>2
  <2>6. transfers[o] = 0
    BY <1>0, <2>2 DEF OnceOK
  <2>7. \A m \in Mover : mpc[m] # "idle" => job[m].order \in OrderId /\ job[m].order # o
    BY <1>00, <2>2
  <2>8. \A n \in OrderId :
          /\ Rising(log'[n])
          /\ Exists(n)' => Below(log'[n], status'[n])
          /\ transfers'[n] <= IF status'[n] = "completed" THEN 1 ELSE 0
    <3> TAKE n \in OrderId
    <3>1. CASE n = o
      BY <2>1, <2>4, <2>5, <2>6, <3>1
    <3>2. CASE n # o
      BY <2>1, <2>5, <3>2 DEF OnceOK, Exists
    <3> QED
      BY <3>1, <3>2
  <2>9. \A m \in Mover : mpc'[m] # "idle" =>
          /\ transfers'[job'[m].order] = 0
          /\ mpc'[m] \in {"write", "record"} => Below(log'[job'[m].order], job'[m].from)
          /\ mpc'[m] \in {"record", "transfer"} => status'[job'[m].order] = job'[m].to
          /\ mpc'[m] = "transfer" => job'[m].to = "completed"
    BY <2>1, <2>5, <2>7 DEF OnceOK
  <2> QED
    BY <2>8, <2>9 DEF OnceOK
<1>4. ASSUME NEW m \in Mover, Load(m) PROVE OnceOK'
  <2>1. /\ UNCHANGED <<status, log, transfers>>
        /\ mpc' = [mpc EXCEPT ![m] = "write"]
    BY <1>4 DEF Load, tables
  <2>2. PICK o \in OrderId, to \in Targets, u \in User :
          /\ Exists(o)
          /\ CanTransition(status[o], to)
          /\ job' = [job EXCEPT ![m] =
                       [order |-> o, from |-> status[o], to |-> to, by |-> u]]
    BY <1>4 DEF Load
  <2>3. status[o] \in Status /\ status[o] # "completed"
    BY <1>0, <2>2 DEF Exists, CanTransition, AllowedTransitions
  <2>4. transfers[o] = 0 /\ Below(log[o], status[o])
    BY <1>0, <2>2, <2>3 DEF OnceOK
  <2>5. /\ mpc'[m] = "write" /\ job'[m].order = o /\ job'[m].from = status[o]
        /\ \A n \in Mover : n # m => mpc'[n] = mpc[n] /\ job'[n] = job[n]
    BY <1>0, <2>1, <2>2
  <2> QED
    BY <2>1, <2>4, <2>5 DEF OnceOK, Exists
<1>5. ASSUME NEW m \in Mover, WriteStatus(m) PROVE OnceOK'
  <2> DEFINE o == job[m].order
  <2>1. /\ mpc[m] = "write"
        /\ status' = [status EXCEPT ![o] = job[m].to]
        /\ mpc' = [mpc EXCEPT ![m] = "record"]
        /\ UNCHANGED <<log, transfers, job>>
    BY <1>5 DEF WriteStatus
  <2>2. /\ o \in OrderId /\ job[m].from \in Status /\ job[m].to \in Targets
        /\ status[o] = job[m].from /\ status[o] # "absent"
        /\ CanTransition(job[m].from, job[m].to)
        /\ \A n \in Mover : n # m /\ mpc[n] # "idle" =>
             job[n].order # o /\ job[n].order \in OrderId
    BY <1>00, <2>1
  <2>3. /\ transfers[o] = 0
        /\ Below(log[o], job[m].from)
    BY <2>1 DEF OnceOK
  <2>4. Below(log[o], job[m].to)
    <3>1. /\ Rank(job[m].from) \in Nat /\ Rank(job[m].to) \in Nat
          /\ Rank(job[m].from) < Rank(job[m].to)
      BY <2>2, RankRises
    <3>2. \A x : Rank(x) \in Nat
      BY DEF Rank
    <3> QED
      BY <2>3, <3>1, <3>2 DEF Below
  <2>5. /\ status'[o] = job[m].to
        /\ \A n \in OrderId : n # o => status'[n] = status[n]
    BY <1>0, <2>1, <2>2
  <2> HIDE DEF o
  <2>6. \A n \in OrderId :
          /\ Rising(log'[n])
          /\ Exists(n)' => Below(log'[n], status'[n])
          /\ transfers'[n] <= IF status'[n] = "completed" THEN 1 ELSE 0
    <3> TAKE n \in OrderId
    <3>1. CASE n = o
      BY <2>1, <2>3, <2>4, <2>5, <3>1 DEF OnceOK
    <3>2. CASE n # o
      BY <2>1, <2>5, <3>2 DEF OnceOK, Exists
    <3> QED
      BY <3>1, <3>2
  <2>7. mpc'[m] = "record" /\ \A n \in Mover : n # m => mpc'[n] = mpc[n]
    BY <1>0, <2>1
  <2>8. \A n \in Mover : mpc'[n] # "idle" =>
          /\ transfers'[job'[n].order] = 0
          /\ mpc'[n] \in {"write", "record"} => Below(log'[job'[n].order], job'[n].from)
          /\ mpc'[n] \in {"record", "transfer"} => status'[job'[n].order] = job'[n].to
          /\ mpc'[n] = "transfer" => job'[n].to = "completed"
    <3> TAKE n \in Mover
    <3>1. CASE n = m
      BY <2>1, <2>3, <2>5, <2>7, <3>1 DEF o
    <3>2. CASE n # m
      BY <2>1, <2>2, <2>5, <2>7, <3>2 DEF OnceOK
    <3> QED
      BY <3>1, <3>2
  <2> QED
    BY <2>6, <2>8 DEF OnceOK
<1>6. ASSUME NEW m \in Mover, RecordTransition(m) PROVE OnceOK'
  <2> DEFINE o == job[m].order
             e == [from |-> job[m].from, to |-> job[m].to]
  <2>1. /\ mpc[m] = "record"
        /\ log' = [log EXCEPT ![o] = Append(log[o], e)]
        /\ UNCHANGED <<status, transfers>>
        /\ \/ /\ job[m].to = "completed"
              /\ mpc' = [mpc EXCEPT ![m] = "transfer"]
              /\ UNCHANGED job
           \/ Free(m)
    BY <1>6 DEF RecordTransition
  <2>2. /\ o \in OrderId /\ job[m].from \in Status /\ job[m].to \in Targets
        /\ CanTransition(job[m].from, job[m].to)
        /\ \A n \in Mover : n # m /\ mpc[n] # "idle" =>
             job[n].order # o /\ job[n].order \in OrderId
    BY <1>00, <2>1
  <2>3. e \in Edge /\ e.from = job[m].from /\ e.to = job[m].to /\ job[m].to \in Status
    BY <2>2 DEF Edge, Targets
  <2>4. /\ status[o] = job[m].to
        /\ transfers[o] = 0
        /\ Below(log[o], e.from)
        /\ Rising(log[o])
    BY <2>1, <2>2 DEF OnceOK
  <2>5. Below(log[o], job[m].to) /\ Rank(e.from) < Rank(job[m].to)
    <3>1. /\ Rank(job[m].from) \in Nat /\ Rank(job[m].to) \in Nat
          /\ Rank(job[m].from) < Rank(job[m].to)
      BY <2>2, RankRises
    <3>2. \A x : Rank(x) \in Nat
      BY DEF Rank
    <3> QED
      BY <2>4, <3>1, <3>2 DEF Below
  <2>6. /\ log'[o] = Append(log[o], e)
        /\ \A n \in OrderId : n # o => log'[n] = log[n]
        /\ log[o] \in Seq(Edge)
    BY <1>0, <2>1, <2>2
  <2> HIDE DEF e, o
  <2>7. Rising(log'[o]) /\ Below(log'[o], status'[o])
    BY <2>1, <2>3, <2>4, <2>5, <2>6, RisingGrows
  <2>8. \A n \in OrderId :
          /\ Rising(log'[n])
          /\ Exists(n)' => Below(log'[n], status'[n])
          /\ transfers'[n] <= IF status'[n] = "completed" THEN 1 ELSE 0
    <3> TAKE n \in OrderId
    <3>1. CASE n = o
      BY <2>1, <2>7, <3>1 DEF OnceOK
    <3>2. CASE n # o
      BY <2>1, <2>6, <3>2 DEF OnceOK, Exists
    <3> QED
      BY <3>1, <3>2
  <2>9. /\ \A n \in Mover : n # m => mpc'[n] = mpc[n] /\ job'[n] = job[n]
        /\ \/ mpc'[m] = "idle"
           \/ /\ mpc'[m] = "transfer"
              /\ job'[m] = job[m]
              /\ job[m].to = "completed"
    BY <1>0, <2>1 DEF Free
  <2>10. \A n \in Mover : mpc'[n] # "idle" =>
          /\ transfers'[job'[n].order] = 0
          /\ mpc'[n] \in {"write", "record"} => Below(log'[job'[n].order], job'[n].from)
          /\ mpc'[n] \in {"record", "transfer"} => status'[job'[n].order] = job'[n].to
          /\ mpc'[n] = "transfer" => job'[n].to = "completed"
    <3> TAKE n \in Mover
    <3>1. CASE n = m
      BY <2>1, <2>4, <2>9, <3>1 DEF o
    <3>2. CASE n # m
      BY <2>1, <2>2, <2>6, <2>9, <3>2 DEF OnceOK
    <3> QED
      BY <3>1, <3>2
  <2> QED
    BY <2>8, <2>10 DEF OnceOK
<1>7. ASSUME NEW m \in Mover, RecordTransfer(m) PROVE OnceOK'
  <2> DEFINE o == job[m].order
  <2>1. /\ mpc[m] = "transfer"
        /\ transfers' = [transfers EXCEPT ![o] = @ + 1] \/ UNCHANGED transfers
        /\ Free(m)
        /\ UNCHANGED <<status, log>>
    BY <1>7 DEF RecordTransfer
  <2>2. /\ o \in OrderId
        /\ \A n \in Mover : n # m /\ mpc[n] # "idle" =>
             job[n].order # o /\ job[n].order \in OrderId
    BY <1>00, <2>1
  <2>3. transfers[o] = 0 /\ status[o] = "completed"
    BY <2>1 DEF OnceOK
  <2>4. /\ transfers'[o] <= 1
        /\ \A n \in OrderId : n # o => transfers'[n] = transfers[n]
    BY <1>0, <2>1, <2>2, <2>3
  <2>5. /\ mpc'[m] = "idle"
        /\ \A n \in Mover : n # m => mpc'[n] = mpc[n] /\ job'[n] = job[n]
    BY <1>0, <2>1 DEF Free
  <2> QED
    BY <2>1, <2>2, <2>3, <2>4, <2>5 DEF OnceOK, Exists
<1>8. ASSUME NEW m \in Mover, MoveFails(m) PROVE OnceOK'
  <2>1. /\ UNCHANGED <<status, log, transfers>>
        /\ mpc'[m] = "idle"
        /\ \A n \in Mover : n # m => mpc'[n] = mpc[n] /\ job'[n] = job[n]
    BY <1>0, <1>8 DEF MoveFails, Free, tables
  <2> QED
    BY <2>1 DEF OnceOK, Exists
<1>9. ASSUME NEW o \in OrderId, ApproveRefund(o) \/ OpenArbitration(o) \/ UpdateFulfillment(o)
      PROVE  UNCHANGED <<status, log, transfers, mpc, job>>
  BY <1>9 DEF ApproveRefund, OpenArbitration, UpdateFulfillment, tables, movers
<1>10. CASE UNCHANGED vars
  BY <1>1, <1>10 DEF vars
<1> QED
  BY <1>1, <1>2, <1>3, <1>4, <1>5, <1>6, <1>7, <1>8, <1>9, <1>10
  DEF Next, CreatorStep, MoverStep

\* Without overlapping transitions, and whatever fails, no order leaves one
\* status twice and at most one transfer is written for it, once it is
\* completed (TransitionStatus 130-203, recordOwnershipTransfer).
THEOREM NothingIsDoneTwice ==
  ASSUME SerialPerOrder = TRUE
  PROVE  Spec => []NothingDoneTwice
<1>1. Init => RestOK /\ LogOK /\ OnceOK
  <2>1. << >> \in Seq(Edge)
    OBVIOUS
  <2> QED
    BY <2>1 DEF Init, RestOK, LogOK, OnceOK, Exists, Legal, Tells, Rising, Below
<1>2. IInv /\ RestOK /\ LogOK /\ OnceOK /\ [Next]_vars => RestOK' /\ LogOK' /\ OnceOK'
  BY NextRest, NextLog, NextOnce DEF IInv, CoreInv
<1>3. IInv /\ RestOK /\ LogOK /\ OnceOK => NothingDoneTwice
  <2> SUFFICES ASSUME RestOK, OnceOK, NEW o \in OrderId,
                      NEW j \in 1..Len(log[o]), NEW k \in 1..Len(log[o]),
                      log[o][j].from = log[o][k].from
               PROVE  j = k
    BY DEF NothingDoneTwice, OnceOK
  <2>1. Rising(log[o]) /\ Len(log[o]) \in Nat
    BY DEF OnceOK, RestOK
  <2>2. \A x : Rank(x) \in Nat
    BY DEF Rank
  <2>3. ~(j < k) /\ ~(k < j)
    BY <2>1, <2>2 DEF Rising
  <2> QED
    BY <2>1, <2>3
<1> QED
  BY <1>1, <1>2, <1>3, SerialInvariant, PTL DEF Spec

-----------------------------------------------------------------------------
(* The log tells the status, unless a transition failed after its UPDATE.  *)

Chained(s) == \A k \in 2..Len(s) : s[k].from = s[k - 1].to
LastTo(s) == s[Len(s)].to

\* The log is a chain; it ends in the status, or one mover has written the
\* status it is about to log as the step from the end of the chain.
TaleOK ==
    /\ \A o \in OrderId \ torn :
         /\ Chained(log[o])
         /\ Exists(o) /\ (\A m \in Mover : mpc[m] = "record" => job[m].order # o) =>
              LastTo(log[o]) = status[o]
    /\ \A m \in Mover : mpc[m] = "record" /\ job[m].order \notin torn =>
         /\ LastTo(log[job[m].order]) = job[m].from
         /\ status[job[m].order] = job[m].to

\* What is logged has been announced, or is about to be: the completion, once
\* the transfer was tried.
Announced(o, t) ==
    \/ <<o, t>> \in spawned
    \/ t = "completed" /\ \E m \in Mover : mpc[m] = "transfer" /\ job[m].order = o

ToldOK ==
    \A o \in OrderId \ torn : \A k \in 2..Len(log[o]) : Announced(o, log[o][k].to)

LEMMA ChainGrows ==
  ASSUME NEW s \in Seq(Edge), NEW e \in Edge, s # << >>, Chained(s), LastTo(s) = e.from
  PROVE  Chained(Append(s, e)) /\ LastTo(Append(s, e)) = e.to
<1>1. /\ Len(s) \in Nat /\ Len(s) # 0
      /\ Len(Append(s, e)) = Len(s) + 1
      /\ \A k \in 1..Len(s) : Append(s, e)[k] = s[k]
      /\ Append(s, e)[Len(s) + 1] = e
  OBVIOUS
<1>2. Chained(Append(s, e))
  <2> SUFFICES ASSUME NEW k \in 2..(Len(s) + 1)
               PROVE  Append(s, e)[k].from = Append(s, e)[k - 1].to
    BY <1>1 DEF Chained
  <2>1. CASE k = Len(s) + 1
    <3>1. k - 1 = Len(s) /\ Len(s) \in 1..Len(s)
      BY <1>1, <2>1
    <3> QED
      BY <1>1, <2>1, <3>1 DEF LastTo
  <2>2. CASE k # Len(s) + 1
    <3>1. k \in 2..Len(s) /\ k \in 1..Len(s) /\ k - 1 \in 1..Len(s)
      BY <1>1, <2>2
    <3> QED
      BY <1>1, <3>1 DEF Chained
  <2> QED
    BY <2>1, <2>2
<1>3. LastTo(Append(s, e)) = e.to
  BY <1>1 DEF LastTo
<1> QED
  BY <1>2, <1>3

LEMMA FirstOfChain ==
  ASSUME NEW s, NEW e, s = <<e>>
  PROVE  Chained(s) /\ LastTo(s) = e.to
  BY DEF Chained, LastTo

LEMMA PlacedPending == [from |-> "", to |-> "pending"].to = "pending"
OBVIOUS

LEMMA NextTale ==
  ASSUME SerialPerOrder = TRUE,
         IInv, RestOK, LogOK, TaleOK, [Next]_vars
  PROVE  TaleOK'
<1> USE OrdersAssumption
<1>0. /\ draft \in [Creator -> OrderId \cup {NoOrder}]
      /\ status \in [OrderId -> Status \cup {"absent"}]
      /\ log \in [OrderId -> Seq(Edge)]
      /\ mpc \in [Mover -> {"idle", "write", "record", "transfer"}]
      /\ job \in [Mover -> Job \cup {NoJob}]
      /\ \A o \in OrderId : Exists(o) => log[o] # << >>
  BY DEF IInv, CoreInv, PlaceInv, LocalOK, RowsOK, JobsOK, RestOK, LogOK
<1>00. ASSUME NEW m \in Mover, mpc[m] # "idle"
       PROVE  /\ job[m] \in Job /\ job[m].order \in OrderId
              /\ job[m].from \in Status /\ job[m].to \in Targets
              /\ status[job[m].order] # "absent"
              /\ mpc[m] = "write" => status[job[m].order] = job[m].from
              /\ \A n \in Mover : n # m /\ mpc[n] # "idle" =>
                   job[n].order # job[m].order /\ job[n].order \in OrderId
  BY <1>00 DEF IInv, CoreInv, JobsOK, SerialOK, Job, Exists
<1>1. ASSUME UNCHANGED <<status, log, mpc, job, torn>> PROVE TaleOK'
  BY <1>1 DEF TaleOK, Exists
<1>2. ASSUME NEW p \in Creator,
             Submit(p) \/ LookupKey(p) \/ ReadCollectible(p) \/ AcquireLock(p)
               \/ CheckActive(p) \/ Insert(p) \/ CreateFails(p)
      PROVE  UNCHANGED <<status, log, mpc, job, torn>>
  BY <1>2 DEF Submit, LookupKey, ReadCollectible, AcquireLock, CheckActive, Insert,
              CreateFails, tables, movers
<1>3. ASSUME NEW p \in Creator, Commit(p) PROVE TaleOK'
  <2> DEFINE o == draft[p]
             first == [from |-> "", to |-> "pending"]
  <2>1. /\ cpc[p] = "commit"
        /\ status' = [status EXCEPT ![o] = "pending"]
        /\ log' = [log EXCEPT ![o] = <<first>>]
        /\ UNCHANGED <<mpc, job, torn>>
    BY <1>3 DEF Commit, movers
  <2>2. o \in OrderId /\ status[o] = "absent"
    BY <1>0, <2>1 DEF IInv, CoreInv, PlaceInv, LocalOK, DraftOK
  <2>3. first.to = "pending"
    BY PlacedPending
  <2> HIDE DEF first, o
  <2>4. Chained(log'[o]) /\ LastTo(log'[o]) = "pending"
    <3>1. log'[o] = <<first>>
      BY <1>0, <2>1, <2>2
    <3> QED
      BY <2>3, <3>1, FirstOfChain
  <2>5. /\ status'[o] = "pending"
        /\ \A n \in OrderId : n # o => log'[n] = log[n] /\ status'[n] = status[n]
    BY <1>0, <2>1, <2>2
  <2>6. \A m \in Mover : mpc[m] # "idle" => job[m].order \in OrderId /\ job[m].order # o
    BY <1>00, <2>2
  <2>7. ASSUME NEW n \in OrderId \ torn'
        PROVE  /\ Chained(log'[n])
               /\ Exists(n)' /\ (\A m \in Mover : mpc'[m] = "record" => job'[m].order # n) =>
                    LastTo(log'[n]) = status'[n]
    <3>1. CASE n = o
      BY <2>4, <2>5, <3>1
    <3>2. CASE n # o
      BY <2>1, <2>5, <3>2 DEF TaleOK, Exists
    <3> QED
      BY <3>1, <3>2
  <2>8. ASSUME NEW m \in Mover, mpc'[m] = "record", job'[m].order \notin torn'
        PROVE  /\ LastTo(log'[job'[m].order]) = job'[m].from
               /\ status'[job'[m].order] = job'[m].to
    BY <2>1, <2>5, <2>6, <2>8 DEF TaleOK
  <2> QED
    BY <2>7, <2>8 DEF TaleOK
<1>4. ASSUME NEW m \in Mover, Load(m) PROVE TaleOK'
  <2>1. /\ UNCHANGED <<status, log, torn>>
        /\ mpc[m] = "idle" /\ mpc' = [mpc EXCEPT ![m] = "write"]
        /\ \A n \in Mover : n # m => job'[n] = job[n]
    BY <1>0, <1>4 DEF Load, tables
  <2>2. \A n \in Mover : mpc'[n] = "record" <=> mpc[n] = "record"
    BY <1>0, <2>1
  <2>3. \A n \in Mover : mpc[n] = "record" => job'[n] = job[n]
    BY <2>1
  <2> QED
    BY <2>1, <2>2, <2>3 DEF TaleOK, Exists
<1>5. ASSUME NEW m \in Mover, WriteStatus(m) PROVE TaleOK'
  <2> DEFINE o == job[m].order
  <2>1. /\ mpc[m] = "write"
        /\ status' = [status EXCEPT ![o] = job[m].to]
        /\ mpc' = [mpc EXCEPT ![m] = "record"]
        /\ UNCHANGED <<log, job, torn>>
    BY <1>5 DEF WriteStatus
  <2>2. /\ o \in OrderId /\ status[o] = job[m].from /\ Exists(o)
        /\ \A n \in Mover : n # m /\ mpc[n] # "idle" =>
             job[n].order # o /\ job[n].order \in OrderId
    BY <1>00, <2>1 DEF Exists
  <2>3. /\ status'[o] = job[m].to
        /\ \A n \in OrderId : n # o => status'[n] = status[n]
        /\ mpc'[m] = "record"
        /\ \A n \in Mover : n # m => mpc'[n] = mpc[n]
    BY <1>0, <2>1, <2>2
  <2>4. o \notin torn => LastTo(log[o]) = job[m].from
    <3>1. \A n \in Mover : mpc[n] = "record" => job[n].order # o
      BY <2>1, <2>2
    <3> QED
      BY <2>2, <3>1 DEF TaleOK
  <2>5. ASSUME NEW n \in OrderId \ torn'
        PROVE  /\ Chained(log'[n])
               /\ Exists(n)' /\ (\A k \in Mover : mpc'[k] = "record" => job'[k].order # n) =>
                    LastTo(log'[n]) = status'[n]
    <3>1. CASE n = o
      BY <2>1, <2>3, <3>1 DEF TaleOK
    <3>2. CASE n # o
      BY <2>1, <2>3, <3>2 DEF TaleOK, Exists
    <3> QED
      BY <3>1, <3>2
  <2>6. ASSUME NEW n \in Mover, mpc'[n] = "record", job'[n].order \notin torn'
        PROVE  /\ LastTo(log'[job'[n].order]) = job'[n].from
               /\ status'[job'[n].order] = job'[n].to
    <3>1. CASE n = m
      BY <2>1, <2>3, <2>4, <2>6, <3>1
    <3>2. CASE n # m
      BY <2>1, <2>2, <2>3, <2>6, <3>2 DEF TaleOK
    <3> QED
      BY <3>1, <3>2
  <2> QED
    BY <2>5, <2>6 DEF TaleOK
<1>6. ASSUME NEW m \in Mover, RecordTransition(m) PROVE TaleOK'
  <2> DEFINE o == job[m].order
             e == [from |-> job[m].from, to |-> job[m].to]
  <2>1. /\ mpc[m] = "record"
        /\ log' = [log EXCEPT ![o] = Append(log[o], e)]
        /\ UNCHANGED <<status, torn>>
        /\ \/ /\ mpc' = [mpc EXCEPT ![m] = "transfer"]
              /\ UNCHANGED job
           \/ Free(m)
    BY <1>6 DEF RecordTransition
  <2>2. /\ o \in OrderId /\ job[m].from \in Status /\ job[m].to \in Status /\ Exists(o)
        /\ \A n \in Mover : n # m /\ mpc[n] # "idle" =>
             job[n].order # o /\ job[n].order \in OrderId
    BY <1>00, <2>1 DEF Exists, Targets
  <2>3. e \in Edge /\ e.from = job[m].from /\ e.to = job[m].to
    BY <2>2 DEF Edge
  <2>4. o \notin torn => /\ status[o] = e.to
                        /\ LastTo(log[o]) = e.from
                        /\ Chained(log[o])
    BY <2>1, <2>2 DEF TaleOK
  <2>5. /\ log'[o] = Append(log[o], e)
        /\ \A n \in OrderId : n # o => log'[n] = log[n]
        /\ log[o] \in Seq(Edge) /\ log[o] # << >>
    BY <1>0, <2>1, <2>2
  <2>6. /\ mpc'[m] # "record"
        /\ \A n \in Mover : n # m => mpc'[n] = mpc[n] /\ job'[n] = job[n]
    BY <1>0, <2>1 DEF Free
  <2> HIDE DEF e, o
  <2>7. o \notin torn => Chained(log'[o]) /\ LastTo(log'[o]) = status'[o]
    BY <2>1, <2>3, <2>4, <2>5, ChainGrows
  <2>8. ASSUME NEW n \in OrderId \ torn'
        PROVE  /\ Chained(log'[n])
               /\ Exists(n)' /\ (\A k \in Mover : mpc'[k] = "record" => job'[k].order # n) =>
                    LastTo(log'[n]) = status'[n]
    <3>1. CASE n = o
      BY <2>1, <2>7, <3>1
    <3>2. ASSUME n # o, Exists(n)', \A k \in Mover : mpc'[k] = "record" => job'[k].order # n
          PROVE  LastTo(log'[n]) = status'[n]
      <4>1. \A k \in Mover : mpc[k] = "record" => job[k].order # n
        BY <2>6, <3>2 DEF o
      <4> QED
        BY <2>1, <2>5, <3>2, <4>1 DEF TaleOK, Exists
    <3>3. n # o => Chained(log'[n])
      BY <2>1, <2>5 DEF TaleOK
    <3> QED
      BY <3>1, <3>2, <3>3
  <2>9. ASSUME NEW n \in Mover, mpc'[n] = "record", job'[n].order \notin torn'
        PROVE  /\ LastTo(log'[job'[n].order]) = job'[n].from
               /\ status'[job'[n].order] = job'[n].to
    BY <2>1, <2>2, <2>5, <2>6, <2>9 DEF TaleOK
  <2> QED
    BY <2>8, <2>9 DEF TaleOK
<1>7. ASSUME NEW m \in Mover, RecordTransfer(m) PROVE TaleOK'
  <2>1. /\ UNCHANGED <<status, log, torn>>
        /\ mpc[m] = "transfer" /\ mpc'[m] = "idle"
        /\ \A n \in Mover : n # m => mpc'[n] = mpc[n] /\ job'[n] = job[n]
    BY <1>0, <1>7 DEF RecordTransfer, Free
  <2>2. \A n \in Mover : mpc'[n] = "record" <=> mpc[n] = "record"
    BY <2>1
  <2>3. \A n \in Mover : mpc[n] = "record" => job'[n] = job[n]
    BY <2>1
  <2> QED
    BY <2>1, <2>2, <2>3 DEF TaleOK, Exists
<1>8. ASSUME NEW m \in Mover, MoveFails(m) PROVE TaleOK'
  <2>1. /\ UNCHANGED <<status, log>>
        /\ mpc'[m] = "idle"
        /\ \A n \in Mover : n # m => mpc'[n] = mpc[n] /\ job'[n] = job[n]
        /\ torn \subseteq torn'
        /\ mpc[m] = "record" => job[m].order \in torn'
    BY <1>0, <1>8 DEF MoveFails, Free, tables
  <2>2. \A o \in OrderId \ torn' :
           (\A n \in Mover : mpc'[n] = "record" => job'[n].order # o) =>
              \A n \in Mover : mpc[n] = "record" => job[n].order # o
    BY <2>1
  <2> QED
    BY <2>1, <2>2 DEF TaleOK, Exists
<1>9. ASSUME NEW o \in OrderId, ApproveRefund(o) \/ OpenArbitration(o) \/ UpdateFulfillment(o)
      PROVE  UNCHANGED <<status, log, mpc, job, torn>>
  BY <1>9 DEF ApproveRefund, OpenArbitration, UpdateFulfillment, tables, movers
<1>10. CASE UNCHANGED vars
  BY <1>1, <1>10 DEF vars
<1> QED
  BY <1>1, <1>2, <1>3, <1>4, <1>5, <1>6, <1>7, <1>8, <1>9, <1>10
  DEF Next, CreatorStep, MoverStep

LEMMA NextTold ==
  ASSUME JobsOK, RestOK, ToldOK, [Next]_vars
  PROVE  ToldOK'
<1>0. /\ log \in [OrderId -> Seq(Edge)]
      /\ mpc \in [Mover -> {"idle", "write", "record", "transfer"}]
      /\ job \in [Mover -> Job \cup {NoJob}]
  BY DEF JobsOK, RestOK
<1>1. ASSUME UNCHANGED <<log, torn>>, spawned \subseteq spawned',
             \A m \in Mover : mpc[m] = "transfer" => mpc'[m] = "transfer" /\ job'[m] = job[m]
      PROVE  ToldOK'
  BY <1>1 DEF ToldOK, Announced
<1>2. ASSUME NEW p \in Creator,
             Submit(p) \/ LookupKey(p) \/ ReadCollectible(p) \/ AcquireLock(p)
               \/ CheckActive(p) \/ Insert(p) \/ CreateFails(p)
      PROVE  ToldOK'
  BY <1>1, <1>2 DEF Submit, LookupKey, ReadCollectible, AcquireLock, CheckActive, Insert,
                    CreateFails, tables, movers
\* A log of one row has nothing to announce.
<1>3. ASSUME NEW p \in Creator, Commit(p) PROVE ToldOK'
  <2> DEFINE first == [from |-> "", to |-> "pending"]
  <2>1. log' = [log EXCEPT ![draft[p]] = <<first>>] /\ UNCHANGED <<spawned, mpc, job, torn>>
    BY <1>3 DEF Commit, movers
  <2> HIDE DEF first
  <2>2. \A o \in OrderId : log'[o] = log[o] \/ Len(log'[o]) = 1
    BY <1>0, <2>1
  <2>3. \A o \in OrderId : Len(log'[o]) = 1 => 2..Len(log'[o]) = {}
    OBVIOUS
  <2> QED
    BY <2>1, <2>2, <2>3 DEF ToldOK, Announced
<1>4. ASSUME NEW m \in Mover, Load(m) \/ WriteStatus(m) PROVE ToldOK'
  BY <1>0, <1>1, <1>4 DEF Load, WriteStatus, tables
<1>5. ASSUME NEW m \in Mover, RecordTransition(m) PROVE ToldOK'
  <2> DEFINE o == job[m].order
             e == [from |-> job[m].from, to |-> job[m].to]
  <2>1. /\ mpc[m] = "record"
        /\ log' = [log EXCEPT ![o] = Append(log[o], e)]
        /\ UNCHANGED torn
    BY <1>5 DEF RecordTransition
  <2>2. /\ spawned \subseteq spawned'
        /\ \A n \in Mover : mpc[n] = "transfer" => mpc'[n] = "transfer" /\ job'[n] = job[n]
    BY <1>0, <1>5 DEF RecordTransition, Free, Notify
  <2>3. ASSUME NEW n, NEW t, n = o, t = e.to PROVE Announced(n, t)'
    <3>1. CASE job[m].to = "completed"
      BY <1>0, <1>5, <2>3, <3>1 DEF RecordTransition, Announced
    <3>2. CASE job[m].to # "completed"
      BY <1>5, <2>3, <3>2 DEF RecordTransition, Notify, Announced, Free
    <3> QED
      BY <3>1, <3>2
  <2>4. o \in OrderId /\ e \in Edge
    BY <2>1 DEF JobsOK, Job, Edge, Targets
  <2> HIDE DEF e, o
  <2>5. \A n \in OrderId : n # o => log'[n] = log[n]
    BY <1>0, <2>1
  <2>6. \A k \in 2..Len(log'[o]) : log'[o][k] = e \/ (k \in 2..Len(log[o]) /\ log'[o][k] = log[o][k])
    <3>1. log[o] \in Seq(Edge) /\ log'[o] = Append(log[o], e)
      BY <1>0, <2>1, <2>4
    <3> QED
      BY <3>1, <2>4
  <2>7. \A n, t : Announced(n, t) => Announced(n, t)'
    BY <2>2 DEF Announced
  <2>8. ASSUME NEW n \in OrderId \ torn', NEW k \in 2..Len(log'[n])
        PROVE  Announced(n, log[n][k].to)'
    <3>1. CASE n = o
      BY <2>1, <2>3, <2>6, <2>7, <3>1 DEF ToldOK
    <3>2. CASE n # o
      BY <2>1, <2>5, <2>7, <3>2 DEF ToldOK
    <3> QED
      BY <3>1, <3>2
  <2> QED
    BY <2>8 DEF ToldOK
<1>6. ASSUME NEW m \in Mover, RecordTransfer(m) PROVE ToldOK'
  <2>1. /\ UNCHANGED <<log, torn>>
        /\ spawned' = spawned \cup {<<job[m].order, "completed">>}
        /\ \A n \in Mover : n # m => mpc'[n] = mpc[n] /\ job'[n] = job[n]
    BY <1>0, <1>6 DEF RecordTransfer, Notify, Free
  <2>2. \A o, t : Announced(o, t) => Announced(o, t)'
    BY <2>1 DEF Announced
  <2> QED
    BY <2>1, <2>2 DEF ToldOK
<1>7. ASSUME NEW m \in Mover, MoveFails(m) PROVE ToldOK'
  <2>1. /\ UNCHANGED <<log, spawned>>
        /\ \A n \in Mover : n # m => mpc'[n] = mpc[n] /\ job'[n] = job[n]
        /\ torn \subseteq torn'
        /\ mpc[m] = "transfer" => job[m].order \in torn'
    BY <1>0, <1>7 DEF MoveFails, Free, tables
  <2>2. \A o \in OrderId \ torn' : \A t : Announced(o, t) => Announced(o, t)'
    BY <2>1 DEF Announced
  <2> QED
    BY <2>1, <2>2 DEF ToldOK
<1>8. ASSUME NEW o \in OrderId, ApproveRefund(o) \/ OpenArbitration(o) \/ UpdateFulfillment(o)
      PROVE  ToldOK'
  BY <1>1, <1>8 DEF ApproveRefund, OpenArbitration, UpdateFulfillment, Notify, tables, movers
<1>9. CASE UNCHANGED vars
  BY <1>1, <1>9 DEF vars
<1> QED
  BY <1>2, <1>3, <1>4, <1>5, <1>6, <1>7, <1>8, <1>9 DEF Next, CreatorStep, MoverStep

\* When the transitions of one order do not overlap, then whatever fails, the log
\* of an order no handler is at work on is the chain of statuses it went through
\* and each was announced, unless one of its own transitions failed after its
\* UPDATE (TransitionStatus 160-203): the UPDATE, the INSERT into the log and the
\* announcement are three steps.
THEOREM LogsTellTheStatus ==
  ASSUME SerialPerOrder = TRUE
  PROVE  Spec => []LogTellsStatus
<1>1. Init => RestOK /\ LogOK /\ TaleOK /\ ToldOK
  <2>1. << >> \in Seq(Edge) /\ Len(<< >>) = 0 /\ 2..0 = {}
    OBVIOUS
  <2> QED
    BY <2>1 DEF Init, RestOK, LogOK, TaleOK, ToldOK, Exists, Legal, Tells, Chained
<1>2. IInv /\ RestOK /\ LogOK /\ TaleOK /\ ToldOK /\ [Next]_vars
        => RestOK' /\ LogOK' /\ TaleOK' /\ ToldOK'
  BY NextRest, NextLog, NextTale, NextTold DEF IInv, CoreInv
<1>3. TaleOK /\ ToldOK => LogTellsStatus
  BY DEF TaleOK, ToldOK, Announced, LogTellsStatus, LastTo, Chained
<1> QED
  BY <1>1, <1>2, <1>3, SerialInvariant, PTL DEF Spec
=============================================================================
