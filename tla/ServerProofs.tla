---------------------------- MODULE ServerProofs ----------------------------
(***************************************************************************)
(* Proofs about the catalogue's cache and about the process around it, for *)
(* every number of files, collectibles, rules, readers and writers.  The   *)
(* server's invariants come from the catalogue's own steps, from the       *)
(* start-up's and from what a crash leaves.                                *)
(***************************************************************************)
EXTENDS Server, TLAPS

-----------------------------------------------------------------------------
(* The cache.                                                              *)

\* The keys are told apart by what they hold.
LEMMA KeysDiffer ==
  /\ ListKey \notin Item /\ RuleKey \notin Item /\ RuleKey # ListKey
  /\ \A r \in Reader, k \in Key : r # k
BY CatalogAssumption DEF CatalogAssumption, Catalogue, Key

\* What a query finds may be cached.
LEMMA ViewIsCacheable ==
  ASSUME IsTable(row), rules \subseteq Rule, NEW k \in Key, k \in Item => k \in DOMAIN row
  PROVE  Cacheable(k, View(k))
<1>1. CASE k = ListKey
  BY <1>1 DEF Cacheable, View, Published, Restrict, IsTable
<1>2. CASE k = RuleKey
  BY <1>2, KeysDiffer DEF Cacheable, View
<1>3. CASE k \in Item
  BY <1>3, KeysDiffer DEF Cacheable, View, IsTable
<1> QED
  BY <1>1, <1>2, <1>3 DEF Key, Catalogue

TableWrite(w) == InsertRow(w) \/ UpdateRow(w) \/ ModerateRow(w) \/ WriteRules(w)

\* A write leaves tables of the right types behind, every row that was there,
\* and the histories of moderation in step with the status columns.
LEMMA WriteEffect ==
  ASSUME TypeOK, NEW w \in Writer, TableWrite(w)
  PROVE  /\ IsTable(row') /\ rules' \subseteq Rule
         /\ DOMAIN row \subseteq DOMAIN row'
         /\ moderated' \in [Item -> Status]
         /\ ModerationSurvives => ModerationSurvives'
<1> USE DEF TypeOK, WriterOK, ModerationSurvives
<1>1. CASE InsertRow(w)
  <2>1. PICK i \in Item \ DOMAIN row, v \in Value :
          /\ row' = [j \in DOMAIN row \cup {i} |->
                       IF j = i THEN [status |-> "published", edited |-> v] ELSE row[j]]
          /\ moderated' = [moderated EXCEPT ![i] = "published"]
    BY <1>1 DEF InsertRow
  <2>2. [status |-> "published", edited |-> v] \in Row
    BY DEF Row, Status
  <2>3. IsTable(row') /\ DOMAIN row \subseteq DOMAIN row'
    BY <2>1, <2>2 DEF IsTable
  <2>4. moderated' \in [Item -> Status]
    BY <2>1 DEF Status
  <2>5. ModerationSurvives => ModerationSurvives'
    BY <2>1 DEF IsTable
  <2>6. UNCHANGED rules
    BY <1>1 DEF InsertRow
  <2> QED
    BY <2>3, <2>4, <2>5, <2>6
<1>2. CASE UpdateRow(w)
  <2> DEFINE i == writer[w].item
  <2>1. i \in DOMAIN row /\ row[i] \in Row
    BY <1>2 DEF UpdateRow, IsTable
  <2>2. PICK v \in Value : row' = [row EXCEPT ![i].edited = v]
    BY <1>2 DEF UpdateRow
  <2> DEFINE new == [row[i] EXCEPT !.edited = v]
  <2>3. new \in Row /\ new.status = row[i].status
    BY <2>1 DEF Row
  <2>4. DOMAIN row' = DOMAIN row /\ \A j \in DOMAIN row : row'[j] = IF j = i THEN new ELSE row[j]
    BY <2>1, <2>2
  <2>5. IsTable(row')
    BY <2>3, <2>4 DEF IsTable
  <2>6. UNCHANGED <<rules, moderated>>
    BY <1>2 DEF UpdateRow
  <2> QED
    BY <2>3, <2>4, <2>5, <2>6
<1>3. CASE ModerateRow(w)
  <2> DEFINE i == writer[w].item
  <2>1. i \in DOMAIN row /\ row[i] \in Row
    BY <1>3 DEF ModerateRow, IsTable
  <2>2. PICK s \in Status : /\ row' = [row EXCEPT ![i].status = s]
                            /\ moderated' = [moderated EXCEPT ![i] = s]
    BY <1>3 DEF ModerateRow
  <2> DEFINE new == [row[i] EXCEPT !.status = s]
  <2>3. new \in Row /\ new.status = s
    BY <2>1 DEF Row
  <2>4. DOMAIN row' = DOMAIN row /\ \A j \in DOMAIN row : row'[j] = IF j = i THEN new ELSE row[j]
    BY <2>1, <2>2
  <2>5. IsTable(row')
    BY <2>3, <2>4 DEF IsTable
  <2>6. moderated' \in [Item -> Status] /\ UNCHANGED rules
    BY <1>3, <2>2 DEF ModerateRow
  <2>7. ModerationSurvives => ModerationSurvives'
    BY <2>1, <2>2, <2>3, <2>4 DEF IsTable
  <2> QED
    BY <2>4, <2>5, <2>6, <2>7
<1>4. CASE WriteRules(w)
  <2>1. UNCHANGED <<row, moderated>> /\ rules' \subseteq Rule
    BY <1>4 DEF WriteRules
  <2> QED
    BY <2>1
<1> QED
  BY <1>1, <1>2, <1>3, <1>4 DEF TableWrite

\* What a write does besides: it goes on to its invalidation, or gives up.
LEMMA WriteFrame ==
  ASSUME NEW w \in Writer, TableWrite(w)
  PROVE  /\ UNCHANGED <<cache, reader>>
         /\ \E keys \in {Catalogue, {RuleKey}} :
              /\ Written(w, keys)
              /\ \A k \in Key \ keys : (k \in Item => k \in DOMAIN row) => View(k)' = View(k)
<1>1. CASE InsertRow(w) \/ UpdateRow(w) \/ ModerateRow(w)
  <2>1. Written(w, Catalogue) /\ UNCHANGED <<rules, cache, reader>>
    BY <1>1 DEF InsertRow, UpdateRow, ModerateRow
  <2>2. \A k \in Key \ Catalogue : View(k)' = View(k)
    BY <2>1, KeysDiffer DEF View, Key
  <2> QED
    BY <2>1, <2>2
<1>2. CASE WriteRules(w)
  <2>1. Written(w, {RuleKey}) /\ UNCHANGED <<row, cache, reader>>
    BY <1>2 DEF WriteRules
  <2>2. \A k \in Key \ {RuleKey} : View(k)' = View(k)
    BY <2>1 DEF View, Published
  <2> QED
    BY <2>1, <2>2
<1> QED
  BY <1>1, <1>2 DEF TableWrite

-----------------------------------------------------------------------------
(* Types. *)

LEMMA InitTyped == Init => TypeOK
BY DEF Init, TypeOK, IsTable, ReaderOK, WriterOK, NoWork, Status

LEMMA NextTyped ==
  ASSUME TypeOK, [Next]_vars
  PROVE  TypeOK'
<1> USE DEF TypeOK, ReaderOK, WriterOK, NoWork, Holding
<1>1. ASSUME NEW r \in Reader, NEW k \in Key, Miss(r, k) PROVE TypeOK'
  BY <1>1 DEF Miss, Cacheable, IsTable
<1>2. ASSUME NEW r \in Reader, Query(r) PROVE TypeOK'
  <2> DEFINE k == reader[r].key
  <2>1. k \in Key /\ ((k \in Item => k \in DOMAIN row) => Cacheable(k, View(k)))
    BY <1>2, ViewIsCacheable DEF Query
  <2>2. CASE reader' = [reader EXCEPT ![r] = NoWork]
    BY <1>2, <2>2 DEF Query, Cacheable, IsTable
  <2>3. CASE /\ k \in Item => k \in DOMAIN row
             /\ reader' = [reader EXCEPT ![r] = [pc |-> "store", key |-> k, value |-> View(k)]]
    <3>1. \A q \in Reader : ReaderOK(q)'
      BY <1>2, <2>1, <2>3 DEF Query, Cacheable, IsTable
    <3> QED
      BY <1>2, <2>3, <3>1 DEF Query, Cacheable, IsTable
  <2> QED
    BY <1>2, <2>2, <2>3 DEF Query
<1>3. ASSUME NEW r \in Reader, Store(r) PROVE TypeOK'
  BY <1>3, KeysDiffer DEF Store, Cacheable, IsTable
<1>4. ASSUME NEW k \in Key, Expire(k) PROVE TypeOK'
  BY <1>4, KeysDiffer DEF Expire, Without, Restrict, Cacheable, IsTable
<1>5. ASSUME NEW w \in Writer, BeginEdit(w) \/ BeginModeration(w) PROVE TypeOK'
  BY <1>5 DEF BeginEdit, BeginModeration, Cacheable, IsTable
<1>6. ASSUME NEW w \in Writer, TableWrite(w) PROVE TypeOK'
  <2>1. /\ IsTable(row') /\ rules' \subseteq Rule /\ DOMAIN row \subseteq DOMAIN row'
        /\ moderated' \in [Item -> Status]
    BY <1>6, WriteEffect
  <2>2. PICK keys \in {Catalogue, {RuleKey}} : Written(w, keys)
    BY <1>6, WriteFrame
  <2>3. UNCHANGED <<cache, reader>>
    BY <1>6, WriteFrame
  <2>4. DOMAIN writer' = Writer /\ \A u \in Writer : WriterOK(u)'
    BY <2>1, <2>2 DEF Written
  <2>5. late' \subseteq Holding(Key) \cup DOMAIN cache
    BY <2>2 DEF Written, Key, Catalogue
  <2> QED
    BY <2>1, <2>3, <2>4, <2>5 DEF Cacheable, IsTable
<1>7. ASSUME NEW w \in Writer, WriteFails(w) PROVE TypeOK'
  BY <1>7 DEF WriteFails, Cacheable, IsTable
<1>8. ASSUME NEW w \in Writer, Invalidate(w) PROVE TypeOK'
  BY <1>8, KeysDiffer DEF Invalidate, Without, Restrict, Cacheable, IsTable, Key, Catalogue
<1>9. CASE UNCHANGED vars
  BY <1>9 DEF vars, Cacheable, IsTable
<1> QED
  BY <1>1, <1>2, <1>3, <1>4, <1>5, <1>6, <1>7, <1>8, <1>9
  DEF Next, ReaderStep, WriterStep, WriterArrives, TableWrite, Writer

\* The table, the cache, the requests in flight and the histories keep their
\* types, and only published rows are cached as a list (List 120-154).
THEOREM TypeCorrect == Spec => []TypeOK
<1>1. TypeOK /\ [Next]_vars => TypeOK'
  BY NextTyped
<1> QED
  BY InitTyped, <1>1, PTL DEF Spec

-----------------------------------------------------------------------------
(* Invalidation. *)

\* While no invalidation of a key is outstanding, what a reader is about to store
\* under it and what is cached is what the table says, or known to be late; and
\* only collectibles that exist are cached.
FreshOK ==
    /\ \A k \in Key : Invalidating(k) = {} =>
         /\ \A r \in Reader : reader[r].pc = "store" /\ reader[r].key = k =>
              r \in late \/ reader[r].value = View(k)
         /\ k \in DOMAIN cache => k \in late \/ cache[k] = View(k)
    /\ \A r \in Reader : reader[r].pc = "store" /\ reader[r].key \in Item => reader[r].key \in DOMAIN row
    /\ \A k \in DOMAIN cache : k \in Item => k \in DOMAIN row

LEMMA InitFresh == Init => FreshOK
BY DEF Init, FreshOK, NoWork

LEMMA NextFresh ==
  ASSUME TypeOK, FreshOK, [Next]_vars
  PROVE  FreshOK'
<1> USE DEF TypeOK, ReaderOK, NoWork, FreshOK
<1>1. ASSUME UNCHANGED <<row, rules>> PROVE \A k \in Key : View(k)' = View(k)
  BY <1>1 DEF View, Published
<1>2. ASSUME NEW r \in Reader, NEW k \in Key, Miss(r, k) PROVE FreshOK'
  BY <1>1, <1>2 DEF Miss, Invalidating
<1>3. ASSUME NEW r \in Reader, Query(r) PROVE FreshOK'
  BY <1>1, <1>3 DEF Query, Invalidating
<1>4. ASSUME NEW r \in Reader, Store(r) PROVE FreshOK'
  BY <1>1, <1>4, KeysDiffer DEF Store, Invalidating
<1>5. ASSUME NEW k \in Key, Expire(k) PROVE FreshOK'
  BY <1>1, <1>5, KeysDiffer DEF Expire, Without, Restrict, Invalidating
<1>6. ASSUME NEW w \in Writer, BeginEdit(w) \/ BeginModeration(w) \/ WriteFails(w) PROVE FreshOK'
  <2>1. \A k \in Key : Invalidating(k)' = {} => Invalidating(k) = {}
    BY <1>6 DEF BeginEdit, BeginModeration, WriteFails, Invalidating
  <2>2. UNCHANGED <<row, rules, cache, reader, late>>
    BY <1>6 DEF BeginEdit, BeginModeration, WriteFails
  <2> QED
    BY <1>1, <2>1, <2>2
<1>7. ASSUME NEW w \in Writer, TableWrite(w) PROVE FreshOK'
  <2>1. UNCHANGED <<cache, reader>> /\ DOMAIN row \subseteq DOMAIN row'
    BY <1>7, WriteFrame, WriteEffect
  <2>2. PICK keys \in {Catalogue, {RuleKey}} :
          /\ Written(w, keys)
          /\ \A k \in Key \ keys : (k \in Item => k \in DOMAIN row) => View(k)' = View(k)
    BY <1>7, WriteFrame
  <2>3. writer[w].pc # "invalidate"
    BY <1>7 DEF TableWrite, InsertRow, UpdateRow, ModerateRow, WriteRules
  <2>4. late \subseteq late'
    BY <2>2 DEF Written
  <2>5. ASSUME NEW k \in Key, Invalidating(k)' = {}
        PROVE  /\ Invalidating(k) = {}
               /\ k \in keys => /\ Holding({k}) \subseteq late'
                                /\ k \in DOMAIN cache => k \in late'
    <3>1. CASE writer' = [writer EXCEPT ![w] = [pc |-> "invalidate", drops |-> keys]]
      <4>1. k \notin keys
        BY <2>5, <3>1 DEF Invalidating
      <4>2. Invalidating(k) = {}
        BY <2>3, <2>5, <3>1 DEF Invalidating
      <4> QED
        BY <4>1, <4>2
    <3>2. CASE /\ writer' = [writer EXCEPT ![w] = NoWork]
               /\ late' = late \cup Holding(keys) \cup (DOMAIN cache \cap keys)
      <4>1. Invalidating(k) = {}
        BY <2>3, <2>5, <3>2 DEF Invalidating
      <4> QED
        BY <3>2, <4>1 DEF Holding
    <3> QED
      BY <2>2, <3>1, <3>2 DEF Written
  <2> QED
    BY <2>1, <2>2, <2>4, <2>5 DEF Holding
<1>8. ASSUME NEW w \in Writer, Invalidate(w) PROVE FreshOK'
  <2> DEFINE keys == writer[w].drops
  <2>1. /\ cache' = Restrict(cache, DOMAIN cache \ keys)
        /\ late' = (late \ keys) \cup Holding(keys)
        /\ writer' = [writer EXCEPT ![w] = NoWork]
        /\ UNCHANGED <<row, rules, reader>>
        /\ writer[w].pc = "invalidate"
    BY <1>8 DEF Invalidate, Without
  <2>2. keys \subseteq Key
    BY <2>1 DEF WriterOK, Key, Catalogue
  <2>3. DOMAIN cache' = DOMAIN cache \ keys /\ \A k \in DOMAIN cache' : cache'[k] = cache[k]
    BY <2>1 DEF Restrict
  <2>4. ASSUME NEW k \in Key \ keys, Invalidating(k)' = {} PROVE Invalidating(k) = {}
    BY <2>1, <2>4 DEF Invalidating
  <2>5. \A r \in Reader : (r \in late => r \in late')
    BY <2>1, <2>2, KeysDiffer
  <2>6. \A k \in Key \ keys : (k \in late => k \in late')
    BY <2>1
  <2>7. Holding(keys) \subseteq late'
    BY <2>1
  <2>8. \A k \in Key : View(k)' = View(k)
    BY <1>1, <2>1
  <2>9. ASSUME NEW k \in keys, NEW r \in Reader, reader[r].pc = "store", reader[r].key = k
        PROVE  r \in late'
    BY <2>7, <2>9 DEF Holding
  <2>10. ASSUME NEW k \in Key, Invalidating(k)' = {}
         PROVE  /\ \A r \in Reader : reader[r].pc = "store" /\ reader[r].key = k =>
                      r \in late' \/ reader[r].value = View(k)
                /\ k \in DOMAIN cache' => k \in late' \/ cache'[k] = View(k)
    <3>1. CASE k \in keys
      BY <2>3, <2>9, <3>1
    <3>2. CASE k \notin keys
      BY <2>3, <2>4, <2>5, <2>6, <2>10, <3>2
    <3> QED
      BY <3>1, <3>2
  <2> QED
    BY <2>1, <2>3, <2>8, <2>10
<1>9. CASE UNCHANGED vars
  BY <1>1, <1>9 DEF vars, Invalidating
<1> QED
  BY <1>2, <1>3, <1>4, <1>5, <1>6, <1>7, <1>8, <1>9
  DEF Next, ReaderStep, WriterStep, WriterArrives, TableWrite, Writer

\* Whenever no writer is between its statement and the invalidation of a key, a
\* stale entry goes back to a slow reader or to a statement that reported an
\* error: what the writers drop is all that shows what they wrote (Create 59-65,
\* Update 193-198, Hide and Publish 207-227, CreateIPRule 50-55).
THEOREM OnlyLateIsStale == Spec => []InvalidationIsEffective
<1>1. FreshOK => InvalidationIsEffective
  BY DEF FreshOK, InvalidationIsEffective, Stale
<1>2. TypeOK /\ FreshOK /\ [Next]_vars => FreshOK'
  BY NextFresh
<1> QED
  BY InitFresh, TypeCorrect, <1>1, <1>2, PTL DEF Spec

-----------------------------------------------------------------------------
(* Moderation. *)

LEMMA NextModerated ==
  ASSUME TypeOK, ModerationSurvives, [Next]_vars
  PROVE  ModerationSurvives'
<1>1. ASSUME NEW w \in Writer, TableWrite(w) PROVE ModerationSurvives'
  BY <1>1, WriteEffect
<1>2. ASSUME NEW r \in Reader, ReaderStep(r) \/ \E k \in Key : Miss(r, k)
      PROVE  UNCHANGED <<row, moderated>>
  BY <1>2 DEF ReaderStep, Miss, Query, Store
<1>3. ASSUME NEW w \in Writer, BeginEdit(w) \/ BeginModeration(w) \/ WriteFails(w) \/ Invalidate(w)
      PROVE  UNCHANGED <<row, moderated>>
  BY <1>3 DEF BeginEdit, BeginModeration, WriteFails, Invalidate
<1>4. ASSUME NEW k \in Key, Expire(k) PROVE UNCHANGED <<row, moderated>>
  BY <1>4 DEF Expire
<1>5. UNCHANGED vars => UNCHANGED <<row, moderated>>
  BY DEF vars
<1>6. ASSUME UNCHANGED <<row, moderated>> PROVE ModerationSurvives'
  BY <1>6 DEF ModerationSurvives
<1> QED
  BY <1>1, <1>2, <1>3, <1>4, <1>5, <1>6
  DEF Next, WriterStep, WriterArrives, TableWrite, Writer

\* However edits and moderations overlap, a collectible has the status it was
\* last given on purpose (store Update 116-122 leaves the status column alone).
THEOREM ModerationPrevails == Spec => []ModerationSurvives
<1>1. Init => ModerationSurvives
  BY DEF Init, ModerationSurvives
<1>2. TypeOK /\ ModerationSurvives /\ [Next]_vars => ModerationSurvives'
  BY NextModerated
<1> QED
  BY TypeCorrect, <1>1, <1>2, PTL DEF Spec

-----------------------------------------------------------------------------
(* The start-up.                                                           *)

USE DEF main

\* What the records, the schema and the start under way tell of one another:
\* files are executed in order, and a record is of a file whose effect is there.
Ordered ==
    /\ \A m \in recorded \cup present, j \in Boot!File : j < m => j \in recorded
    /\ boot \in {"check", "execute", "record"} =>
         \A j \in Boot!File : j < at => j \in recorded

Honest ==
    ~blind => /\ recorded \subseteq present
              /\ boot \in {"execute", "record"} => at \notin recorded
              /\ boot = "up" => present = Boot!File

BootInv ==
    /\ Boot!TypeOK
    /\ Ordered
    /\ Honest
    /\ boot = "record" => at \in present

LEMMA FilesAreNumbers ==
    /\ Boot!File \subseteq Nat \ {0}
    /\ Last \in Nat
    /\ \A m \in Boot!File : m <= Last
    /\ \A k \in Nat : k >= 1 /\ k <= Last => k \in Boot!File
    /\ \A m \in Boot!File : Undoes[m] \subseteq Boot!File /\ \A n \in Undoes[m] : n > m
<1>1. /\ Last \in Nat
      /\ Undoes \in [Boot!File -> SUBSET Boot!File]
      /\ \A m \in Boot!File : \A n \in Undoes[m] : n > m
  BY ServerAssumption DEF Boot!MigrationsAssumption
<1>2. \A m \in Boot!File : Undoes[m] \subseteq Boot!File
  BY <1>1
<1> QED
  BY <1>1, <1>2 DEF Boot!File

LEMMA BootInit == Boot!Init => BootInv
<1> SUFFICES ASSUME Boot!Init PROVE BootInv
  OBVIOUS
<1>1. Last \in Nat
  BY FilesAreNumbers
<1>2. Boot!TypeOK
  <2>1. 1 \in 1..(Last + 1)
    BY <1>1
  <2>2. FALSE \in BOOLEAN
    OBVIOUS
  <2> QED
    BY <2>1, <2>2 DEF Boot!Init, Boot!TypeOK
<1>3. Ordered /\ Honest
  BY DEF Boot!Init, Ordered, Honest
<1> QED
  BY <1>2, <1>3 DEF BootInv, Boot!Init

LEMMA BootNext ==
  ASSUME BootInv, [Boot!Next]_main
  PROVE  BootInv'
<1> USE FilesAreNumbers DEF BootInv, Ordered, Honest, Boot!TypeOK
<1>1. CASE Boot!Start
  BY <1>1 DEF Boot!Start
<1>2. CASE Boot!Stop
  BY <1>2 DEF Boot!Stop
<1>3. CASE Boot!NoDirectory
  BY <1>3 DEF Boot!NoDirectory
<1>4. CASE Boot!Check
  <2>1. CASE at \in recorded
    BY <1>4, <2>1 DEF Boot!Check
  <2>2. CASE at \notin recorded
    BY <1>4, <2>2 DEF Boot!Check
  <2> QED
    BY <2>1, <2>2
<1>5. CASE Boot!Overlook
  BY <1>5 DEF Boot!Overlook
<1>6. CASE Boot!Execute
  <2>1. at \in Boot!File /\ Undoes[at] \subseteq Boot!File /\ \A n \in Undoes[at] : n > at
    BY <1>6 DEF Boot!Execute
  <2>2. CASE UNCHANGED present
    BY <1>6, <2>2 DEF Boot!Execute
  <2>3. CASE present' = (present \cup {at}) \ Undoes[at] /\ boot' = "record"
    <3>1. UNCHANGED <<at, recorded, blind>>
      BY <1>6 DEF Boot!Execute
    <3>2. at \in present' /\ present' \subseteq present \cup {at}
      BY <2>1, <2>3
    <3>3. Ordered' /\ Boot!TypeOK'
      BY <1>6, <2>1, <2>3, <3>1, <3>2 DEF Boot!Execute
    <3>4. ASSUME ~blind PROVE recorded \subseteq present'
      BY <1>6, <2>1, <2>3, <3>1, <3>4 DEF Boot!Execute
    <3> QED
      BY <1>6, <2>3, <3>1, <3>2, <3>3, <3>4 DEF Boot!Execute
  <2> QED
    BY <1>6, <2>2, <2>3 DEF Boot!Execute
<1>7. CASE Boot!Record
  <2>1. CASE at \in recorded
    BY <1>7, <2>1 DEF Boot!Record
  <2>2. CASE at \notin recorded
    <3>1. /\ boot' = "check" /\ at' = at + 1 /\ recorded' = recorded \cup {at}
          /\ UNCHANGED <<present, blind>>
          /\ at \in Boot!File
      BY <1>7, <2>2 DEF Boot!Record
    <3>2. Ordered'
      BY <1>7, <3>1 DEF Boot!Record
    <3> QED
      BY <1>7, <3>1, <3>2 DEF Boot!Record
  <2> QED
    BY <2>1, <2>2
<1>8. CASE Boot!Serve
  <2>1. \A j \in Boot!File : j \in recorded
    BY <1>8 DEF Boot!Serve
  <2>2. ~blind => present = Boot!File
    BY <2>1
  <2>3. boot' = "up" /\ at' = 1 /\ blind' = (blind /\ present # Boot!File)
        /\ UNCHANGED <<present, recorded>>
    BY <1>8 DEF Boot!Serve
  <2>4. Honest'
    BY <2>2, <2>3
  <2> QED
    BY <2>3, <2>4
<1>9. CASE UNCHANGED main
  BY <1>9
<1> QED
  BY <1>1, <1>2, <1>3, <1>4, <1>5, <1>6, <1>7, <1>8, <1>9 DEF Boot!Next, Boot!Proceed

-----------------------------------------------------------------------------
(* A step of the process is a step of the start-up and one of the catalogue, *)
(* or a crash.                                                               *)

LEMMA StepSplits ==
  ASSUME [ServerNext]_serverVars
  PROVE  /\ [Boot!Next]_main
         /\ [Next]_vars \/ Crash
<1>1. CASE Crash
  BY <1>1 DEF Crash, Boot!Next
<1>2. CASE StartUp \/ StartUpBlind
  BY <1>2 DEF StartUp, StartUpBlind, Boot!Next
<1>3. CASE Arrive
  BY <1>3 DEF Arrive, Next
<1>4. ASSUME NEW r \in Reader, Read(r) PROVE [Next]_vars /\ UNCHANGED main
  BY <1>4 DEF Read, Next
<1>5. ASSUME NEW w \in Writer, Write(w) \/ WriteRefused(w)
      PROVE  [Next]_vars /\ UNCHANGED main
  BY <1>5 DEF Write, WriteRefused, Next
<1>6. ASSUME NEW k \in Key, Age(k) PROVE [Next]_vars /\ UNCHANGED main
  BY <1>6 DEF Age, Next
<1>7. CASE UNCHANGED serverVars
  BY <1>7 DEF serverVars, vars
<1>8. Arrive => UNCHANGED main
  BY DEF Arrive
<1> QED
  BY <1>1, <1>2, <1>3, <1>4, <1>5, <1>6, <1>7, <1>8 DEF ServerNext

\* A crash takes with it all that could be stale.
LEMMA CrashIsClean ==
  ASSUME TypeOK, Crash
  PROVE  TypeOK' /\ FreshOK' /\ UNCHANGED <<row, moderated>>
BY DEF Crash, TypeOK, IsTable, ReaderOK, WriterOK, NoWork, Holding, FreshOK, Cacheable

ServerInv == BootInv /\ TypeOK /\ FreshOK /\ ModerationSurvives

LEMMA ServerInit_Inv == ServerInit => ServerInv
<1> SUFFICES ASSUME ServerInit PROVE ServerInv
  OBVIOUS
<1>1. BootInv
  BY BootInit DEF ServerInit
<1>2. TypeOK /\ FreshOK
  BY InitTyped, InitFresh DEF ServerInit
<1>3. ModerationSurvives
  BY DEF ServerInit, Init, ModerationSurvives
<1> QED
  BY <1>1, <1>2, <1>3 DEF ServerInv

LEMMA ServerNext_Inv ==
  ASSUME ServerInv, [ServerNext]_serverVars
  PROVE  ServerInv'
<1> USE DEF ServerInv
<1>1. BootInv'
  BY StepSplits, BootNext
<1>2. CASE [Next]_vars
  BY <1>1, <1>2, NextTyped, NextFresh, NextModerated
<1>3. CASE Crash
  BY <1>1, <1>3, CrashIsClean DEF ModerationSurvives
<1> QED
  BY <1>2, <1>3, StepSplits

LEMMA ServerInvariant == ServerSpec => []ServerInv
<1>1. ServerInv /\ [ServerNext]_serverVars => ServerInv'
  BY ServerNext_Inv
<1> QED
  BY ServerInit_Inv, <1>1, PTL DEF ServerSpec

\* Types, across any number of restarts: of the catalogue, its cache and the
\* requests, and of the start-up (List 120-154, runMigrations 229-287).
THEOREM ServerTypeCorrect == ServerSpec => []ServerTypeOK
<1>1. ServerInv => ServerTypeOK
  BY DEF ServerInv, BootInv, ServerTypeOK
<1> QED
  BY <1>1, ServerInvariant, PTL

\* Whatever is read, written and cached in the meantime, the process starts,
\* migrates and ends as Migrations says: what holds of every start holds of the
\* starts of the server that also serves (main 62-70, runMigrations 229-287).
THEOREM ServerStartsUp == ServerSpec => Boot!Spec
<1>1. ServerInit => Boot!Init
  BY DEF ServerInit
<1>2. [ServerNext]_serverVars => [Boot!Next]_Boot!bootVars
  BY StepSplits DEF Boot!bootVars
<1> QED
  BY <1>1, <1>2, PTL DEF ServerSpec, Boot!Spec

\* A start may be interrupted anywhere and repeated any number of times: when
\* the server serves and none of its starts was blind, every file has taken
\* effect and none was undone (runMigrations 229-287).
THEOREM ServesMigrated == ServerSpec => []ServingIsMigrated
<1>1. ServerInv => ServingIsMigrated
  BY DEF ServerInv, BootInv, Honest, ServingIsMigrated, Boot!ServingIsMigrated
<1> QED
  BY <1>1, ServerInvariant, PTL

\* Across restarts, too, only a slow reader or a statement that reported an error
\* leaves a stale entry (Update 193-198, Hide and Publish 207-227).
THEOREM ServerOnlyLateIsStale == ServerSpec => []InvalidationIsEffective
<1>1. ServerInv => InvalidationIsEffective
  BY DEF ServerInv, FreshOK, InvalidationIsEffective, Stale
<1> QED
  BY <1>1, ServerInvariant, PTL

\* Across restarts, too, a moderation is only undone by another one.
THEOREM ServerModerationPrevails == ServerSpec => []ModerationSurvives
<1>1. ServerInv => ModerationSurvives
  BY DEF ServerInv
<1> QED
  BY <1>1, ServerInvariant, PTL
=============================================================================
