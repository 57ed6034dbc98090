------------------------------ MODULE Catalog -------------------------------
(***************************************************************************)
(* The in-process cache and the tables behind it: the catalogue and the IP *)
(* rules that filter every request.  A reader that misses reads the table  *)
(* and later stores what it read; a writer writes the table, for an edit   *)
(* from a row read before, and drops the cached collectibles and lists, or *)
(* the cached rules.  The cache lock makes single operations atomic,       *)
(* nothing ties them together.  Server puts the process around it.         *)
(***************************************************************************)
EXTENDS Naturals, FiniteSets, Functions

CONSTANTS
    Item,             \* collectibles
    Value,            \* values of the columns that the seller may edit
    Rule,             \* IP rules
    Reader,           \* goroutines that read through the cache
    Seller, Admin,    \* goroutines with a write of a seller, an administrator
    ListKey,          \* the cached catalogue list
    RuleKey           \* the cached rules

Catalogue == Item \cup {ListKey}
Key == Catalogue \cup {RuleKey}
Writer == Seller \cup Admin
Status == {"published", "hidden"}
Row == [status : Status, edited : Value]

ASSUME CatalogAssumption ==
    /\ ListKey \notin Item
    /\ RuleKey \notin Catalogue
    /\ Reader \cap Key = {}

NoWork == [pc |-> "idle"]

VARIABLES
    row,       \* the table collectibles, by id
    rules,     \* the table ip_rules
    cache,     \* what is cached and has not expired, by key
    reader,    \* what each reader is doing
    writer,    \* what each writer is doing
    \* History variables.
    moderated, \* the status last given to each collectible on purpose
    late       \* readers and keys that hold what was read before a write that
               \* has emptied the cache since, or ended without doing so

vars == <<row, rules, cache, reader, writer, moderated, late>>

Init ==
    /\ row = << >>
    /\ rules = {}
    /\ cache = << >>
    /\ reader = [r \in Reader |-> NoWork]
    /\ writer = [w \in Writer |-> NoWork]
    /\ moderated = [i \in Item |-> "published"]
    /\ late = {}

\* Mutant: the list is queried without its filter.
PublishedAll == DOMAIN row

\* What a query for k returns: the published rows, the rules, or a row.
Published == {i \in DOMAIN row : row[i].status = "published"}
View(k) ==
    CASE k = ListKey -> Restrict(row, Published)
      [] k = RuleKey -> rules
      [] OTHER -> row[k]

\* Who is about to store one of keys, or to drop k.
Holding(keys) == {r \in Reader : reader[r].pc = "store" /\ reader[r].key \in keys}
Invalidating(k) == {w \in Writer : writer[w].pc = "invalidate" /\ k \in writer[w].drops}

-----------------------------------------------------------------------------
(* GetByID, List and getCachedIPRules. *)

\* A hit answers from the cache and changes nothing; a miss goes on to the table.
Miss(r, k) ==
    /\ reader[r] = NoWork
    /\ k \notin DOMAIN cache
    /\ reader' = [reader EXCEPT ![r] = [pc |-> "query", key |-> k]]
    /\ UNCHANGED <<row, rules, cache, writer, moderated, late>>

\* The query may fail, find no row, or find a hidden one that is not for this
\* viewer: nothing is stored then.
Query(r) ==
    /\ reader[r].pc = "query"
    /\ LET k == reader[r].key IN
       \/ /\ k \in Item => k \in DOMAIN row
          /\ reader' = [reader EXCEPT ![r] = [pc |-> "store", key |-> k, value |-> View(k)]]
       \/ reader' = [reader EXCEPT ![r] = NoWork]
    /\ UNCHANGED <<row, rules, cache, writer, moderated, late>>

Store(r) ==
    /\ reader[r].pc = "store"
    /\ cache' = [k \in DOMAIN cache \cup {reader[r].key} |->
                   IF k = reader[r].key THEN reader[r].value ELSE cache[k]]
    /\ reader' = [reader EXCEPT ![r] = NoWork]
    /\ late' = (late \ {r, reader[r].key}) \cup (IF r \in late THEN {reader[r].key} ELSE {})
    /\ UNCHANGED <<row, rules, writer, moderated>>

Without(keys) == Restrict(cache, DOMAIN cache \ keys)

\* Mutant: entries without a time to live.
ExpireNever(k) == k \in DOMAIN cache /\ UNCHANGED vars

\* Two minutes for a collectible, one for the rules, half a minute for a list.
Expire(k) ==
    /\ k \in DOMAIN cache
    /\ cache' = Without({k})
    /\ late' = late \ {k}
    /\ UNCHANGED <<row, rules, reader, writer, moderated>>

-----------------------------------------------------------------------------
(* Create, Update, Hide and Publish; CreateIPRule and DeleteIPRule. *)

\* Update keeps the whole row it read.
BeginEdit(w) ==
    /\ writer[w] = NoWork
    /\ \E i \in DOMAIN row :
         writer' = [writer EXCEPT ![w] = [pc |-> "update", item |-> i, row |-> row[i]]]
    /\ UNCHANGED <<row, rules, cache, reader, moderated, late>>

\* Hide and Publish only want the row to exist.
BeginModeration(w) ==
    /\ writer[w] = NoWork
    /\ \E i \in DOMAIN row :
         writer' = [writer EXCEPT ![w] = [pc |-> "moderate", item |-> i]]
    /\ UNCHANGED <<row, rules, cache, reader, moderated, late>>

\* The writer goes on to drop keys, or its statement reports an error and it
\* stops, although the table may have changed.
Written(w, keys) ==
    \/ /\ writer' = [writer EXCEPT ![w] = [pc |-> "invalidate", drops |-> keys]]
       /\ UNCHANGED late
    \/ /\ writer' = [writer EXCEPT ![w] = NoWork]
       /\ late' = late \cup Holding(keys) \cup (DOMAIN cache \cap keys)

\* Create is one INSERT; the row gets a fresh id and is published.
InsertRow(w) ==
    /\ writer[w] = NoWork
    /\ \E i \in Item \ DOMAIN row, v \in Value :
         /\ row' = [j \in DOMAIN row \cup {i} |->
                      IF j = i THEN [status |-> "published", edited |-> v] ELSE row[j]]
         /\ moderated' = [moderated EXCEPT ![i] = "published"]
    /\ Written(w, Catalogue)
    /\ UNCHANGED <<rules, cache, reader>>

\* Mutant: the UPDATE writes every column, the status that was read included.
UpdateWholeRow(w) ==
    /\ writer[w].pc = "update"
    /\ \E v \in Value :
         row' = [row EXCEPT ![writer[w].item] = [writer[w].row EXCEPT !.edited = v]]
    /\ Written(w, Catalogue)
    /\ UNCHANGED <<rules, cache, reader, moderated>>

\* The editable columns are written, with the value that was read or the one
\* requested; the status is not one of them.
UpdateRow(w) ==
    /\ writer[w].pc = "update"
    /\ \E v \in Value : row' = [row EXCEPT ![writer[w].item].edited = v]
    /\ Written(w, Catalogue)
    /\ UNCHANGED <<rules, cache, reader, moderated>>

ModerateRow(w) ==
    /\ writer[w].pc = "moderate"
    /\ \E s \in Status :
         /\ row' = [row EXCEPT ![writer[w].item].status = s]
         /\ moderated' = [moderated EXCEPT ![writer[w].item] = s]
    /\ Written(w, Catalogue)
    /\ UNCHANGED <<rules, cache, reader>>

\* An administrator adds a rule or deletes one.
WriteRules(w) ==
    /\ writer[w] = NoWork
    /\ \/ \E x \in Rule \ rules : rules' = rules \cup {x}
       \/ \E x \in rules : rules' = rules \ {x}
    /\ Written(w, {RuleKey})
    /\ UNCHANGED <<row, cache, reader, moderated>>

WriteFails(w) ==
    /\ writer[w].pc \in {"update", "moderate"}
    /\ writer' = [writer EXCEPT ![w] = NoWork]
    /\ UNCHANGED <<row, rules, cache, reader, moderated, late>>

\* Mutant: a prefix that spares the lists ("collectible:").
InvalidateItems(w) ==
    /\ writer[w].pc = "invalidate"
    /\ cache' = Without(writer[w].drops \ {ListKey})
    /\ writer' = [writer EXCEPT ![w] = NoWork]
    /\ late' = (late \ writer[w].drops) \cup Holding(writer[w].drops)
    /\ UNCHANGED <<row, rules, reader, moderated>>

\* DeletePrefix("collectible") hits "collectible:<id>" and "collectibles:<list>",
\* Delete("ip_rules") the rules.
Invalidate(w) ==
    /\ writer[w].pc = "invalidate"
    /\ cache' = Without(writer[w].drops)
    /\ writer' = [writer EXCEPT ![w] = NoWork]
    /\ late' = (late \ writer[w].drops) \cup Holding(writer[w].drops)
    /\ UNCHANGED <<row, rules, reader, moderated>>

-----------------------------------------------------------------------------
ReaderStep(r) == Query(r) \/ Store(r)
WriterStep(w) == UpdateRow(w) \/ ModerateRow(w) \/ Invalidate(w)

WriterArrives ==
    \/ \E w \in Seller : BeginEdit(w) \/ InsertRow(w)
    \/ \E w \in Admin : BeginModeration(w) \/ WriteRules(w)

Next ==
    \/ \E r \in Reader : ReaderStep(r) \/ \E k \in Key : Miss(r, k)
    \/ WriterArrives
    \/ \E w \in Writer : WriterStep(w) \/ WriteFails(w)
    \/ \E k \in Key : Expire(k)

Spec == Init /\ [][Next]_vars

-----------------------------------------------------------------------------
IsTable(t) == DOMAIN t \subseteq Item /\ \A i \in DOMAIN t : t[i] \in Row

Cacheable(k, v) ==
    CASE k = ListKey -> IsTable(v) /\ \A i \in DOMAIN v : v[i].status = "published"
      [] k = RuleKey -> v \subseteq Rule
      [] OTHER -> v \in Row

ReaderOK(r) ==
    /\ reader[r].pc \in {"idle", "query", "store"}
    /\ reader[r].pc # "idle" => reader[r].key \in Key
    /\ reader[r].pc = "store" => Cacheable(reader[r].key, reader[r].value)

WriterOK(w) ==
    /\ writer[w].pc \in {"idle", "update", "moderate", "invalidate"}
    /\ writer[w].pc \in {"update", "moderate"} => writer[w].item \in DOMAIN row
    /\ writer[w].pc = "update" => writer[w].row \in Row
    /\ writer[w].pc = "invalidate" => writer[w].drops \in {Catalogue, {RuleKey}}

\* Types; what is cached or on its way into the cache is a row, published rows
\* or rules, as its key says.
TypeOK ==
    /\ IsTable(row)
    /\ rules \subseteq Rule
    /\ DOMAIN cache \subseteq Key
    /\ \A k \in DOMAIN cache : Cacheable(k, cache[k])
    /\ DOMAIN reader = Reader /\ \A r \in Reader : ReaderOK(r)
    /\ DOMAIN writer = Writer /\ \A w \in Writer : WriterOK(w)
    /\ moderated \in [Item -> Status]
    /\ late \subseteq Holding(Key) \cup DOMAIN cache

Stale(k) == k \in DOMAIN cache /\ cache[k] # View(k)

\* "On update of a collectible, delete cache entry immediately" (docs/design.md
\* 254): once every writer has dropped its entries, one only differs from the
\* table if a reader that was slower than the write put it there, or if the
\* statement reported an error (Create 59-65, Update 193-198, Hide and Publish
\* 207-227, CreateIPRule and DeleteIPRule 50-70).
InvalidationIsEffective ==
    \A k \in Key : Invalidating(k) = {} /\ Stale(k) => k \in late

\* However readers and writers overlap, a cached collectible, list or rule set
\* that is out of date does not stay so (TTLs of GetByID 93, List 138
\* and getCachedIPRules 107).
StaleIsTransient == \A k \in Key : Stale(k) ~> ~Stale(k)

\* A seller's edit that overlaps a moderation does not bring the collectible
\* back, or hide it: it has the status it was last given, although Update writes
\* the row from an older read (Update 166-193, store Update 116-122).
ModerationSurvives == \A i \in DOMAIN row : row[i].status = moderated[i]
=============================================================================
