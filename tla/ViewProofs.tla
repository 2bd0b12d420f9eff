---------------------------- MODULE ViewProofs --------------------------------
(***************************************************************************)
(* Theorems about what a user is shown.  By the queries: of any documents, *)
(* any page size, any number of versions and of writes between them.  By   *)
(* the browser tab: for any files dropped, any number of batches,          *)
(* parameters and versions, and answers that come at any time.             *)
(***************************************************************************)
EXTENDS CatalogReads, Browser, FiniteSetTheorems, TLAPS

-----------------------------------------------------------------------------
(*                              The catalog.                               *)
-----------------------------------------------------------------------------
(* The rows. *)

\* The current version is the newest there is.
StoredRow(row) ==
    /\ DOMAIN row = {"created", "current", "last", "confirmed", "scan"}
    /\ row.created \in Nat /\ row.last \in Nat /\ row.confirmed \in BOOLEAN
    /\ row.current \in DOMAIN row.scan /\ row.current <= row.last
    /\ \A v \in DOMAIN row.scan : v \in Nat \ {0} /\ v <= row.current /\ row.scan[v] \in Scans

Columns ==
    /\ clock \in Nat /\ Present \subseteq Ids /\ Present \cap deleted = {}
    /\ \A id \in Present : StoredRow(documents[id])

\* The queries on given rows.
SelectedOf(rows, now) ==
    {id \in DOMAIN rows : TenantOfId[id] = Viewer.tenant /\ Visible(id, rows[id], Viewer, now)}
BeforeIn(rows, a, b) ==
    \/ rows[a].created > rows[b].created
    \/ rows[a].created = rows[b].created /\ a > b
Ahead(rows, now, id) == {d \in SelectedOf(rows, now) : BeforeIn(rows, d, id)}
RankIn(rows, now, id) == Cardinality(Ahead(rows, now, id)) + 1

LEMMA OnTheRows ==
    ASSUME NEW n
    PROVE  /\ Selected(n) = SelectedOf(documents, n)
           /\ \A id : Rank(n, id) = RankIn(documents, n, id)
           /\ Selected(n)' = SelectedOf(documents', n')
<1>1. Selected(n) = SelectedOf(documents, n) /\ Selected(n)' = SelectedOf(documents', n')
  BY DEF Selected, SelectedOf, Present
<1>2. ASSUME NEW id PROVE Rank(n, id) = RankIn(documents, n, id)
  BY <1>1 DEF Rank, RankIn, Ahead, Before, BeforeIn
<1> QED
  BY <1>1, <1>2

\* What a write leaves of the rows that stay.
Kept(rows, new) ==
    \A id \in DOMAIN rows \cap DOMAIN new :
        /\ new[id].created = rows[id].created
        /\ rows[id].confirmed => new[id].confirmed

\* The age of a row only grows.
LEMMA SelectedAges ==
    ASSUME NEW rows, NEW n \in Nat, NEW m \in Nat, n <= m,
           \A id \in DOMAIN rows : rows[id].created \in Nat, PendingDays \in Int
    PROVE  SelectedOf(rows, n) \subseteq SelectedOf(rows, m)
<1> SUFFICES ASSUME NEW id \in SelectedOf(rows, n) PROVE id \in SelectedOf(rows, m)
  OBVIOUS
<1>1. rows[id].created + PendingDays < n => rows[id].created + PendingDays < m
  BY DEF SelectedOf
<1> QED
  BY <1>1 DEF SelectedOf, Visible

\* As long as no write takes a document from the list as of now, none takes
\* one from the list as of earlier.
LEMMA SelectedStays ==
    ASSUME NEW rows, NEW new, NEW n \in Nat, NEW m \in Nat, n <= m, Kept(rows, new),
           \A id \in DOMAIN rows : rows[id].created \in Nat, PendingDays \in Int,
           SelectedOf(rows, m) \subseteq SelectedOf(new, m)
    PROVE  SelectedOf(rows, n) \subseteq SelectedOf(new, n)
<1> SUFFICES ASSUME NEW id \in SelectedOf(rows, n) PROVE id \in SelectedOf(new, n)
  OBVIOUS
<1>1. id \in SelectedOf(rows, m) /\ id \in SelectedOf(new, m)
  BY SelectedAges
<1>2. new[id].created = rows[id].created /\ (rows[id].confirmed => new[id].confirmed)
  BY <1>1 DEF SelectedOf, Kept
<1> QED
  BY <1>1, <1>2 DEF SelectedOf, Visible

\* A list that only grows moves nobody up.
LEMMA RanksGrow ==
    ASSUME NEW rows, NEW new, NEW n, NEW m, Kept(rows, new),
           IsFiniteSet(SelectedOf(new, m)),
           SelectedOf(rows, n) \subseteq SelectedOf(new, m),
           NEW id \in SelectedOf(rows, n)
    PROVE  RankIn(rows, n, id) \in Nat /\ RankIn(new, m, id) \in Nat
           /\ RankIn(rows, n, id) <= RankIn(new, m, id)
<1>1. Ahead(rows, n, id) \subseteq Ahead(new, m, id)
  <2> SUFFICES ASSUME NEW d \in Ahead(rows, n, id) PROVE d \in Ahead(new, m, id)
    OBVIOUS
  <2>1. d \in SelectedOf(rows, n) /\ BeforeIn(rows, d, id) /\ d \in SelectedOf(new, m)
        /\ id \in SelectedOf(new, m)
    BY DEF Ahead
  <2>2. new[d].created = rows[d].created /\ new[id].created = rows[id].created
    BY <2>1 DEF SelectedOf, Kept
  <2> QED
    BY <2>1, <2>2 DEF Ahead, BeforeIn
<1>2. IsFiniteSet(Ahead(new, m, id))
  <2>1. Ahead(new, m, id) \subseteq SelectedOf(new, m)
    BY DEF Ahead
  <2> QED
    BY <2>1, FS_Subset
<1>3. /\ IsFiniteSet(Ahead(rows, n, id))
      /\ Cardinality(Ahead(rows, n, id)) <= Cardinality(Ahead(new, m, id))
  BY <1>1, <1>2, FS_Subset
<1>4. Cardinality(Ahead(rows, n, id)) \in Nat /\ Cardinality(Ahead(new, m, id)) \in Nat
  BY <1>2, <1>3, FS_CardinalityType
<1> QED
  BY <1>3, <1>4 DEF RankIn

\* Nobody's place is beyond the number of rows.
LEMMA RankAtMost ==
    ASSUME NEW rows, NEW n, IsFiniteSet(SelectedOf(rows, n)), NEW id \in SelectedOf(rows, n),
           rows[id].created \in Nat, id \in Int
    PROVE  /\ RankIn(rows, n, id) \in Nat \ {0} /\ Cardinality(SelectedOf(rows, n)) \in Nat
           /\ RankIn(rows, n, id) <= Cardinality(SelectedOf(rows, n))
<1> DEFINE S == SelectedOf(rows, n)
           A == Ahead(rows, n, id)
<1>1. id \notin A /\ A \subseteq S \ {id}
  BY DEF Ahead, BeforeIn
<1>2. /\ IsFiniteSet(S \ {id}) /\ Cardinality(S \ {id}) = Cardinality(S) - 1
      /\ Cardinality(S) \in Nat
  BY FS_RemoveElement, FS_CardinalityType
<1>3. IsFiniteSet(A) /\ Cardinality(A) <= Cardinality(S \ {id}) /\ Cardinality(A) \in Nat
  BY <1>1, <1>2, FS_Subset, FS_CardinalityType
<1> QED
  BY <1>2, <1>3 DEF RankIn

LEMMA TimesGrow ==
    ASSUME NEW p \in Nat, NEW q \in Nat, NEW l \in Nat, p <= q
    PROVE  p * l <= q * l /\ p * l \in Nat /\ q * l \in Nat
<1>1. (q - p) * l >= 0
  OBVIOUS
<1>2. (q - p) * l = q * l - p * l
  OBVIOUS
<1> QED
  BY <1>1, <1>2

\* Math.ceil(total / limit) pages hold the total.
LEMMA CeilingCovers ==
    ASSUME NEW total \in Nat, NEW l \in Nat \ {0}
    PROVE  (total + l - 1) \div l \in Nat /\ total <= ((total + l - 1) \div l) * l
OBVIOUS
-----------------------------------------------------------------------------
(* What a write does to the rows: those of a document that stays keep their *)
(* age, and a confirmation is not taken back.                               *)

\* A version that is added is one its document never had.
Onward ==
    \A d \in Present \cup deleted :
        /\ d \in (Present \cup deleted)'
        /\ d \in Present' =>
              /\ d \in Present /\ documents'[d].last >= documents[d].last
              /\ \A v \in DOMAIN documents'[d].scan :
                    v \in DOMAIN documents[d].scan \/ v > documents[d].last

LEMMA SetRow ==
    ASSUME Columns, NEW id \in Ids, NEW row, StoredRow(row), Set(id, row),
           clock' = clock, deleted' = deleted, id \notin deleted,
           id \in Present =>
              /\ row.created = documents[id].created /\ row.last >= documents[id].last
              /\ documents[id].confirmed => row.confirmed
              /\ \A v \in DOMAIN row.scan : v \in DOMAIN documents[id].scan \/ v > documents[id].last
    PROVE  Columns' /\ Kept(documents, documents') /\ Onward
<1>1. /\ DOMAIN documents' = DOMAIN documents \cup {id}
      /\ \A d \in DOMAIN documents' : documents'[d] = IF d = id THEN row ELSE documents[d]
  BY DEF Set, Insert
<1>2. \A d \in DOMAIN documents' : StoredRow(documents'[d])
  BY <1>1 DEF Columns, Present
<1>3. Columns'
  BY <1>1, <1>2 DEF Columns, Present
<1>4. Kept(documents, documents')
  BY <1>1 DEF Kept, Present
<1>5. ASSUME NEW d \in Present, d # id
      PROVE  /\ documents'[d].last >= documents[d].last
             /\ \A v \in DOMAIN documents'[d].scan : v \in DOMAIN documents[d].scan
  BY <1>1, <1>5 DEF Present, Columns, StoredRow
<1>6. Onward
  BY <1>1, <1>5 DEF Onward, Present
<1> QED
  BY <1>3, <1>4, <1>6

LEMMA WritesKeep ==
    ASSUME Columns, NEW id \in Ids, clock' = clock,
           \/ Publish(id) \/ ScanCurrent(id) \/ Confirm(id) \/ Purge(id)
           \/ Revise(id) \/ \E v : Withdraw(id, v)
    PROVE  Columns' /\ Kept(documents, documents') /\ Onward
<1> DEFINE row == documents[id]
<1>1. ASSUME id \in Present PROVE StoredRow(row) /\ id \notin deleted
  BY <1>1 DEF Columns
<1>2. CASE Publish(id)
  <2>1. PICK scan, new :
            /\ scan = [v \in {1} |-> "waiting"]
            /\ new = [created |-> clock, current |-> 1, last |-> 1, confirmed |-> FALSE, scan |-> scan]
    OBVIOUS
  <2>2. StoredRow(new)
    BY <2>1 DEF StoredRow, Columns, Scans
  <2> QED
    BY <1>2, <2>1, <2>2, SetRow DEF Publish
<1>3. ASSUME id \in Present, NEW new, StoredRow(new), Set(id, new), deleted' = deleted,
             new.created = row.created, row.confirmed => new.confirmed, new.last = row.last,
             DOMAIN new.scan \subseteq DOMAIN row.scan
      PROVE  Columns' /\ Kept(documents, documents') /\ Onward
  <2>1. new.last >= row.last
    BY <1>1, <1>3 DEF StoredRow
  <2> QED
    BY <1>1, <1>3, <2>1, SetRow
<1>4. CASE ScanCurrent(id)
  <2>1. PICK verdict \in {"clean", "infected"} :
             Set(id, [row EXCEPT !.scan[row.current] = verdict])
    BY <1>4 DEF ScanCurrent
  <2>2. PICK scan, new : scan = [row.scan EXCEPT ![row.current] = verdict] /\ new = [row EXCEPT !.scan = scan]
    OBVIOUS
  <2>3. id \in Present /\ StoredRow(row)
    BY <1>1, <1>4 DEF ScanCurrent
  <2>4. /\ DOMAIN scan = DOMAIN row.scan /\ \A v \in DOMAIN scan : scan[v] \in Scans
        /\ DOMAIN new = DOMAIN row /\ new.scan = scan /\ new.current = row.current /\ new.last = row.last
        /\ new.created = row.created /\ new.confirmed = row.confirmed
    BY <2>2, <2>3 DEF StoredRow, Scans
  <2>5. StoredRow(new)
    BY <2>3, <2>4 DEF StoredRow
  <2>6. Set(id, new) /\ deleted' = deleted
    BY <1>4, <2>1, <2>2 DEF ScanCurrent
  <2> QED
    BY <1>3, <2>3, <2>4, <2>5, <2>6
<1>5. CASE Confirm(id)
  <2>1. PICK new : new = [row EXCEPT !.confirmed = TRUE]
    OBVIOUS
  <2>2. id \in Present /\ StoredRow(row) /\ Set(id, new) /\ deleted' = deleted
    BY <1>1, <1>5, <2>1 DEF Confirm
  <2>3. /\ DOMAIN new = DOMAIN row /\ new.scan = row.scan /\ new.current = row.current
        /\ new.last = row.last /\ new.created = row.created /\ new.confirmed = TRUE
    BY <2>1, <2>2 DEF StoredRow
  <2>4. StoredRow(new)
    BY <2>2, <2>3 DEF StoredRow
  <2> QED
    BY <1>3, <2>2, <2>3, <2>4
<1>6. CASE Revise(id)
  <2>1. PICK n, scan, new : /\ n = row.last + 1 /\ scan = Insert(row.scan, n, "waiting")
                            /\ new = [row EXCEPT !.last = n, !.current = n, !.scan = scan]
    OBVIOUS
  <2>2. id \in Present /\ StoredRow(row) /\ id \notin deleted /\ Set(id, new) /\ deleted' = deleted
    BY <1>1, <1>6, <2>1 DEF Revise
  <2>3. /\ DOMAIN scan = DOMAIN row.scan \cup {n}
        /\ \A v \in DOMAIN scan : scan[v] = IF v = n THEN "waiting" ELSE row.scan[v]
    BY <2>1 DEF Insert
  <2>4. /\ DOMAIN new = DOMAIN row /\ new.scan = scan /\ new.current = n /\ new.last = n
        /\ new.created = row.created /\ new.confirmed = row.confirmed
    BY <2>1, <2>2 DEF StoredRow
  <2>5. n \in Nat \ {0} /\ n > row.last /\ \A v \in DOMAIN scan : v \in Nat \ {0} /\ v <= n /\ scan[v] \in Scans
    BY <2>1, <2>2, <2>3 DEF StoredRow, Scans
  <2>6. StoredRow(new)
    BY <2>2, <2>3, <2>4, <2>5 DEF StoredRow
  <2>7. new.last >= row.last /\ \A v \in DOMAIN new.scan : v \in DOMAIN row.scan \/ v > row.last
    BY <2>2, <2>3, <2>4, <2>5 DEF StoredRow
  <2> QED
    BY <2>2, <2>4, <2>6, <2>7, SetRow
<1>7. ASSUME NEW v, Withdraw(id, v) PROVE Columns' /\ Kept(documents, documents') /\ Onward
  <2> DEFINE rest == DOMAIN row.scan \ {v}
  <2>1. PICK before \in rest :
            /\ before < v /\ \A u \in rest : u < v => u <= before
            /\ Set(id, [row EXCEPT !.current = IF @ = v THEN before ELSE @, !.scan = Delete(@, v)])
    BY <1>7 DEF Withdraw
  <2>2. PICK n, scan, new : /\ n = (IF row.current = v THEN before ELSE row.current)
                            /\ scan = Delete(row.scan, v)
                            /\ new = [row EXCEPT !.current = n, !.scan = scan]
    OBVIOUS
  <2>3. id \in Present /\ StoredRow(row) /\ v \in DOMAIN row.scan /\ Set(id, new) /\ deleted' = deleted
    BY <1>1, <1>7, <2>1, <2>2 DEF Withdraw
  <2>4. DOMAIN scan = rest /\ \A u \in rest : scan[u] = row.scan[u]
    BY <2>2 DEF Delete, DeleteAll
  <2>5. /\ DOMAIN new = DOMAIN row /\ new.scan = scan /\ new.current = n /\ new.last = row.last
        /\ new.created = row.created /\ new.confirmed = row.confirmed
    BY <2>2, <2>3 DEF StoredRow
  <2>6. n \in rest /\ n <= row.last /\ \A u \in rest : u <= n
    <3>1. CASE row.current = v
      BY <2>1, <2>2, <2>3, <3>1 DEF StoredRow
    <3>2. CASE row.current # v
      BY <2>2, <2>3, <3>2 DEF StoredRow
    <3> QED
      BY <3>1, <3>2
  <2>7. StoredRow(new)
    BY <2>3, <2>4, <2>5, <2>6 DEF StoredRow
  <2> QED
    BY <1>3, <2>3, <2>4, <2>5, <2>7
<1>8. CASE Purge(id)
  <2>1. /\ DOMAIN documents' = DOMAIN documents \ {id}
        /\ \A d \in DOMAIN documents' : documents'[d] = documents[d]
        /\ deleted' = deleted \cup {id}
    BY <1>8 DEF Purge, Delete, DeleteAll
  <2>2. Columns'
    BY <2>1 DEF Columns, Present
  <2>3. Onward
    <3>1. ASSUME NEW d \in Present, d # id
          PROVE  d \in Present' /\ documents'[d] = documents[d] /\ documents[d].last \in Nat
      BY <2>1, <3>1 DEF Present, Columns, StoredRow
    <3> QED
      BY <2>1, <3>1 DEF Onward, Present
  <2> QED
    BY <2>1, <2>2, <2>3 DEF Kept
<1> QED
  BY <1>2, <1>4, <1>5, <1>6, <1>7, <1>8

LEMMA ColumnsStep ==
    ASSUME Columns, [ReadsNext]_readsVars
    PROVE  Columns' /\ Kept(documents, documents') /\ (Write => Onward)
<1>1. CASE Write
  <2>1. clock' = clock
    BY <1>1 DEF Write, Noticed
  <2> QED
    BY <1>1, <2>1, WritesKeep DEF Write
<1>2. ASSUME documents' = documents, deleted' = deleted, clock' = clock \/ clock' = clock + 1
      PROVE  Columns' /\ Kept(documents, documents')
  BY <1>2 DEF Columns, Kept, Present
<1>3. CASE ~Write
  <2>1. documents' = documents /\ deleted' = deleted /\ (clock' = clock \/ clock' = clock + 1)
    BY <1>3 DEF ReadsNext, readsVars, BeginList, CountQuery, PageQuery, NextPage, BeginDetail,
                RowQuery, CrossCheck, VersionsQuery, Day
  <2> QED
    BY <1>2, <1>3, <2>1
<1> QED
  BY <1>1, <1>3
-----------------------------------------------------------------------------
(* The request for a list. *)

ListPcs == {"count", "page", "listed"}
Listing == reader.pc \in ListPcs
ListRequests == [pc : ListPcs, page : Nat \ {0}, now : Nat, total : Nat, pages : Nat,
                 shown : Seq(SUBSET Ids), steady : BOOLEAN]

Typed ==
    /\ writes \in Nat
    /\ Listing => reader \in ListRequests
    /\ In("row") \/ In("cross") =>
          reader = [pc |-> reader.pc, id |-> reader.id, now |-> reader.now]

LEMMA FiniteSelection ==
    ASSUME Columns, NEW n
    PROVE  /\ SelectedOf(documents, n) \subseteq Present /\ SelectedOf(documents, n) \subseteq Ids
           /\ IsFiniteSet(SelectedOf(documents, n))
           /\ Cardinality(SelectedOf(documents, n)) \in Nat
<1>1. SelectedOf(documents, n) \subseteq Present /\ SelectedOf(documents, n) \subseteq Ids
  BY DEF SelectedOf, Columns, Present
<1> QED
  BY <1>1, ReadsAssumption, FS_Subset, FS_CardinalityType

\* What each query of a list makes of its request.
LEMMA ListSteps ==
    ASSUME Columns, Typed
    PROVE  /\ BeginList => reader' \in ListRequests /\ reader'.pc = "count"
           /\ CountQuery =>
                 /\ reader \in ListRequests /\ reader' \in ListRequests
                 /\ reader'.pc = "page" /\ reader'.total = Cardinality(Selected(reader.now))
                 /\ reader'.pages = (reader'.total + Limit - 1) \div Limit
                 /\ reader'.page = reader.page /\ reader'.now = reader.now
                 /\ reader'.shown = reader.shown
           /\ PageQuery =>
                 /\ reader \in ListRequests /\ reader' \in ListRequests /\ reader'.pc = "listed"
                 /\ reader'.total = reader.total /\ reader'.pages = reader.pages
                 /\ reader'.page = reader.page /\ reader'.now = reader.now
                 /\ reader'.shown = Append(reader.shown, PageOf(reader.now, reader.page))
                 /\ reader'.steady <=> Cardinality(Selected(reader.now)) = reader.total
           /\ NextPage =>
                 /\ reader \in ListRequests /\ reader' \in ListRequests /\ reader'.pc = "count"
                 /\ reader'.page = reader.page + 1 /\ reader'.now = clock
                 /\ reader'.shown = reader.shown
<1> USE DEF ListRequests, ListPcs
<1>1. ASSUME BeginList PROVE reader' \in ListRequests /\ reader'.pc = "count"
  <2>1. <<>> \in Seq(SUBSET Ids) /\ clock \in Nat
    BY DEF Columns
  <2> QED
    BY <1>1, <2>1 DEF BeginList
<1>2. ASSUME In("count") \/ In("page") \/ In("listed")
      PROVE  /\ reader \in ListRequests
             /\ reader = [pc |-> reader.pc, page |-> reader.page, now |-> reader.now,
                          total |-> reader.total, pages |-> reader.pages,
                          shown |-> reader.shown, steady |-> reader.steady]
  BY <1>2 DEF Typed, Listing, In
<1>3. ASSUME CountQuery
      PROVE  /\ reader \in ListRequests /\ reader' \in ListRequests
             /\ reader'.pc = "page" /\ reader'.total = Cardinality(Selected(reader.now))
             /\ reader'.pages = (reader'.total + Limit - 1) \div Limit
             /\ reader'.page = reader.page /\ reader'.now = reader.now
             /\ reader'.shown = reader.shown
  <2>1. PICK total \in Nat : total = Cardinality(Selected(reader.now))
    BY OnTheRows, FiniteSelection
  <2>2. PICK pages \in Nat : pages = (total + Limit - 1) \div Limit
    BY ReadsAssumption, CeilingCovers
  <2>3. reader' = [reader EXCEPT !.pc = "page", !.total = total, !.pages = pages]
    BY <1>3, <2>1, <2>2 DEF CountQuery
  <2> QED
    BY <1>2, <1>3, <2>1, <2>2, <2>3 DEF CountQuery
<1>4. ASSUME PageQuery
      PROVE  /\ reader \in ListRequests /\ reader' \in ListRequests /\ reader'.pc = "listed"
             /\ reader'.total = reader.total /\ reader'.pages = reader.pages
             /\ reader'.page = reader.page /\ reader'.now = reader.now
             /\ reader'.shown = Append(reader.shown, PageOf(reader.now, reader.page))
             /\ reader'.steady <=> Cardinality(Selected(reader.now)) = reader.total
  <2>1. PICK list \in SUBSET Ids : list = PageOf(reader.now, reader.page)
    <3>1. PageOf(reader.now, reader.page) \subseteq Ids
      BY OnTheRows, FiniteSelection DEF PageOf
    <3> QED
      BY <3>1
  <2>2. PICK shown \in Seq(SUBSET Ids) : shown = Append(reader.shown, list)
    <3>1. reader.shown \in Seq(SUBSET Ids)
      BY <1>2, <1>4 DEF PageQuery
    <3>2. \A T : \A s \in Seq(T), e \in T : Append(s, e) \in Seq(T)
      OBVIOUS
    <3>3. Append(reader.shown, list) \in Seq(SUBSET Ids)
      BY <3>1, <3>2
    <3> QED
      BY <3>3
  <2>3. PICK steady \in BOOLEAN : steady = (Cardinality(Selected(reader.now)) = reader.total)
    OBVIOUS
  <2>4. reader' = [reader EXCEPT !.pc = "listed", !.shown = shown, !.steady = steady]
    BY <1>4, <2>1, <2>2, <2>3 DEF PageQuery
  <2> QED
    BY <1>2, <1>4, <2>1, <2>2, <2>3, <2>4 DEF PageQuery
<1>5. ASSUME NextPage
      PROVE  /\ reader \in ListRequests /\ reader' \in ListRequests /\ reader'.pc = "count"
             /\ reader'.page = reader.page + 1 /\ reader'.now = clock
             /\ reader'.shown = reader.shown
  <2>1. clock \in Nat /\ reader.page + 1 \in Nat \ {0}
    BY <1>2, <1>5 DEF Columns, NextPage
  <2>2. PICK nth \in Nat \ {0} : nth = reader.page + 1
    BY <2>1
  <2>3. reader' = [reader EXCEPT !.pc = "count", !.page = nth, !.now = clock]
    BY <1>5, <2>2 DEF NextPage
  <2> QED
    BY <1>2, <1>5, <2>1, <2>2, <2>3 DEF NextPage
<1> QED
  BY <1>1, <1>3, <1>4, <1>5

LEMMA TypedStep ==
    ASSUME Columns, Typed, [ReadsNext]_readsVars
    PROVE  Typed'
<1>1. CASE BeginList \/ CountQuery \/ PageQuery \/ NextPage
  <2>1. reader' \in ListRequests
    BY <1>1, ListSteps
  <2>2. writes' \in Nat
    BY <1>1 DEF BeginList, CountQuery, PageQuery, NextPage, Fresh, Typed
  <2> QED
    BY <2>1, <2>2 DEF Typed, ListRequests, ListPcs, In
<1>3. ASSUME NEW id \in Ids, BeginDetail(id) PROVE Typed'
  BY <1>3 DEF BeginDetail, Fresh, Typed, Listing, ListPcs, In
<1>4. CASE RowQuery \/ CrossCheck \/ VersionsQuery
  <2>1. CASE RowQuery
    <3>1. reader = [pc |-> "row", id |-> reader.id, now |-> reader.now]
      BY <2>1 DEF RowQuery, Typed, In
    <3>2. \/ reader'.pc = "versions"
          \/ reader' = [pc |-> "cross", id |-> reader.id, now |-> reader.now]
      BY <2>1, <3>1 DEF RowQuery
    <3> QED
      BY <2>1, <3>2 DEF RowQuery, Typed, Listing, ListPcs, In
  <2>2. CASE CrossCheck \/ VersionsQuery
    BY <2>2 DEF CrossCheck, VersionsQuery, Typed, Listing, ListPcs, In
  <2> QED
    BY <1>4, <2>1, <2>2
<1>5. CASE Write
  BY <1>5 DEF Write, Noticed, Typed, Listing, In
<1>6. CASE Day \/ UNCHANGED readsVars
  BY <1>6 DEF Day, readsVars, Typed, Listing, In
<1> QED
  BY <1>1, <1>3, <1>4, <1>5, <1>6 DEF ReadsNext
-----------------------------------------------------------------------------
(* The detail of a document. *)

DetailPcs == {"row", "cross", "versions", "shown", "missing"}

\* What the query of the row read is so still, but for what was written since.
DetailsHold ==
    /\ In("row") => here \subseteq SelectedOf(documents, reader.now)
    /\ In("cross") => /\ reader.id \notin here
                      /\ writes = 0 => reader.id \notin SelectedOf(documents, reader.now)
    /\ In("versions") \/ In("shown") =>
          /\ reader.id \in Present \cup deleted
          /\ reader.current \in reader.counted /\ reader.counted \subseteq Nat
          /\ reader.id \in Present => \A v \in reader.counted : v <= documents[reader.id].last
    /\ In("versions") =>
          \A v \in VersionRows(reader.id) : v > reader.current <=> v \notin reader.counted
    /\ In("shown") =>
          /\ reader.flagged = reader.listed \cap {reader.current}
          /\ \A v \in VersionRows(reader.id) \cap reader.counted : v \in reader.listed
          /\ \A v \in reader.listed : v > reader.current <=> v \notin reader.counted
    /\ In("missing") =>
          /\ reader.id \notin here
          /\ reader.denied => TenantOfId[reader.id] # Viewer.tenant
          /\ writes = 0 /\ ~reader.denied /\ reader.id \in Present =>
                TenantOfId[reader.id] = Viewer.tenant
                /\ reader.id \notin SelectedOf(documents, reader.now)

\* The double in memory decides as the query's condition does.
LEMMA DoubleDecides ==
    ASSUME NEW id, NEW row, NEW viewer, NEW now, Scan(row) \in Scans
    PROVE  Visible(id, row, viewer, now) <=> VisibleInMemory(id, row, viewer, now)
<1>1. CASE Scan(row) = "infected"
  BY <1>1 DEF Visible, VisibleInMemory
<1>2. CASE Scan(row) # "infected" /\ UploaderOf[id] = viewer.user
  BY <1>2 DEF Visible, VisibleInMemory
<1>3. CASE Scan(row) = "waiting" /\ UploaderOf[id] # viewer.user
  BY <1>3 DEF Visible, VisibleInMemory
<1>4. CASE Scan(row) = "clean" /\ UploaderOf[id] # viewer.user
  BY <1>4 DEF Visible, VisibleInMemory
<1> QED
  BY <1>1, <1>2, <1>3, <1>4 DEF Scans

LEMMA DetailsStart == ReadsInit => Columns /\ Typed /\ DetailsHold
<1> SUFFICES ASSUME ReadsInit PROVE Columns /\ Typed /\ DetailsHold
  OBVIOUS
<1>1. /\ Present = Existing /\ clock = 0 /\ deleted = {}
      /\ \A id \in Existing : documents[id] = [created |-> 0, current |-> 1, last |-> 1, confirmed |-> FALSE,
                                              scan |-> [v \in {1} |-> "clean"]]
  BY DEF ReadsInit, Present
<1>2. ASSUME NEW id \in Present PROVE StoredRow(documents[id])
  <2>1. PICK row, scan : /\ row = documents[id] /\ scan = [v \in {1} |-> "clean"]
                         /\ row = [created |-> 0, current |-> 1, last |-> 1, confirmed |-> FALSE, scan |-> scan]
    BY <1>1
  <2> QED
    BY <2>1 DEF StoredRow, Scans
<1> QED
  BY <1>1, <1>2, ReadsAssumption DEF ReadsInit, Columns, Typed, Listing, ListPcs, DetailsHold, In, Idle

\* What could be seen all along is on the list as of earlier too.
LEMMA HereStays ==
    ASSUME NEW rows, NEW new, Kept(rows, new), NEW n, NEW m,
           NEW id \in SelectedOf(rows, n), id \in SelectedOf(new, m)
    PROVE  id \in SelectedOf(new, n)
<1>1. new[id].created = rows[id].created /\ (rows[id].confirmed => new[id].confirmed)
  BY DEF SelectedOf, Kept
<1> QED
  BY <1>1 DEF SelectedOf, Visible

\* A write between the queries of a detail.
LEMMA DetailsWritten ==
    ASSUME Columns, Typed, DetailsHold, Write, Kept(documents, documents'), Onward, Columns'
    PROVE  DetailsHold'
<1>1. /\ reader' = reader /\ clock' = clock /\ here' = here \cap SelectedOf(documents', clock)
      /\ writes' = writes + 1 /\ writes' \in Nat /\ writes' # 0
  BY OnTheRows DEF Write, Noticed, Typed
<1>2. ASSUME In("row") PROVE here' \subseteq SelectedOf(documents', reader.now)
  BY <1>1, <1>2, HereStays DEF DetailsHold
<1>3. ASSUME In("versions") \/ In("shown")
      PROVE  /\ reader.id \in (Present \cup deleted)'
             /\ reader.id \in Present' => \A v \in reader.counted : v <= documents'[reader.id].last
             /\ \A v \in VersionRows(reader.id)' \ VersionRows(reader.id) :
                   v > reader.current /\ v \notin reader.counted
  <2>1. /\ reader.id \in Present \cup deleted /\ reader.current \in reader.counted /\ reader.counted \subseteq Nat
        /\ reader.id \in Present => \A v \in reader.counted : v <= documents[reader.id].last
    BY <1>3 DEF DetailsHold
  <2>2. reader.id \in (Present \cup deleted)'
    BY <2>1 DEF Onward
  <2>3. ASSUME reader.id \in Present'
        PROVE  /\ reader.id \in Present /\ documents'[reader.id].last >= documents[reader.id].last
               /\ documents[reader.id].last \in Nat /\ documents'[reader.id].last \in Nat
               /\ \A v \in DOMAIN documents'[reader.id].scan :
                     v \in Nat /\ (v \in DOMAIN documents[reader.id].scan \/ v > documents[reader.id].last)
    BY <2>1, <2>3 DEF Onward, Columns, StoredRow
  <2>4. ASSUME reader.id \in Present', NEW v \in reader.counted PROVE v <= documents'[reader.id].last
    BY <2>1, <2>3, <2>4
  <2>5. ASSUME NEW v \in VersionRows(reader.id)', v \notin VersionRows(reader.id)
        PROVE  v > reader.current /\ v \notin reader.counted
    <3>1. reader.id \in Present' /\ v \in DOMAIN documents'[reader.id].scan
      BY <1>1, <2>5 DEF VersionRows
    <3>2. v \in Nat /\ v > documents[reader.id].last /\ reader.id \in Present /\ documents[reader.id].last \in Nat
      BY <2>3, <2>5, <3>1 DEF VersionRows
    <3> QED
      BY <2>1, <3>2
  <2> QED
    BY <2>2, <2>4, <2>5
<1>4. ASSUME In("versions"), NEW v \in VersionRows(reader.id)'
      PROVE  v > reader.current <=> v \notin reader.counted
  BY <1>3, <1>4 DEF DetailsHold
<1>5. ASSUME In("shown"), NEW v \in VersionRows(reader.id)' \cap reader.counted PROVE v \in reader.listed
  BY <1>3, <1>5 DEF DetailsHold
<1> QED
  BY <1>1, <1>2, <1>3, <1>4, <1>5 DEF DetailsHold, In, VersionRows

LEMMA DetailsStep ==
    ASSUME Columns, Typed, DetailsHold, [ReadsNext]_readsVars,
           Kept(documents, documents'), Write => Onward, Columns'
    PROVE  DetailsHold'
<1>1. CASE UNCHANGED readsVars
  BY <1>1 DEF readsVars, DetailsHold, In, Present, VersionRows
<1>2. CASE Day
  BY <1>2 DEF Day, DetailsHold, In, Present, VersionRows
<1>3. CASE BeginList \/ CountQuery \/ PageQuery \/ NextPage
  <2>1. reader'.pc \in {"count", "page", "listed"}
    BY <1>3, ListSteps
  <2> QED
    BY <2>1 DEF DetailsHold, In
<1>4. ASSUME NEW id \in Ids, BeginDetail(id) PROVE DetailsHold'
  <2>1. here' = SelectedOf(documents', clock) /\ reader' = [pc |-> "row", id |-> id, now |-> clock]
    BY <1>4, OnTheRows DEF BeginDetail, Fresh
  <2> QED
    BY <2>1 DEF DetailsHold, In
<1>5. CASE RowQuery
  <2>1. /\ reader = [pc |-> "row", id |-> reader.id, now |-> reader.now]
        /\ writes' = writes /\ documents' = documents /\ deleted' = deleted /\ here' = here
        /\ here \subseteq SelectedOf(documents, reader.now)
    BY <1>5 DEF RowQuery, Typed, In, DetailsHold
  <2>2. CASE reader.id \in Selected(reader.now)
    <3>1. reader.id \in Present /\ StoredRow(documents[reader.id])
      BY <2>2 DEF Selected, Columns
    <3>2. PICK c, vs : c = documents[reader.id].current /\ vs = DOMAIN documents[reader.id].scan
      OBVIOUS
    <3>3. reader' = [pc |-> "versions", id |-> reader.id, current |-> c, counted |-> vs]
      BY <1>5, <2>2, <3>2 DEF RowQuery
    <3>4. /\ c \in vs /\ vs \subseteq Nat
          /\ \A v \in vs : v <= documents[reader.id].last /\ ~(v > c)
      BY <3>1, <3>2 DEF StoredRow
    <3>5. VersionRows(reader.id)' = vs
      BY <2>1, <3>1, <3>2, <3>3 DEF VersionRows, Present
    <3> QED
      BY <2>1, <3>1, <3>3, <3>4, <3>5 DEF DetailsHold, In, Present, VersionRows
  <2>3. CASE reader.id \notin Selected(reader.now)
    <3>1. reader' = [pc |-> "cross", id |-> reader.id, now |-> reader.now]
      BY <1>5, <2>1, <2>3 DEF RowQuery
    <3>2. reader.id \notin SelectedOf(documents, reader.now)
      BY <2>3, OnTheRows
    <3> QED
      BY <2>1, <3>1, <3>2 DEF DetailsHold, In
  <2> QED
    BY <2>2, <2>3
<1>6. CASE CrossCheck
  BY <1>6 DEF CrossCheck, DetailsHold, In, Present, SelectedOf
<1>7. CASE VersionsQuery
  <2>1. PICK listed, flagged : listed = VersionRows(reader.id) /\ flagged = listed \cap {reader.current}
    OBVIOUS
  <2>2. /\ reader' = [pc |-> "shown", id |-> reader.id, current |-> reader.current,
                      counted |-> reader.counted, listed |-> listed, flagged |-> flagged]
        /\ writes' = writes /\ documents' = documents /\ deleted' = deleted
    BY <1>7, <2>1 DEF VersionsQuery
  <2>3. VersionRows(reader.id)' = listed
    BY <2>1, <2>2 DEF VersionRows, Present
  <2> QED
    BY <1>7, <2>1, <2>2, <2>3 DEF DetailsHold, In, VersionsQuery, Present, VersionRows
<1>8. CASE Write
  BY <1>8, DetailsWritten
<1> QED
  BY <1>1, <1>2, <1>3, <1>4, <1>5, <1>6, <1>7, <1>8 DEF ReadsNext

\* The detail of a document is one story, whatever is written between its
\* queries: what is flagged, left out or listed above tells what was taken away
\* and added since its row was read; and nothing visible all along is missing
\* (queryDocumentDetail, handleGetDocument).
THEOREM DetailsAreCoherentHolds == ReadsSpec => []DetailsAreCoherent
<1>1. Columns /\ DetailsHold => DetailsAreCoherent
  <2> SUFFICES ASSUME Columns, DetailsHold PROVE DetailsAreCoherent
    OBVIOUS
  <2>1. ASSUME In("missing"), writes = 0, ~reader.denied, reader.id \in Present
        PROVE  /\ TenantOfId[reader.id] = Viewer.tenant
               /\ ~VisibleInMemory(reader.id, documents[reader.id], Viewer, reader.now)
    <3> DEFINE row == documents[reader.id]
    <3>1. /\ TenantOfId[reader.id] = Viewer.tenant
          /\ ~Visible(reader.id, row, Viewer, reader.now)
      BY <2>1 DEF DetailsHold, SelectedOf, Present
    <3>3. Scan(row) \in Scans
      BY <2>1 DEF Columns, StoredRow, Scan
    <3> QED
      BY <3>1, <3>3, DoubleDecides
  <2>2. ASSUME In("shown"), reader.flagged = {} PROVE reader.current \notin VersionRows(reader.id)
    BY <2>2 DEF DetailsHold
  <2> QED
    BY <2>1, <2>2 DEF DetailsHold, DetailsAreCoherent
<1>2. Columns /\ Typed /\ DetailsHold /\ [ReadsNext]_readsVars => (Columns /\ Typed /\ DetailsHold)'
  BY ColumnsStep, TypedStep, DetailsStep
<1> QED
  BY <1>1, <1>2, DetailsStart, PTL DEF ReadsSpec
-----------------------------------------------------------------------------
(* The pages of a list. *)

PageIn(rows, now, nth) ==
    {id \in SelectedOf(rows, now) :
        RankIn(rows, now, id) \in Offset(nth) + 1 .. Offset(nth) + Limit}

\* The document has no place among the first `pages` pages.
Beyond(rows, now, id, pages) == RankIn(rows, now, id) > pages * Limit

\* What is known of a list request: what has been visible all along is on the
\* list, and what of it was not shown has its place after the pages shown.
Progressing ==
    /\ reader.now <= clock
    /\ Len(reader.shown) = IF In("listed") THEN reader.page ELSE reader.page - 1
    /\ ~anyLeft =>
          /\ here \subseteq SelectedOf(documents, reader.now)
          /\ \A id \in here \ Seen : Beyond(documents, reader.now, id, Len(reader.shown))

\* Nothing was written and the days that went by showed nothing new: the pages
\* shown are those of the list as it is.
AsShown ==
    writes = 0 /\ here = SelectedOf(documents, reader.now) =>
        \A p \in DOMAIN reader.shown : reader.shown[p] = PageIn(documents, reader.now, p)

\* The last page is shown.
AtTheEnd ==
    /\ ~In("count") => reader.total <= reader.pages * Limit
    /\ In("listed") /\ reader.steady =>
          /\ writes = 0 => Cardinality(SelectedOf(documents, reader.now)) = reader.total
          /\ ~anyLeft /\ reader.page >= reader.pages => here \subseteq Seen

Traversal ==
    /\ here \subseteq SelectedOf(documents, clock)
    /\ writes = 0 => ~anyLeft
    /\ Listing => Progressing /\ AsShown /\ AtTheEnd

\* A place on the list is between one and the number of rows.
LEMMA Placed ==
    ASSUME Columns, NEW n, NEW id \in SelectedOf(documents, n)
    PROVE  /\ RankIn(documents, n, id) \in Nat \ {0}
           /\ RankIn(documents, n, id) <= Cardinality(SelectedOf(documents, n))
           /\ Cardinality(SelectedOf(documents, n)) \in Nat
<1>1. id \in Present /\ id \in Ids /\ IsFiniteSet(SelectedOf(documents, n))
  BY FiniteSelection
<1>2. documents[id].created \in Nat /\ id \in Int
  BY <1>1, ReadsAssumption DEF Columns, StoredRow
<1> QED
  BY <1>1, <1>2, RankAtMost

LEMMA InSeen ==
    ASSUME NEW x
    PROVE  x \in Seen <=> \E p \in DOMAIN reader.shown : x \in reader.shown[p]
BY DEF Seen

\* Pages of one list are the same, and no two of them have a row in common.
LEMMA PagesOfOneList ==
    ASSUME NEW rows, NEW n, NEW m, SelectedOf(rows, n) = SelectedOf(rows, m), NEW p
    PROVE  PageIn(rows, n, p) = PageIn(rows, m, p)
<1>1. ASSUME NEW id PROVE RankIn(rows, n, id) = RankIn(rows, m, id)
  BY DEF RankIn, Ahead
<1> QED
  BY <1>1 DEF PageIn

LEMMA PagesApart ==
    ASSUME NEW n, Columns, NEW p \in Nat \ {0}, NEW q \in Nat \ {0}, p # q
    PROVE  PageIn(documents, n, p) \cap PageIn(documents, n, q) = {}
<1>1. ASSUME NEW a \in Nat \ {0}, NEW b \in Nat \ {0}, a < b,
             NEW id \in PageIn(documents, n, a), id \in PageIn(documents, n, b)
      PROVE  FALSE
  <2>1. PICK rank \in Nat : rank = RankIn(documents, n, id)
    BY <1>1, Placed DEF PageIn
  <2>2. rank <= (a - 1) * Limit + Limit /\ rank >= (b - 1) * Limit + 1
    BY <1>1, <2>1, ReadsAssumption DEF PageIn, Offset
  <2>3. a * Limit <= (b - 1) * Limit
    BY <1>1, TimesGrow, ReadsAssumption
  <2>4. (a - 1) * Limit + Limit = a * Limit
    BY ReadsAssumption
  <2>5. PICK x \in Int, y \in Int : x = a * Limit /\ y = (b - 1) * Limit
    BY ReadsAssumption
  <2> QED
    BY <2>2, <2>3, <2>4, <2>5
<1>2. p < q \/ q < p
  OBVIOUS
<1> QED
  BY <1>1, <1>2

LEMMA BeginTraversal ==
    ASSUME Columns, Traversal, BeginList
    PROVE  Traversal'
<1>1. /\ reader' = [pc |-> "count", page |-> 1, now |-> clock, total |-> 0, pages |-> 1,
                    shown |-> <<>>, steady |-> TRUE]
      /\ here' = SelectedOf(documents, clock) /\ anyLeft' = FALSE /\ writes' = 0
      /\ documents' = documents /\ clock' = clock /\ clock \in Nat
  BY OnTheRows DEF BeginList, Fresh, Columns
<1>2. Seen' = {}
  BY <1>1 DEF Seen
<1>3. \A id \in here' : Beyond(documents, clock, id, 0)
  <2> SUFFICES ASSUME NEW id \in here' PROVE RankIn(documents, clock, id) > 0 * Limit
    BY DEF Beyond
  <2>1. RankIn(documents, clock, id) \in Nat \ {0}
    BY <1>1, Placed
  <2>2. 0 * Limit = 0
    BY ReadsAssumption
  <2> QED
    BY <2>1, <2>2
<1>4. Len(<<>>) = 0 /\ DOMAIN <<>> = {}
  OBVIOUS
<1>5. Progressing'
  BY <1>1, <1>2, <1>3, <1>4 DEF Progressing, In
<1> QED
  BY <1>1, <1>4, <1>5 DEF Traversal, AsShown, AtTheEnd, In

LEMMA CountTraversal ==
    ASSUME Columns, Typed, Traversal, CountQuery
    PROVE  Traversal'
<1>1. /\ reader \in ListRequests /\ reader' \in ListRequests /\ reader.pc = "count"
      /\ reader'.pc = "page" /\ reader'.total = Cardinality(Selected(reader.now))
      /\ reader'.pages = (reader'.total + Limit - 1) \div Limit
      /\ reader'.page = reader.page /\ reader'.now = reader.now /\ reader'.shown = reader.shown
  BY ListSteps DEF CountQuery, In
<1>2. /\ documents' = documents /\ clock' = clock /\ here' = here /\ anyLeft' = anyLeft
      /\ writes' = writes /\ Seen' = Seen
  BY <1>1 DEF CountQuery, Seen
<1>3. Progressing /\ AsShown
  BY <1>1 DEF Traversal, Listing, ListPcs
<1>4. Progressing' /\ AsShown'
  BY <1>1, <1>2, <1>3 DEF Progressing, AsShown, In
<1>5. reader'.total <= reader'.pages * Limit
  BY <1>1, CeilingCovers, ReadsAssumption DEF ListRequests
<1> QED
  BY <1>1, <1>2, <1>4, <1>5 DEF Traversal, AtTheEnd, In

LEMMA PageTraversal ==
    ASSUME Columns, Typed, Traversal, PageQuery
    PROVE  Traversal'
<1> DEFINE n == reader.now
           nth == reader.page
<1>1. /\ reader \in ListRequests /\ reader' \in ListRequests /\ reader.pc = "page"
      /\ reader'.pc = "listed" /\ reader'.total = reader.total /\ reader'.pages = reader.pages
      /\ reader'.page = nth /\ reader'.now = n
      /\ reader'.shown = Append(reader.shown, PageIn(documents, n, nth))
      /\ reader'.steady <=> Cardinality(SelectedOf(documents, n)) = reader.total
  <2>1. PageOf(n, nth) = PageIn(documents, n, nth) /\ Selected(n) = SelectedOf(documents, n)
    BY OnTheRows DEF PageOf, PageIn
  <2> QED
    BY <2>1, ListSteps DEF PageQuery, In
<1>2. /\ documents' = documents /\ clock' = clock /\ here' = here /\ anyLeft' = anyLeft
      /\ writes' = writes
  BY DEF PageQuery
<1>3. Progressing /\ AsShown /\ AtTheEnd
  BY <1>1 DEF Traversal, Listing, ListPcs
<1>4. /\ nth \in Nat \ {0} /\ reader.shown \in Seq(SUBSET Ids) /\ Len(reader.shown) = nth - 1
      /\ reader.total \in Nat /\ reader.pages \in Nat
  BY <1>1, <1>3 DEF Progressing, ListRequests, In
<1>5. /\ Len(reader'.shown) = nth /\ DOMAIN reader'.shown = 1 .. nth
      /\ DOMAIN reader.shown = 1 .. nth - 1
      /\ \A p \in 1 .. nth - 1 : reader'.shown[p] = reader.shown[p]
      /\ reader'.shown[nth] = PageIn(documents, n, nth)
  BY <1>1, <1>4
<1>6. Seen' = Seen \cup PageIn(documents, n, nth)
  <2>1. ASSUME NEW x PROVE x \in Seen' <=> \E p \in DOMAIN reader'.shown : x \in reader'.shown[p]
    BY DEF Seen
  <2>2. ASSUME NEW x PROVE x \in Seen' <=> x \in Seen \cup PageIn(documents, n, nth)
    <3>1. x \in Seen <=> \E p \in 1 .. nth - 1 : x \in reader.shown[p]
      BY <1>5, InSeen
    <3>2. x \in Seen' <=> \E p \in 1 .. nth : x \in reader'.shown[p]
      BY <1>5, <2>1
    <3>3. \A p \in 1 .. nth : p = nth \/ p \in 1 .. nth - 1
      BY <1>4
    <3>4. \A p \in 1 .. nth - 1 : p \in 1 .. nth
      BY <1>4
    <3>5. nth \in 1 .. nth
      BY <1>4
    <3>6. PICK last : last = PageIn(documents, n, nth)
      OBVIOUS
    <3> HIDE DEF nth
    <3>7. x \in Seen' <=> x \in Seen \/ x \in last
      BY <1>5, <3>1, <3>2, <3>3, <3>4, <3>5, <3>6
    <3> QED
      BY <3>6, <3>7
  <2> QED
    BY <2>2
<1>7. ASSUME ~anyLeft, NEW id \in here \ Seen' PROVE Beyond(documents, n, id, nth)
  <2>1. id \in SelectedOf(documents, n) /\ Beyond(documents, n, id, nth - 1)
        /\ id \notin PageIn(documents, n, nth)
    BY <1>3, <1>4, <1>6, <1>7 DEF Progressing
  <2>2. PICK rank \in Nat : rank = RankIn(documents, n, id)
    BY <2>1, Placed
  <2>3. PICK x \in Int : x = (nth - 1) * Limit
    BY <1>4, ReadsAssumption
  <2>4. rank > x /\ rank \notin x + 1 .. x + Limit
    BY <2>1, <2>2, <2>3 DEF Beyond, PageIn, Offset
  <2>5. nth * Limit = x + Limit
    BY <1>4, <2>3, ReadsAssumption
  <2> QED
    BY <2>2, <2>4, <2>5, ReadsAssumption DEF Beyond
<1>8. Progressing'
  <2>1. ~anyLeft => here \subseteq SelectedOf(documents, n)
    BY <1>3 DEF Progressing
  <2>2. reader.now <= clock
    BY <1>3 DEF Progressing
  <2> QED
    BY <1>1, <1>2, <1>5, <1>7, <2>1, <2>2 DEF Progressing, In
<1>9. AsShown'
  <2> SUFFICES ASSUME writes = 0, here = SelectedOf(documents, n), NEW p \in 1 .. nth
               PROVE  reader'.shown[p] = PageIn(documents, n, p)
    BY <1>1, <1>2, <1>5 DEF AsShown
  <2>1. CASE p = nth
    BY <1>5, <2>1
  <2>2. CASE p # nth
    <3>1. p \in 1 .. nth - 1
      BY <1>4, <2>2
    <3> QED
      BY <1>3, <1>5, <3>1 DEF AsShown
  <2> QED
    BY <2>1, <2>2
<1>10. AtTheEnd'
  <2>1. reader.total <= reader.pages * Limit
    BY <1>1, <1>3 DEF AtTheEnd, In
  <2>2. ASSUME Cardinality(SelectedOf(documents, n)) = reader.total, ~anyLeft,
               nth >= reader.pages, NEW id \in here \ Seen'
        PROVE  FALSE
    <3>1. id \in SelectedOf(documents, n) /\ Beyond(documents, n, id, nth)
      BY <1>3, <1>7, <2>2 DEF Progressing
    <3>2. PICK rank \in Nat : rank = RankIn(documents, n, id)
      BY <3>1, Placed
    <3>3. rank <= reader.total /\ rank > nth * Limit
      BY <2>2, <3>1, <3>2, Placed DEF Beyond
    <3>4. reader.pages * Limit <= nth * Limit /\ nth * Limit \in Nat /\ reader.pages * Limit \in Nat
      BY <1>4, <2>2, TimesGrow, ReadsAssumption
    <3>5. PICK x \in Nat, y \in Nat : x = nth * Limit /\ y = reader.pages * Limit
      BY <3>4
    <3> QED
      BY <1>4, <2>1, <3>3, <3>4, <3>5
  <2>3. Cardinality(SelectedOf(documents, n)) = reader.total /\ ~anyLeft /\ nth >= reader.pages
           => here \subseteq Seen'
    BY <2>2
  <2> QED
    BY <1>1, <1>2, <2>1, <2>3 DEF AtTheEnd, In
<1> QED
  BY <1>1, <1>2, <1>8, <1>9, <1>10 DEF Traversal, In

LEMMA NextTraversal ==
    ASSUME Columns, Typed, Traversal, NextPage
    PROVE  Traversal'
<1> DEFINE n == reader.now
<1>1. /\ reader \in ListRequests /\ reader' \in ListRequests /\ reader.pc = "listed"
      /\ reader'.pc = "count" /\ reader'.page = reader.page + 1 /\ reader'.now = clock
      /\ reader'.shown = reader.shown
  BY ListSteps DEF NextPage, In
<1>2. /\ documents' = documents /\ clock' = clock /\ here' = here /\ anyLeft' = anyLeft
      /\ writes' = writes /\ Seen' = Seen
  BY <1>1 DEF NextPage, Seen
<1>3. Progressing /\ AsShown
  BY <1>1 DEF Traversal, Listing, ListPcs
<1>4. n \in Nat /\ clock \in Nat /\ n <= clock /\ reader.page \in Nat
      /\ Len(reader.shown) = reader.page /\ Len(reader.shown) \in Nat
  BY <1>1, <1>3 DEF Progressing, ListRequests, Columns, In
<1>5. SelectedOf(documents, n) \subseteq SelectedOf(documents, clock)
      /\ Kept(documents, documents)
  <2>1. \A id \in DOMAIN documents : documents[id].created \in Nat
    BY DEF Columns, StoredRow, Present
  <2>2. PendingDays \in Int
    BY ReadsAssumption
  <2> QED
    BY <1>4, <2>1, <2>2, SelectedAges DEF Kept
<1>6. ASSUME ~anyLeft
      PROVE  /\ here \subseteq SelectedOf(documents, clock)
             /\ \A id \in here \ Seen : Beyond(documents, clock, id, Len(reader.shown))
  <2>1. here \subseteq SelectedOf(documents, n)
    BY <1>3, <1>6 DEF Progressing
  <2>2. ASSUME NEW id \in here \ Seen PROVE Beyond(documents, clock, id, Len(reader.shown))
    <3>1. Beyond(documents, n, id, Len(reader.shown)) /\ id \in SelectedOf(documents, n)
      BY <1>3, <1>6, <2>1 DEF Progressing
    <3>2. /\ RankIn(documents, n, id) \in Nat /\ RankIn(documents, clock, id) \in Nat
          /\ RankIn(documents, n, id) <= RankIn(documents, clock, id)
      BY <1>5, <3>1, RanksGrow, FiniteSelection
    <3>3. PICK x \in Int : x = Len(reader.shown) * Limit
      BY <1>4, ReadsAssumption
    <3> QED
      BY <3>1, <3>2, <3>3 DEF Beyond
  <2> QED
    BY <1>5, <2>1, <2>2
<1>7. Progressing'
  BY <1>1, <1>2, <1>4, <1>6 DEF Progressing, In
<1>8. AsShown'
  <2> SUFFICES ASSUME writes = 0, here = SelectedOf(documents, clock), NEW p \in DOMAIN reader.shown
               PROVE  reader.shown[p] = PageIn(documents, clock, p)
    BY <1>1, <1>2 DEF AsShown
  <2>1. here \subseteq SelectedOf(documents, n)
    BY <1>3 DEF Traversal, Progressing
  <2>2. SelectedOf(documents, n) = SelectedOf(documents, clock)
    BY <1>5, <2>1
  <2> QED
    BY <1>3, <2>2, PagesOfOneList DEF AsShown
<1> QED
  BY <1>1, <1>2, <1>7, <1>8 DEF Traversal, AtTheEnd, In

LEMMA WriteTraversal ==
    ASSUME Columns, Typed, Traversal, Write, Columns', Kept(documents, documents')
    PROVE  Traversal'
<1>1. /\ clock' = clock /\ reader' = reader
      /\ here' = here \cap SelectedOf(documents', clock)
      /\ writes' = writes + 1
      /\ anyLeft' = (anyLeft \/ (~In("idle") /\
                      ~(SelectedOf(documents, clock) \subseteq SelectedOf(documents', clock))))
  <2>1. Selected(clock) = SelectedOf(documents, clock) /\ Selected(clock)' = SelectedOf(documents', clock')
    BY OnTheRows
  <2> QED
    BY <2>1 DEF Write, Noticed
<1>2. here' \subseteq SelectedOf(documents', clock')
  BY <1>1
<1>3. CASE In("idle")
  <2>1. ~Listing' /\ writes' # 0
    BY <1>1, <1>3 DEF Typed, In, Listing, ListPcs
  <2> QED
    BY <1>2, <2>1 DEF Traversal
<1>4. CASE ~In("idle")
  <2>1. writes' \in Nat /\ writes' # 0
    BY <1>1, <1>4 DEF Typed
  <2>2. ASSUME Listing PROVE Progressing' /\ AsShown' /\ AtTheEnd'
    <3> DEFINE n == reader.now
    <3>1. Progressing /\ AtTheEnd /\ reader \in ListRequests /\ Seen' = Seen
      BY <1>1, <2>2 DEF Traversal, Typed, Seen
    <3>2. n \in Nat /\ clock \in Nat /\ n <= clock /\ Len(reader.shown) \in Nat
      BY <3>1 DEF Progressing, ListRequests, Columns
    <3>3. ASSUME ~anyLeft'
          PROVE  ~anyLeft /\ SelectedOf(documents, n) \subseteq SelectedOf(documents', n)
      <4>1. ~anyLeft /\ SelectedOf(documents, clock) \subseteq SelectedOf(documents', clock)
        BY <1>1, <1>4, <3>3
      <4>2. \A id \in DOMAIN documents : documents[id].created \in Nat
        BY DEF Columns, StoredRow, Present
      <4>3. PendingDays \in Int
        BY ReadsAssumption
      <4> QED
        BY <3>2, <4>1, <4>2, <4>3, SelectedStays
    <3>4. ASSUME ~anyLeft', NEW id \in here' \ Seen
          PROVE  /\ id \in SelectedOf(documents', n)
                 /\ Beyond(documents', n, id, Len(reader.shown))
      <4>1. id \in SelectedOf(documents, n) /\ Beyond(documents, n, id, Len(reader.shown))
        BY <1>1, <3>1, <3>3, <3>4 DEF Progressing
      <4>2. IsFiniteSet(SelectedOf(documents', n))
        <5>1. SelectedOf(documents', n) \subseteq Ids
          BY DEF SelectedOf, Columns, Present
        <5> QED
          BY <5>1, ReadsAssumption, FS_Subset
      <4>3. /\ RankIn(documents, n, id) \in Nat /\ RankIn(documents', n, id) \in Nat
            /\ RankIn(documents, n, id) <= RankIn(documents', n, id)
        BY <3>3, <3>4, <4>1, <4>2, RanksGrow
      <4>4. PICK x \in Int : x = Len(reader.shown) * Limit
        BY <3>2, ReadsAssumption
      <4>5. Beyond(documents', n, id, Len(reader.shown))
        BY <4>1, <4>3, <4>4 DEF Beyond
      <4> QED
        BY <3>3, <3>4, <4>1, <4>5
    <3>5. ASSUME ~anyLeft' PROVE here' \subseteq SelectedOf(documents', n)
      BY <1>1, <3>1, <3>3, <3>5 DEF Progressing
    <3>6. Progressing'
      BY <1>1, <3>1, <3>4, <3>5 DEF Progressing, In
    <3>7. AsShown'
      BY <2>1 DEF AsShown
    <3>8. AtTheEnd'
      BY <1>1, <2>1, <3>1, <3>3 DEF AtTheEnd, In
    <3> QED
      BY <3>6, <3>7, <3>8
  <2> QED
    BY <1>1, <1>2, <1>4, <2>1, <2>2 DEF Traversal, In, Listing
<1> QED
  BY <1>3, <1>4

LEMMA DayTraversal ==
    ASSUME Columns, Typed, Traversal, Day
    PROVE  Traversal'
<1>1. /\ clock' = clock + 1 /\ documents' = documents /\ reader' = reader /\ here' = here
      /\ anyLeft' = anyLeft /\ writes' = writes /\ Seen' = Seen
  BY DEF Day, Seen
<1>2. SelectedOf(documents, clock) \subseteq SelectedOf(documents, clock + 1)
  <2>1. \A id \in DOMAIN documents : documents[id].created \in Nat
    BY DEF Columns, StoredRow, Present
  <2>2. PendingDays \in Int /\ clock \in Nat /\ clock + 1 \in Nat /\ clock <= clock + 1
    BY ReadsAssumption DEF Columns
  <2> QED
    BY <2>1, <2>2, SelectedAges
<1>3. ASSUME Listing PROVE Progressing' /\ AsShown' /\ AtTheEnd'
  <2>1. Progressing /\ AsShown /\ AtTheEnd /\ reader.now \in Nat /\ clock \in Nat
    BY <1>3 DEF Traversal, Typed, ListRequests, Columns
  <2>2. reader.now <= clock + 1
    BY <2>1 DEF Progressing
  <2>3. Progressing'
    BY <1>1, <2>1, <2>2 DEF Progressing, In
  <2> QED
    BY <1>1, <2>1, <2>3 DEF AsShown, AtTheEnd, In
<1> QED
  BY <1>1, <1>2, <1>3 DEF Traversal, In, Listing

LEMMA TraversalStep ==
    ASSUME Columns, Typed, Traversal, [ReadsNext]_readsVars, Columns', Kept(documents, documents')
    PROVE  Traversal'
<1>1. CASE UNCHANGED readsVars
  BY <1>1 DEF readsVars, Traversal, Progressing, AsShown, AtTheEnd, In, Listing, Seen
<1>3. ASSUME NEW id \in Ids, BeginDetail(id) PROVE Traversal'
  <2>1. here' = SelectedOf(documents', clock')
    BY <1>3, OnTheRows DEF BeginDetail, Fresh
  <2> QED
    BY <1>3, <2>1 DEF BeginDetail, Fresh, Traversal, In, Listing, ListPcs
<1>4. CASE RowQuery \/ CrossCheck \/ VersionsQuery
  <2>1. reader'.pc \in {"versions", "cross", "missing", "shown"}
    BY <1>4 DEF RowQuery, CrossCheck, VersionsQuery, Typed, In
  <2> QED
    BY <1>4, <2>1 DEF RowQuery, CrossCheck, VersionsQuery, Traversal, In, Listing, ListPcs
<1> QED
  BY <1>1, <1>3, <1>4, BeginTraversal, CountTraversal, PageTraversal, NextTraversal,
     WriteTraversal, DayTraversal DEF ReadsNext

\* A client that pages to the end has been shown every document it could see
\* all along, unless one left its list meanwhile; and in a quiet catalog each
\* once, as many as it was told (queryListDocuments).
THEOREM TraversalsMissNothingHolds == ReadsSpec => []TraversalsMissNothing
<1>1. ReadsInit => Columns /\ Typed /\ Traversal
  BY DetailsStart DEF ReadsInit, Idle, Traversal, In, Listing, ListPcs
<1>2. Columns /\ Typed /\ Traversal /\ [ReadsNext]_readsVars => (Columns /\ Typed /\ Traversal)'
  BY ColumnsStep, TypedStep, TraversalStep
<1>3. Columns /\ Typed /\ Traversal => TraversalsMissNothing
  <2> SUFFICES ASSUME Columns, Typed, Traversal, In("listed"), reader.page >= reader.pages,
                      reader.steady
               PROVE  /\ ~anyLeft => here \subseteq Seen
                      /\ writes = 0 /\ here = Selected(reader.now) =>
                            /\ Seen = here /\ Cardinality(Seen) = reader.total
                            /\ \A p, q \in DOMAIN reader.shown :
                                  p # q => reader.shown[p] \cap reader.shown[q] = {}
    BY DEF TraversalsMissNothing
  <2>1. /\ Progressing /\ AsShown /\ AtTheEnd /\ reader \in ListRequests
        /\ reader.shown \in Seq(SUBSET Ids)
    BY DEF Traversal, Typed, Listing, ListPcs, ListRequests, In
  <2>2. ~anyLeft => here \subseteq Seen
    BY <2>1 DEF AtTheEnd
  <2>3. ASSUME writes = 0, here = Selected(reader.now)
        PROVE  /\ Seen = here /\ Cardinality(Seen) = reader.total
               /\ \A p, q \in DOMAIN reader.shown :
                     p # q => reader.shown[p] \cap reader.shown[q] = {}
    <3>1. here = SelectedOf(documents, reader.now)
      BY <2>3, OnTheRows
    <3>2. \A p \in DOMAIN reader.shown : reader.shown[p] = PageIn(documents, reader.now, p)
      BY <2>1, <2>3, <3>1 DEF AsShown
    <3>3. Seen \subseteq here
      <4>1. ASSUME NEW x \in Seen PROVE x \in here
        <5>1. PICK p \in DOMAIN reader.shown : x \in reader.shown[p]
          BY InSeen
        <5> QED
          BY <3>1, <3>2, <5>1 DEF PageIn
      <4> QED
        BY <4>1
    <3>4. here \subseteq Seen
      BY <2>2, <2>3 DEF Traversal
    <3>5. Cardinality(here) = reader.total
      BY <2>1, <2>3, <3>1 DEF AtTheEnd
    <3>6. ASSUME NEW p \in DOMAIN reader.shown, NEW q \in DOMAIN reader.shown, p # q
          PROVE  reader.shown[p] \cap reader.shown[q] = {}
      <4>1. p \in Nat \ {0} /\ q \in Nat \ {0}
        BY <2>1, <3>6
      <4> QED
        BY <3>2, <3>6, <4>1, PagesApart
    <3> QED
      BY <3>3, <3>4, <3>5, <3>6
  <2> QED
    BY <2>2, <2>3
<1> QED
  BY <1>1, <1>2, <1>3, PTL DEF ReadsSpec
-----------------------------------------------------------------------------
(*                            The browser tab.                             *)
-----------------------------------------------------------------------------
(* The files of a batch that are sent: the positions that passed, in order. *)

\* A non-empty finite set of integers has a least element: the one with the
\* fewest below it.
LEMMA LeastOfFinite ==
    ASSUME NEW S \in SUBSET Int, IsFiniteSet(S), S # {}
    PROVE  \E least \in S : \A i \in S : least <= i
<1> DEFINE below(n) == {m \in S : m < n}
           family   == {below(n) : n \in S}
<1>1. IsWellFoundedOn(StrictSubsetOrdering(S), FiniteSubsetsOf(S))
  BY FS_StrictSubsetOrderingWellFounded
<1>2. family \subseteq FiniteSubsetsOf(S) /\ family # {}
  <2>1. ASSUME NEW n \in S PROVE below(n) \in SUBSET S /\ IsFiniteSet(below(n))
    <3>1. below(n) \in SUBSET S
      OBVIOUS
    <3> QED
      BY <3>1, FS_Subset
  <2> QED
    BY <2>1 DEF FiniteSubsetsOf
<1>3. PICK U \in family : \A V \in family : <<V, U>> \notin StrictSubsetOrdering(S)
  <2> HIDE DEF family
  <2> QED
    BY <1>1, <1>2, WFMin
<1>4. PICK x \in S : U = below(x)
  BY <1>3
<1>5. \A n \in S : x <= n
  <2> SUFFICES ASSUME NEW n \in S, n < x PROVE FALSE
    OBVIOUS
  <2>1. x \in Int /\ n \in Int
    OBVIOUS
  <2>2. ASSUME NEW m \in below(n) PROVE m \in below(x)
    BY <2>1, m \in Int
  <2>3. n \in below(x) /\ n \notin below(n)
    OBVIOUS
  <2>4. <<below(n), below(x)>> \in StrictSubsetOrdering(S)
    BY <2>2, <2>3 DEF StrictSubsetOrdering
  <2> QED
    BY <1>3, <1>4, <2>4
<1> QED
  BY <1>5

Lists(S) ==
    {s \in [1..Cardinality(S) -> S] : \A j, k \in 1..Cardinality(S) : j < k => s[j] < s[k]}

\* Every finite set of integers can be listed in order: what is left without
\* its least element can.
LEMMA ListsExist ==
    ASSUME NEW S \in SUBSET Int, IsFiniteSet(S)
    PROVE  Lists(S) # {}
<1> DEFINE unlisted == {T \in SUBSET S : Lists(T) = {}}
<1> SUFFICES ASSUME unlisted # {} PROVE FALSE
  OBVIOUS
<1>1. IsWellFoundedOn(StrictSubsetOrdering(S), FiniteSubsetsOf(S))
  BY FS_StrictSubsetOrderingWellFounded
<1>2. unlisted \subseteq FiniteSubsetsOf(S)
  BY FS_FiniteSubsetsOfFinite
<1>3. PICK U \in unlisted : \A V \in unlisted : <<V, U>> \notin StrictSubsetOrdering(S)
  <2> HIDE DEF unlisted
  <2> QED
    BY <1>1, <1>2, WFMin
<1>4. U \in SUBSET S /\ U \in SUBSET Int /\ IsFiniteSet(U) /\ Lists(U) = {}
  BY <1>3, FS_Subset
<1>5. U # {}
  <2> SUFFICES ASSUME U = {} PROVE FALSE
    OBVIOUS
  <2>1. Cardinality(U) = 0 /\ 1..0 = {}
    BY FS_EmptySet
  <2>2. [k \in 1..0 |-> 0] \in Lists(U)
    BY <2>1 DEF Lists
  <2> QED
    BY <1>4, <2>2
<1>6. PICK least \in U : \A i \in U : least <= i
  BY <1>4, <1>5, LeastOfFinite
<1> DEFINE V == U \ {least}
<1>7. V \in SUBSET S /\ IsFiniteSet(V) /\ Cardinality(U) = Cardinality(V) + 1
      /\ Cardinality(V) \in Nat
  <2>1. V \in SUBSET S /\ IsFiniteSet(V)
    BY <1>4, FS_RemoveElement
  <2>2. Cardinality(V) = Cardinality(U) - 1
    BY <1>4, FS_RemoveElement
  <2>3. Cardinality(U) \in Nat /\ Cardinality(V) \in Nat
    BY <1>4, <2>1, FS_CardinalityType
  <2> HIDE DEF V
  <2> QED
    BY <2>1, <2>2, <2>3
<1>8. PICK s : s \in Lists(V)
  <2>1. <<V, U>> \in StrictSubsetOrdering(S)
    BY <1>4 DEF StrictSubsetOrdering
  <2> QED
    BY <1>3, <1>7, <2>1
<1> DEFINE n == Cardinality(V)
           longer == [k \in 1..n + 1 |-> IF k = 1 THEN least ELSE s[k - 1]]
<1>9. n \in Nat /\ s \in [1..n -> V] /\ \A j, k \in 1..n : j < k => s[j] < s[k]
  BY <1>7, <1>8 DEF Lists
<1>10. \A k \in 1..n + 1 : k # 1 => k - 1 \in 1..n
  BY <1>7
<1>11. longer \in [1..n + 1 -> U]
  BY <1>9, <1>10
<1>12. ASSUME NEW j \in 1..n + 1, NEW k \in 1..n + 1, j < k PROVE longer[j] < longer[k]
  <2>1. n \in Nat /\ j \in Int /\ k \in Int /\ k # 1 /\ k - 1 \in 1..n
    BY <1>10, <1>12, <1>7
  <2>2. longer[k] = s[k - 1] /\ s[k - 1] \in V
    BY <2>1, <1>9
  <2>3. CASE j = 1
    <3>1. longer[j] = least /\ least \in Int /\ s[k - 1] \in Int /\ s[k - 1] # least
      BY <2>3, <2>2, <1>4, <1>6
    <3> QED
      BY <3>1, <2>2, <1>6
  <2>4. CASE j # 1
    <3>1. j - 1 \in 1..n /\ longer[j] = s[j - 1]
      BY <2>4, <1>10
    <3>2. j - 1 < k - 1
      BY <1>12, <2>1
    <3> QED
      BY <3>1, <3>2, <2>1, <2>2, <1>9
  <2> QED
    BY <2>3, <2>4
<1>13. longer \in Lists(U)
  <2> HIDE DEF longer, V
  <2> QED
    BY <1>7, <1>11, <1>12 DEF Lists
<1> QED
  BY <1>4, <1>13

\* Hence Ascending lists every element of a finite set, and nothing else.
LEMMA AscendingLists ==
    ASSUME NEW S \in SUBSET Int, IsFiniteSet(S)
    PROVE  /\ Cardinality(S) \in Nat
           /\ Ascending(S) \in [1..Cardinality(S) -> S]
           /\ \A i \in S : \E k \in 1..Cardinality(S) : Ascending(S)[k] = i
<1> DEFINE n == Cardinality(S)
           s == Ascending(S)
<1>1. n \in Nat /\ IsFiniteSet(1..n) /\ Cardinality(1..n) = n
  <2>1. n \in Nat
    BY FS_CardinalityType
  <2> QED
    BY <2>1, FS_Interval
<1>2. s \in [1..n -> S] /\ \A j, k \in 1..n : j < k => s[j] < s[k]
  <2>1. \E l \in [1..n -> S] : \A j, k \in DOMAIN l : j < k => l[j] < l[k]
    BY ListsExist DEF Lists
  <2>2. /\ s \in [1..n -> S]
        /\ \A j, k \in DOMAIN s : j < k => s[j] < s[k]
    BY <2>1 DEF Ascending
  <2> QED
    BY <2>2
<1> HIDE DEF n, s
<1>3. s \in Injection(1..n, S)
  <2>1. ASSUME NEW j \in 1..n, NEW k \in 1..n, s[j] = s[k] PROVE j = k
    <3>1. s[j] \in S /\ j \in Int /\ k \in Int
      BY <1>1, <1>2
    <3>2. ~(s[j] < s[k]) /\ ~(s[k] < s[j])
      <4> DEFINE x == s[j]
      <4>1. x \in Int
        BY <3>1
      <4> HIDE DEF x
      <4>2. ~(x < x)
        BY <4>1
      <4> QED
        BY <2>1, <4>2 DEF x
    <3>3. ~(j < k) /\ ~(k < j)
      BY <1>2, <3>2
    <3> QED
      BY <3>1, <3>3
  <2> QED
    BY <1>2, <2>1 DEF Injection, IsInjective
<1>4. s \in Surjection(1..n, S)
  BY <1>1, <1>3, FS_Injection DEF n
<1> QED
  BY <1>1, <1>2, <1>4 DEF n, s, Surjection
-----------------------------------------------------------------------------
(* One entry of the query cache, over a server whose writes are numbered.  *)

Phases == {"idle", "asked", "answered"}
Queries(keys) ==
    [data : [keys -> Nat], phase : Phases, answer : [keys -> Nat], failed : BOOLEAN,
     told : [keys -> Nat], asked : [keys -> Nat], due : [keys -> Nat]]

\* What was told or shown was written.  An answer, and what is shown of one,
\* knows of what was told or shown when it was asked for.
InOrder(q, keys, server) ==
    /\ q \in Queries(keys)
    /\ \A k \in keys :
          /\ q.told[k] <= server[k]
          /\ q.data[k] >= q.due[k]
          /\ q.asked[k] <= q.told[k]
          /\ q.phase = "answered" => q.asked[k] <= q.answer[k] /\ q.answer[k] <= server[k]

LEMMA NewQueryInOrder ==
    ASSUME NEW keys, NEW server \in [keys -> Nat]
    PROVE  InOrder(NewQuery(keys), keys, server)
BY DEF NewQuery, Nothing, InOrder, Queries, Phases

\* The server goes on.
LEMMA LaterServerInOrder ==
    ASSUME NEW keys, NEW server \in [keys -> Nat], NEW later \in [keys -> Nat],
           NEW q, InOrder(q, keys, server), \A k \in keys : server[k] <= later[k]
    PROVE  InOrder(q, keys, later)
<1>1. q \in Queries(keys)
  BY DEF InOrder
<1>2. ASSUME NEW k \in keys
      PROVE  /\ q.told[k] <= later[k]
             /\ q.phase = "answered" => q.answer[k] <= later[k]
  <2>1. q.told[k] \in Nat /\ q.answer[k] \in Nat /\ server[k] \in Nat /\ later[k] \in Nat
    BY <1>1 DEF Queries
  <2> QED
    BY <2>1 DEF InOrder
<1> QED
  BY <1>2 DEF InOrder

LEMMA FetchedInOrder ==
    ASSUME NEW keys, NEW server \in [keys -> Nat], NEW q, InOrder(q, keys, server)
    PROVE  InOrder(Fetched(q), keys, server)
<1>1. q \in Queries(keys)
  BY DEF InOrder
<1>2. CASE q.phase = "idle"
  <2> DEFINE f == [q EXCEPT !.phase = "asked", !.asked = q.told]
  <2>1. /\ f \in Queries(keys)
        /\ f.data = q.data /\ f.told = q.told /\ f.asked = q.told /\ f.phase = "asked"
        /\ f.due = q.due
    BY <1>1 DEF Queries, Phases
  <2>2. Fetched(q) = f
    BY <1>2 DEF Fetched
  <2>3. \A k \in keys : q.told[k] \in Nat
    BY <1>1 DEF Queries
  <2> HIDE DEF f
  <2> QED
    BY <2>1, <2>2, <2>3 DEF InOrder
<1>3. CASE q.phase # "idle"
  BY <1>3 DEF Fetched
<1> QED
  BY <1>2, <1>3

LEMMA AnsweredInOrder ==
    ASSUME NEW keys, NEW server \in [keys -> Nat], NEW q, InOrder(q, keys, server)
    PROVE  InOrder(Answered(q, server), keys, server)
<1> DEFINE f == Answered(q, server)
<1>1. q \in Queries(keys)
  BY DEF InOrder
<1>2. /\ f \in Queries(keys)
      /\ f.data = q.data /\ f.told = q.told /\ f.asked = q.asked /\ f.answer = server
      /\ f.due = q.due
  BY <1>1 DEF Answered, Queries, Phases
<1> HIDE DEF f
<1>3. ASSUME NEW k \in keys PROVE q.asked[k] <= server[k] /\ server[k] <= server[k]
  <2>1. q.asked[k] \in Nat /\ q.told[k] \in Nat /\ server[k] \in Nat
    BY <1>1 DEF Queries
  <2> QED
    BY <2>1 DEF InOrder
<1> QED
  BY <1>2, <1>3 DEF InOrder, f

LEMMA FailedInOrder ==
    ASSUME NEW keys, NEW server, NEW q, InOrder(q, keys, server)
    PROVE  InOrder(Failed(q), keys, server)
<1> DEFINE f == Failed(q)
<1>1. q \in Queries(keys)
  BY DEF InOrder
<1>2. /\ f \in Queries(keys)
      /\ f.data = q.data /\ f.told = q.told /\ f.asked = q.asked /\ f.phase = "idle"
      /\ f.due = q.due
  BY <1>1 DEF Failed, Queries, Phases, Nothing
<1> HIDE DEF f
<1> QED
  BY <1>2 DEF InOrder, f

\* An answer lands, whatever was told since it was asked for.
LEMMA ShownInOrder ==
    ASSUME NEW keys, NEW server \in [keys -> Nat], NEW q, InOrder(q, keys, server),
           q.phase = "answered"
    PROVE  InOrder(Shown(q), keys, server)
<1> DEFINE f == Shown(q)
<1>1. q \in Queries(keys)
  BY DEF InOrder
<1>2. \A k \in keys : /\ q.told[k] \in Nat /\ q.answer[k] \in Nat /\ q.asked[k] \in Nat
                      /\ server[k] \in Nat
  BY <1>1 DEF Queries
<1>3. /\ f \in Queries(keys)
      /\ f.data = q.answer /\ f.asked = q.asked /\ f.phase = "idle"
      /\ f.told = [k \in keys |-> Later(q.told[k], q.answer[k])]
      /\ f.due = q.asked
  BY <1>1, <1>2 DEF Shown, Queries, Phases, Nothing, Later
<1> HIDE DEF f
<1>4. ASSUME NEW k \in keys
      PROVE  /\ f.told[k] <= server[k] /\ q.answer[k] >= q.asked[k]
             /\ q.asked[k] <= f.told[k]
  <2>1. f.told[k] = Later(q.told[k], q.answer[k])
    BY <1>3
  <2>2. /\ q.told[k] <= server[k] /\ q.asked[k] <= q.told[k]
        /\ q.asked[k] <= q.answer[k] /\ q.answer[k] <= server[k]
    BY DEF InOrder
  <2>3. \/ Later(q.told[k], q.answer[k]) = q.told[k] /\ q.told[k] > q.answer[k]
        \/ Later(q.told[k], q.answer[k]) = q.answer[k] /\ q.told[k] <= q.answer[k]
    BY <1>2 DEF Later
  <2> QED
    BY <1>2, <2>1, <2>2, <2>3
<1> QED
  BY <1>3, <1>4 DEF InOrder, f

\* The answer to a write, newer than what was told when it was sent, is put in
\* the cache and told.
LEMMA ToldInOrder ==
    ASSUME NEW keys, NEW server \in [keys -> Nat], NEW q, InOrder(q, keys, server),
           NEW key \in keys, NEW n \in Nat, NEW asked \in Nat, n <= server[key], asked < n
    PROVE  InOrder(Told(SetQueryData(q, key, n), key, n, asked), keys, server)
<1> DEFINE p == SetQueryData(q, key, n)
           f == Told(p, key, n, asked)
<1>1. q \in Queries(keys)
  BY DEF InOrder
<1>2. \A k \in keys : /\ q.told[k] \in Nat /\ q.answer[k] \in Nat /\ q.asked[k] \in Nat
                      /\ q.data[k] \in Nat /\ q.due[k] \in Nat /\ server[k] \in Nat
  BY <1>1 DEF Queries
<1>3. /\ p \in Queries(keys) /\ p.data = [q.data EXCEPT ![key] = n]
      /\ p.told = q.told /\ p.asked = q.asked /\ p.answer = q.answer /\ p.phase = q.phase
      /\ p.due = q.due
  BY <1>1 DEF SetQueryData, Queries
<1> HIDE DEF p
<1>4. Later(q.told[key], n) \in Nat
  BY <1>2 DEF Later
<1>5. /\ f \in Queries(keys) /\ f.data = p.data
      /\ f.told = [q.told EXCEPT ![key] = Later(q.told[key], n)]
      /\ f.asked = q.asked /\ f.answer = q.answer /\ f.phase = q.phase
      /\ f.due = [q.due EXCEPT ![key] = asked + 1]
  <2>1. PICK m \in Nat : m = Later(q.told[key], n)
    BY <1>4
  <2>2. PICK d \in Nat : d = asked + 1
    OBVIOUS
  <2>3. f = [p EXCEPT !.told[key] = m, !.due[key] = d]
    BY <1>3, <2>1, <2>2 DEF Told
  <2> HIDE DEF f
  <2> QED
    BY <1>1, <1>3, <2>1, <2>2, <2>3 DEF Queries
<1> HIDE DEF f
<1>6. ASSUME NEW k \in keys, k # key
      PROVE  f.told[k] = q.told[k] /\ f.data[k] = q.data[k] /\ f.due[k] = q.due[k]
  BY <1>1, <1>2, <1>3, <1>5, <1>6 DEF Queries
<1>7. /\ f.told[key] <= server[key] /\ f.data[key] >= f.due[key]
      /\ q.asked[key] <= f.told[key]
  <2>1. f.told[key] = Later(q.told[key], n) /\ f.data[key] = n /\ f.due[key] = asked + 1
    BY <1>1, <1>3, <1>5 DEF Queries
  <2>2. \/ Later(q.told[key], n) = q.told[key] /\ q.told[key] > n
        \/ Later(q.told[key], n) = n /\ q.told[key] <= n
    BY <1>2 DEF Later
  <2>3. q.told[key] <= server[key] /\ q.asked[key] <= q.told[key]
    BY DEF InOrder
  <2> QED
    BY <1>2, <2>1, <2>2, <2>3
<1>8. ASSUME NEW k \in keys
      PROVE  /\ f.told[k] <= server[k]
             /\ f.data[k] >= f.due[k]
             /\ f.asked[k] <= f.told[k]
             /\ f.phase = "answered" => f.asked[k] <= f.answer[k] /\ f.answer[k] <= server[k]
  <2>1. CASE k # key
    BY <2>1, <1>5, <1>6 DEF InOrder
  <2>2. CASE k = key
    BY <2>2, <1>5, <1>7 DEF InOrder
  <2> QED
    BY <2>1, <2>2
<1> QED
  BY <1>5, <1>8 DEF InOrder, f, p
-----------------------------------------------------------------------------
(* The configuration page and the document page.                           *)

Settings == [mount : Nat, editing : ConfigKeys \cup {NoKey}, rowError : BOOLEAN,
             success : BOOLEAN, error : BOOLEAN]
Replies  == {"sent", "inserted", "answered", "failed"}
Saves    == [key : ConfigKeys, op : {"save", "reset"}, mount : Nat, phase : Replies, n : Nat,
             asked : Nat]

\* What the user had been told was written when a save was sent; what it is
\* answered with was written later.
SaveInOrder(s, server) ==
    /\ s \in Saves /\ s.asked <= server[s.key]
    /\ s.phase = "answered" => s.asked < s.n /\ s.n <= server[s.key]

\* The table is in order, and so are the mutations.
ConfigInOrder ==
    /\ config \in [ConfigKeys -> Nat]
    /\ InOrder(table, ConfigKeys, config)
    /\ settings \in Settings
    /\ \A s \in saves : SaveInOrder(s, config)

LEMMA ConfigStarts == ConfigInit => ConfigInOrder
<1> SUFFICES ASSUME ConfigInit PROVE ConfigInOrder
  OBVIOUS
<1>1. config \in [ConfigKeys -> Nat] /\ saves = {}
  BY DEF ConfigInit
<1>2. InOrder(table, ConfigKeys, config)
  BY <1>1, NewQueryInOrder DEF ConfigInit
<1>3. settings \in Settings
  BY DEF ConfigInit, PageStart, Settings
<1> QED
  BY <1>1, <1>2, <1>3 DEF ConfigInOrder

\* A write of the server leaves every answer no newer than it.
LEMMA WriteKeepsOrder ==
    ASSUME ConfigInOrder, NEW key \in ConfigKeys,
           config' = [config EXCEPT ![key] = @ + 1], table' = table
    PROVE  /\ config' \in [ConfigKeys -> Nat] /\ InOrder(table', ConfigKeys, config')
           /\ config'[key] = config[key] + 1
           /\ \A s \in saves : SaveInOrder(s, config')
<1>1. config \in [ConfigKeys -> Nat]
  BY DEF ConfigInOrder
<1>2. config' \in [ConfigKeys -> Nat] /\ config'[key] = config[key] + 1
  BY <1>1
<1>3. \A k \in ConfigKeys : config[k] <= config'[k] /\ config[k] \in Nat /\ config'[k] \in Nat
  BY <1>1
<1>4. InOrder(table', ConfigKeys, config')
  BY <1>1, <1>2, <1>3, LaterServerInOrder DEF ConfigInOrder
<1>5. ASSUME NEW s \in saves PROVE SaveInOrder(s, config')
  <2>1. SaveInOrder(s, config) /\ s.key \in ConfigKeys /\ s.n \in Nat /\ s.asked \in Nat
    BY DEF ConfigInOrder, SaveInOrder, Saves
  <2> QED
    BY <1>3, <2>1 DEF SaveInOrder
<1> QED
  BY <1>2, <1>4, <1>5

LEMMA ConfigActsKeepOrder ==
    ASSUME ConfigInOrder, ConfigActs \/ RowActs
    PROVE  ConfigInOrder'
<1>1. config' = config /\ table' = table
  BY DEF ConfigActs, RowActs, HandleStartEdit, HandleReset, HandleCancel, HandleSave
<1>2. settings \in Settings /\ settings.editing \in ConfigKeys \cup {NoKey}
      /\ settings.mount \in Nat
  BY DEF ConfigInOrder, Settings
<1>3. settings' \in Settings
  <2>1. ASSUME NEW key \in ConfigKeys, HandleStartEdit(key) PROVE settings' \in Settings
    BY <1>2, <2>1 DEF HandleStartEdit, PageStart, Settings
  <2>2. CASE HandleCancel
    BY <1>2, <2>2 DEF HandleCancel, Settings
  <2>3. CASE HandleSave
    BY <1>2, <2>3 DEF HandleSave, Settings
  <2> QED
    BY <1>2, <2>1, <2>2, <2>3 DEF ConfigActs, RowActs, HandleReset
<1>4. ASSUME NEW key \in ConfigKeys, NEW op \in {"save", "reset"}, Mutate(key, op), NEW s \in saves'
      PROVE  SaveInOrder(s, config)
  <2>1. CASE s \in saves
    BY <2>1 DEF ConfigInOrder
  <2>2. CASE s \notin saves
    <3>1. PICK asked : asked = table.told[key]
      OBVIOUS
    <3>2. asked \in Nat /\ asked <= config[key]
      BY <3>1 DEF ConfigInOrder, InOrder, Queries
    <3>3. s = [key |-> key, op |-> op, mount |-> settings.mount,
               phase |-> "sent", n |-> 0, asked |-> asked]
      BY <1>4, <2>2, <3>1 DEF Mutate
    <3> QED
      BY <1>2, <3>2, <3>3 DEF SaveInOrder, Saves, Replies
  <2> QED
    BY <2>1, <2>2
<1>5. \A s \in saves' : SaveInOrder(s, config)
  <2>1. ASSUME NEW key \in ConfigKeys, HandleReset(key) PROVE Mutate(key, "reset")
    BY <2>1 DEF HandleReset
  <2>2. ASSUME HandleSave, saves' # saves
        PROVE  settings.editing \in ConfigKeys /\ Mutate(settings.editing, "save")
    BY <1>2, <2>2 DEF HandleSave
  <2>3. \/ saves' = saves
        \/ \E key \in ConfigKeys : \E op \in {"save", "reset"} : Mutate(key, op)
    BY <2>1, <2>2 DEF ConfigActs, RowActs, HandleStartEdit, HandleCancel
  <2> QED
    BY <1>4, <2>3 DEF ConfigInOrder
<1> QED
  BY <1>1, <1>3, <1>5 DEF ConfigInOrder

LEMMA ConfigServedKeepsOrder ==
    ASSUME ConfigInOrder, ConfigServed
    PROVE  ConfigInOrder'
<1>0. config \in [ConfigKeys -> Nat]
  BY DEF ConfigInOrder
<1>1. ASSUME NEW s \in saves, WriteConfig(s) PROVE ConfigInOrder'
  <2>1. /\ SaveInOrder(s, config) /\ s \in Saves /\ s.key \in ConfigKeys /\ s.n \in Nat
        /\ s.asked \in Nat /\ s.asked <= config[s.key] /\ config[s.key] \in Nat
        /\ table' = table /\ settings' = settings
    BY <1>0, <1>1 DEF ConfigInOrder, SaveInOrder, Saves, WriteConfig
  <2> DEFINE failed == [s EXCEPT !.phase = "failed"]
  <2>2. /\ failed \in Saves /\ failed.phase = "failed" /\ failed.asked = s.asked
        /\ failed.key = s.key
    BY <2>1 DEF Saves, Replies
  <2>3. CASE config' = config /\ SaveReplied(s, failed)
    <3>1. SaveInOrder(failed, config)
      BY <2>1, <2>2 DEF SaveInOrder
    <3> HIDE DEF failed
    <3> QED
      BY <2>1, <2>3, <3>1 DEF ConfigInOrder, SaveReplied
  <2>4. ASSUME config' = [config EXCEPT ![s.key] = @ + 1],
               \/ SaveReplied(s, [s EXCEPT !.phase = "answered", !.n = config'[s.key]])
               \/ SaveReplied(s, failed)
        PROVE  ConfigInOrder'
    <3>1. /\ config' \in [ConfigKeys -> Nat] /\ InOrder(table', ConfigKeys, config')
          /\ config'[s.key] = config[s.key] + 1
          /\ \A x \in saves : SaveInOrder(x, config')
      BY <2>1, <2>4, WriteKeepsOrder
    <3>2. PICK n \in Nat : n = config'[s.key]
      BY <2>1, <3>1
    <3> DEFINE answered == [s EXCEPT !.phase = "answered", !.n = n]
    <3>3. /\ answered \in Saves /\ answered.n = n /\ answered.key = s.key
          /\ answered.asked = s.asked
      BY <2>1 DEF Saves, Replies
    <3>4. SaveInOrder(answered, config') /\ SaveInOrder(failed, config')
      BY <2>1, <2>2, <3>1, <3>2, <3>3 DEF SaveInOrder
    <3>5. \A x \in saves' : x \in saves \/ x = answered \/ x = failed
      BY <2>4, <3>2 DEF SaveReplied
    <3> HIDE DEF answered, failed
    <3> QED
      BY <2>1, <3>1, <3>4, <3>5 DEF ConfigInOrder
  <2> QED
    BY <1>1, <2>3, <2>4 DEF WriteConfig
<1>2. ASSUME table' \in {Answered(table, config), Failed(table)},
             UNCHANGED <<config, defaults, settings, saves>>
      PROVE  ConfigInOrder'
  <2>1. InOrder(table', ConfigKeys, config)
    BY <1>0, <1>2, AnsweredInOrder, FailedInOrder DEF ConfigInOrder
  <2> QED
    BY <1>2, <2>1 DEF ConfigInOrder
<1> QED
  BY <1>1, <1>2 DEF ConfigServed

LEMMA ConfigLandsInOrder ==
    ASSUME ConfigInOrder, ConfigLands
    PROVE  ConfigInOrder'
<1>0. config \in [ConfigKeys -> Nat] /\ settings \in Settings
  BY DEF ConfigInOrder
<1>1. ASSUME NEW s \in saves, SaveSucceeds(s) PROVE ConfigInOrder'
  <2>1. /\ s.key \in ConfigKeys /\ s.n \in Nat /\ s.asked \in Nat
        /\ s.asked < s.n /\ s.n <= config[s.key]
    BY <1>1 DEF ConfigInOrder, SaveInOrder, Saves, SaveSucceeds
  <2>2. InOrder(table', ConfigKeys, config)
    BY <1>0, <1>1, <2>1, ToldInOrder DEF ConfigInOrder, SaveSucceeds, PutUpdated
  <2>3. settings' \in Settings
    BY <1>0, <1>1 DEF SaveSucceeds, PageStart, Settings
  <2> QED
    BY <1>1, <2>2, <2>3 DEF ConfigInOrder, SaveSucceeds
<1>2. ASSUME NEW s \in saves, SaveFails(s) PROVE ConfigInOrder'
  <2>1. (settings.rowError \/ s.op = "save") \in BOOLEAN
    OBVIOUS
  <2>2. settings' \in Settings
    BY <1>0, <1>2, <2>1 DEF SaveFails, Settings
  <2> QED
    BY <1>2, <2>2 DEF ConfigInOrder, SaveFails
<1>3. ASSUME table.phase = "answered", table' = Shown(table),
             UNCHANGED <<config, defaults, settings, saves>>
      PROVE  ConfigInOrder'
  <2>1. InOrder(table', ConfigKeys, config)
    BY <1>0, <1>3, ShownInOrder DEF ConfigInOrder
  <2> QED
    BY <1>3, <2>1 DEF ConfigInOrder
<1> QED
  BY <1>1, <1>2, <1>3 DEF ConfigLands

LEMMA OtherWritesInOrder ==
    ASSUME ConfigInOrder, NEW key \in ConfigKeys, OtherWrites(key)
    PROVE  ConfigInOrder'
BY WriteKeepsOrder DEF OtherWrites, ConfigInOrder
-----------------------------------------------------------------------------
Stored(n) == [k \in {"versions"} |-> n]

\* What the user had been told was written when an upload was sent; the version
\* it inserted, and the detail it is answered with, came later.
RevisionInOrder(r, n) ==
    /\ r \in [mount : {r.mount}, phase : Replies, n : Nat, asked : Nat]
    /\ r.asked <= n
    /\ r.phase \in {"inserted", "answered"} => r.asked < r.n /\ r.n <= n

\* The detail is in order with the writes of the document's versions, and so
\* are the uploads.
DetailInOrder ==
    /\ history \in Seq(SUBSET Nat) /\ history # <<>>
    /\ InOrder(detail, {"versions"}, Stored(Len(history)))
    /\ \A r \in revisions : RevisionInOrder(r, Len(history))

LEMMA StoredCounts ==
    ASSUME NEW n \in Nat
    PROVE  Stored(n) \in [{"versions"} -> Nat] /\ Stored(n)["versions"] = n
BY DEF Stored

LEMMA HistoryCounts ==
    ASSUME DetailInOrder
    PROVE  /\ Len(history) \in Nat /\ Len(history) > 0 /\ Standing \in SUBSET Nat
           /\ detail.told["versions"] \in Nat /\ detail.told["versions"] <= Len(history)
<1>1. Len(history) \in Nat /\ Len(history) > 0 /\ Standing \in SUBSET Nat
  BY DEF DetailInOrder, Standing
<1>2. detail.told["versions"] \in Nat /\ detail.told["versions"] <= Stored(Len(history))["versions"]
  BY DEF DetailInOrder, InOrder, Queries
<1> QED
  BY <1>1, <1>2, StoredCounts

LEMMA DetailStarts == DocumentInit => DetailInOrder
<1> SUFFICES ASSUME DocumentInit PROVE DetailInOrder
  OBVIOUS
<1>1. history = <<{1}>> /\ revisions = {} /\ detail = NewQuery({"versions"})
  BY DEF DocumentInit
<1>2. history \in Seq(SUBSET Nat) /\ history # <<>> /\ Len(history) = 1
  BY <1>1
<1>3. InOrder(detail, {"versions"}, Stored(Len(history)))
  BY <1>1, <1>2, StoredCounts, NewQueryInOrder
<1> QED
  BY <1>1, <1>2, <1>3 DEF DetailInOrder

\* A write of the document's versions leaves every answer no newer than it.
LEMMA StoringKeepsOrder ==
    ASSUME DetailInOrder, NEW versions \in SUBSET Nat, Wrote(versions)
    PROVE  /\ history' \in Seq(SUBSET Nat) /\ history' # <<>>
           /\ Len(history') = Len(history) + 1
           /\ InOrder(detail, {"versions"}, Stored(Len(history')))
           /\ \A r \in revisions : RevisionInOrder(r, Len(history'))
<1>1. /\ history' \in Seq(SUBSET Nat) /\ history' # <<>> /\ Len(history) \in Nat
      /\ Len(history') = Len(history) + 1
  BY DEF DetailInOrder, Wrote
<1>2. PICK m \in Nat : m = Len(history)
  BY <1>1
<1>3. PICK n \in Nat : n = Len(history')
  BY <1>1
<1>4. m <= n
  BY <1>1, <1>2, <1>3
<1>5. \A k \in {"versions"} : Stored(m)[k] <= Stored(n)[k]
  BY <1>4, StoredCounts
<1>6. InOrder(detail, {"versions"}, Stored(n))
  <2>1. InOrder(detail, {"versions"}, Stored(m))
    BY <1>2 DEF DetailInOrder
  <2>2. Stored(m) \in [{"versions"} -> Nat] /\ Stored(n) \in [{"versions"} -> Nat]
    BY StoredCounts
  <2> QED
    BY <1>5, <2>1, <2>2, LaterServerInOrder
<1>7. ASSUME NEW r \in revisions PROVE RevisionInOrder(r, n)
  <2>1. RevisionInOrder(r, m) /\ r.n \in Nat /\ r.asked \in Nat
    BY <1>2 DEF DetailInOrder, RevisionInOrder
  <2> QED
    BY <1>4, <2>1 DEF RevisionInOrder
<1> QED
  BY <1>1, <1>3, <1>6, <1>7

LEMMA DocumentActsKeepOrder ==
    ASSUME DetailInOrder, DocumentActs \/ DialogActs
    PROVE  DetailInOrder'
<1>1. history' = history /\ detail' = detail
  BY DEF DocumentActs, DialogActs, SelectVersion, OpenDialog, HandleSelectFile, HandleClose,
         HandleSubmit
<1>2. CASE revisions' = revisions
  BY <1>1, <1>2 DEF DetailInOrder
<1>3. CASE HandleSubmit
  <2> DEFINE new == [mount |-> view.mount, phase |-> "sent", n |-> 0,
                     asked |-> detail.told["versions"]]
  <2>1. revisions' = revisions \cup {new}
    BY <1>3 DEF HandleSubmit
  <2>2. new.asked = detail.told["versions"] /\ new.phase = "sent"
        /\ new \in [mount : {new.mount}, phase : Replies, n : Nat, asked : Nat]
    BY HistoryCounts DEF Replies
  <2>3. RevisionInOrder(new, Len(history))
    BY <2>2, HistoryCounts DEF RevisionInOrder
  <2> HIDE DEF new
  <2> QED
    BY <1>1, <2>1, <2>3 DEF DetailInOrder
<1> QED
  BY <1>2, <1>3 DEF DocumentActs, DialogActs, SelectVersion, OpenDialog, HandleSelectFile,
                    HandleClose

LEMMA RepliedInOrder ==
    ASSUME NEW r \in revisions, NEW reply, NEW n, Replied(r, reply), RevisionInOrder(reply, n),
           \A x \in revisions : RevisionInOrder(x, n)
    PROVE  \A x \in revisions' : RevisionInOrder(x, n)
BY DEF Replied

\* A failure keeps its place in the order, and so does a reply that is as new as
\* the history.
LEMMA FailureInOrder ==
    ASSUME NEW r, NEW n, RevisionInOrder(r, n)
    PROVE  RevisionInOrder([r EXCEPT !.phase = "failed"], n)
<1> DEFINE f == [r EXCEPT !.phase = "failed"]
<1>1. f \in [mount : {r.mount}, phase : Replies, n : Nat, asked : Nat]
      /\ f.mount = r.mount /\ f.asked = r.asked /\ f.phase = "failed"
  BY DEF RevisionInOrder, Replies
<1>2. r.asked <= n
  BY DEF RevisionInOrder
<1> HIDE DEF f
<1>3. RevisionInOrder(f, n)
  BY <1>1, <1>2 DEF RevisionInOrder
<1> QED
  BY <1>3 DEF f

LEMMA ReplyInOrder ==
    ASSUME NEW r, NEW n \in Nat, RevisionInOrder(r, n), NEW phase \in {"inserted", "answered"},
           r.asked < n
    PROVE  RevisionInOrder([r EXCEPT !.phase = phase, !.n = n], n)
<1> DEFINE f == [r EXCEPT !.phase = phase, !.n = n]
<1>1. f \in [mount : {r.mount}, phase : Replies, n : Nat, asked : Nat]
      /\ f.mount = r.mount /\ f.asked = r.asked /\ f.phase = phase /\ f.n = n
  BY DEF RevisionInOrder, Replies
<1>2. r.asked <= n
  BY DEF RevisionInOrder
<1> HIDE DEF f
<1>3. RevisionInOrder(f, n)
  BY <1>1, <1>2 DEF RevisionInOrder
<1> QED
  BY <1>3 DEF f

LEMMA DocumentServedKeepsOrder ==
    ASSUME DetailInOrder, DocumentServed
    PROVE  DetailInOrder'
<1>0. /\ Len(history) \in Nat /\ Len(history) + 1 \in Nat /\ Standing \in SUBSET Nat
      /\ \A r \in revisions : RevisionInOrder(r, Len(history))
  BY HistoryCounts DEF DetailInOrder
<1>1. ASSUME NEW r \in revisions, NEW reply, Replied(r, reply), UNCHANGED <<history, detail>>,
             RevisionInOrder(reply, Len(history))
      PROVE  DetailInOrder'
  <2>1. \A x \in revisions' : RevisionInOrder(x, Len(history))
    BY <1>0, <1>1, RepliedInOrder
  <2> QED
    BY <1>1, <2>1 DEF DetailInOrder
<1>2. ASSUME NEW r \in revisions, NEW reply, Replied(r, reply), NEW versions \in SUBSET Nat,
             Wrote(versions), detail' = detail,
             \A n \in Nat : n = Len(history) + 1 /\ RevisionInOrder(r, n) => RevisionInOrder(reply, n)
      PROVE  DetailInOrder'
  <2>1. /\ history' \in Seq(SUBSET Nat) /\ history' # <<>>
        /\ InOrder(detail, {"versions"}, Stored(Len(history')))
        /\ \A x \in revisions : RevisionInOrder(x, Len(history'))
        /\ Len(history') = Len(history) + 1
    BY <1>2, StoringKeepsOrder
  <2>2. RevisionInOrder(reply, Len(history'))
    BY <1>0, <1>2, <2>1
  <2>3. \A x \in revisions' : RevisionInOrder(x, Len(history'))
    BY <1>2, <2>1, <2>2, RepliedInOrder
  <2> QED
    BY <1>2, <2>1, <2>3 DEF DetailInOrder
<1>3. ASSUME NEW r \in revisions, AddVersion(r) PROVE DetailInOrder'
  <2>1. CASE UNCHANGED history /\ Replied(r, [r EXCEPT !.phase = "failed"])
    <3>1. PICK reply : reply = [r EXCEPT !.phase = "failed"]
      OBVIOUS
    <3>2. RevisionInOrder(reply, Len(history))
      BY <1>0, <3>1, FailureInOrder
    <3> QED
      BY <1>1, <1>3, <2>1, <3>1, <3>2 DEF AddVersion
  <2>2. CASE /\ Wrote(Standing \cup {Len(history) + 1})
             /\ Replied(r, [r EXCEPT !.phase = "inserted", !.n = Len(history) + 1])
    <3>1. Standing \cup {Len(history) + 1} \in SUBSET Nat
      BY <1>0
    <3>2. PICK reply : reply = [r EXCEPT !.phase = "inserted", !.n = Len(history) + 1]
      OBVIOUS
    <3>3. ASSUME NEW n \in Nat, n = Len(history) + 1, RevisionInOrder(r, n)
          PROVE  RevisionInOrder(reply, n)
      <4>1. r.asked < n
        <5>1. r.asked \in Nat /\ r.asked <= Len(history)
          BY <1>0 DEF RevisionInOrder
        <5> QED
          BY <1>0, <3>3, <5>1
      <4> QED
        BY <3>2, <3>3, <4>1, ReplyInOrder
    <3>4. Wrote(Standing \cup {Len(history) + 1}) /\ Replied(r, reply) /\ detail' = detail
      BY <1>3, <2>2, <3>2 DEF AddVersion
    <3> QED
      BY <1>2, <3>1, <3>3, <3>4
  <2> QED
    BY <1>3, <2>1, <2>2 DEF AddVersion
<1>4. ASSUME NEW r \in revisions, AnswerRevision(r) PROVE DetailInOrder'
  <2>0. RevisionInOrder(r, Len(history)) /\ detail' = detail /\ r.phase = "inserted"
    BY <1>0, <1>4 DEF AnswerRevision
  <2>1. CASE UNCHANGED history /\ Replied(r, [r EXCEPT !.phase = "answered", !.n = Len(history)])
    <3>1. PICK reply : reply = [r EXCEPT !.phase = "answered", !.n = Len(history)]
      OBVIOUS
    <3>2. r.asked < Len(history)
      BY <1>0, <2>0 DEF RevisionInOrder
    <3>3. RevisionInOrder(reply, Len(history))
      BY <1>0, <2>0, <3>1, <3>2, ReplyInOrder
    <3> QED
      BY <1>1, <2>0, <2>1, <3>1, <3>3
  <2>2. CASE UNCHANGED history /\ Replied(r, [r EXCEPT !.phase = "failed"])
    <3>1. PICK reply : reply = [r EXCEPT !.phase = "failed"]
      OBVIOUS
    <3>2. RevisionInOrder(reply, Len(history))
      BY <2>0, <3>1, FailureInOrder
    <3> QED
      BY <1>1, <2>0, <2>2, <3>1, <3>2
  <2>3. CASE Replied(r, [r EXCEPT !.phase = "failed"]) /\ Wrote(Standing \ {r.n})
    <3>1. Standing \ {r.n} \in SUBSET Nat
      BY <1>0
    <3>2. PICK reply : reply = [r EXCEPT !.phase = "failed"]
      OBVIOUS
    <3>3. \A n \in Nat : RevisionInOrder(r, n) => RevisionInOrder(reply, n)
      BY <3>2, FailureInOrder
    <3> QED
      BY <1>2, <2>0, <2>3, <3>1, <3>2, <3>3
  <2> QED
    BY <1>4, <2>1, <2>2, <2>3 DEF AnswerRevision
<1>5. ASSUME \/ detail' = Answered(detail, Stored(Len(history)))
             \/ detail' = Failed(detail),
             UNCHANGED <<history, revisions>>
      PROVE  DetailInOrder'
  <2>1. InOrder(detail', {"versions"}, Stored(Len(history)))
    BY <1>0, <1>5, StoredCounts, AnsweredInOrder, FailedInOrder DEF DetailInOrder
  <2> QED
    BY <1>5, <2>1 DEF DetailInOrder
<1>6. ASSUME NEW v \in 1..MaxVersions, PreviewLands(v) PROVE DetailInOrder'
  BY <1>6 DEF PreviewLands, DetailInOrder
<1> QED
  BY <1>3, <1>4, <1>5, <1>6 DEF DocumentServed, Stored

LEMMA DocumentLandsInOrder ==
    ASSUME DetailInOrder, DocumentLands
    PROVE  DetailInOrder'
<1>0. Len(history) \in Nat /\ history' = history
  BY HistoryCounts DEF DocumentLands, RevisionSucceeds, RevisionFails, DetailLands
<1>1. \A r \in revisions' : r \in revisions
  BY DEF DocumentLands, RevisionSucceeds, RevisionFails, DetailLands
<1>2. PICK n \in Nat : n = Len(history)
  BY <1>0
<1>3. Stored(n) \in [{"versions"} -> Nat] /\ Stored(n)["versions"] = n
      /\ InOrder(detail, {"versions"}, Stored(n))
  BY <1>2, StoredCounts DEF DetailInOrder
<1>4. InOrder(detail', {"versions"}, Stored(n))
  <2>1. ASSUME NEW r \in revisions, RevisionSucceeds(r)
        PROVE  InOrder(detail', {"versions"}, Stored(n))
    <3>1. r.n \in Nat /\ r.asked \in Nat /\ r.asked < r.n /\ r.n <= n
      BY <1>2, <2>1 DEF DetailInOrder, RevisionInOrder, RevisionSucceeds
    <3>2. detail' = Told(SetQueryData(detail, "versions", r.n), "versions", r.n, r.asked)
      BY <2>1 DEF RevisionSucceeds
    <3> QED
      BY <1>3, <3>1, <3>2, ToldInOrder
  <2>2. ASSUME DetailLands PROVE InOrder(detail', {"versions"}, Stored(n))
    BY <1>3, <2>2, ShownInOrder DEF DetailLands
  <2>3. ASSUME NEW r \in revisions, RevisionFails(r) PROVE detail' = detail
    BY <2>3 DEF RevisionFails
  <2> QED
    BY <1>3, <2>1, <2>2, <2>3 DEF DocumentLands
<1> QED
  BY <1>0, <1>1, <1>2, <1>4 DEF DetailInOrder

LEMMA OthersWriteInOrder ==
    ASSUME DetailInOrder, OthersWriteVersions
    PROVE  DetailInOrder'
<1>0. Len(history) + 1 \in Nat /\ Standing \in SUBSET Nat
  BY HistoryCounts
<1>1. PICK versions \in SUBSET Nat : Wrote(versions)
  <2>1. CASE OtherAddsVersion
    <3>1. Standing \cup {Len(history) + 1} \in SUBSET Nat
      BY <1>0
    <3> QED
      BY <2>1, <3>1 DEF OtherAddsVersion
  <2>2. CASE OtherTakesBack
    <3>1. PICK v : Wrote(Standing \ {v})
      BY <2>2 DEF OtherTakesBack
    <3>2. Standing \ {v} \in SUBSET Nat
      BY <1>0
    <3> QED
      BY <3>1, <3>2
  <2>3. CASE DocumentGoes
    BY <2>3 DEF DocumentGoes
  <2> QED
    BY <2>1, <2>2, <2>3 DEF OthersWriteVersions
<1> QED
  BY <1>1, StoringKeepsOrder DEF OthersWriteVersions, DetailInOrder
-----------------------------------------------------------------------------
(* What is shown knows of what was known when it was asked for.            *)

PagesInOrder == ConfigInOrder /\ DetailInOrder

LEMMA ReloadInOrder ==
    ASSUME PagesInOrder, NEW p, Reload(p)
    PROVE  PagesInOrder'
<1>0. /\ config \in [ConfigKeys -> Nat] /\ config' = config
      /\ history' = history /\ Len(history) \in Nat
      /\ settings.mount + 1 \in Nat
  BY HistoryCounts DEF PagesInOrder, ConfigInOrder, Settings, Reload
<1>1. ConfigInOrder'
  <2>1. InOrder(table', ConfigKeys, config') /\ saves' = {}
    BY <1>0, NewQueryInOrder DEF Reload
  <2>2. settings' \in Settings
    BY <1>0 DEF Reload, PageStart, Settings
  <2> QED
    BY <1>0, <2>1, <2>2 DEF ConfigInOrder
<1>2. DetailInOrder'
  <2>1. detail' = NewQuery({"versions"}) /\ revisions' = {}
    BY DEF Reload
  <2>2. InOrder(detail', {"versions"}, Stored(Len(history)))
    BY <1>0, <2>1, StoredCounts, NewQueryInOrder
  <2> QED
    BY <1>0, <2>1, <2>2 DEF PagesInOrder, DetailInOrder
<1> QED
  BY <1>1, <1>2 DEF PagesInOrder

LEMMA NavigateInOrder ==
    ASSUME PagesInOrder, NEW p, Leave, Enter(p)
    PROVE  PagesInOrder'
<1>0. /\ config \in [ConfigKeys -> Nat] /\ config' = config /\ saves' = saves
      /\ history' = history /\ Len(history) \in Nat /\ revisions' = revisions
      /\ settings \in Settings /\ settings.mount + 1 \in Nat
  BY HistoryCounts DEF PagesInOrder, ConfigInOrder, Settings, Leave
<1>1. ConfigInOrder'
  <2>1. table' = table \/ table' = Fetched(table)
    BY DEF Enter, Mounted
  <2>2. InOrder(table', ConfigKeys, config)
    BY <1>0, <2>1, FetchedInOrder DEF PagesInOrder, ConfigInOrder
  <2>3. settings' \in Settings
    BY <1>0 DEF Enter, PageStart, Settings
  <2> QED
    BY <1>0, <2>2, <2>3 DEF PagesInOrder, ConfigInOrder
<1>2. DetailInOrder'
  <2>1. detail' = detail \/ detail' = Fetched(detail)
    BY DEF Enter, Mounted
  <2>2. InOrder(detail', {"versions"}, Stored(Len(history)))
    BY <1>0, <2>1, StoredCounts, FetchedInOrder DEF PagesInOrder, DetailInOrder
  <2> QED
    BY <1>0, <2>2 DEF PagesInOrder, DetailInOrder
<1> QED
  BY <1>1, <1>2 DEF PagesInOrder

LEMMA PagesStart == Init => PagesInOrder
BY ConfigStarts, DetailStarts DEF Init, PagesInOrder

LEMMA SameConfig ==
    ASSUME ConfigInOrder, UNCHANGED configVars
    PROVE  ConfigInOrder'
BY DEF configVars, ConfigInOrder

LEMMA SameDetail ==
    ASSUME DetailInOrder, UNCHANGED documentVars
    PROVE  DetailInOrder'
BY DEF documentVars, DetailInOrder

LEMMA PagesStep == PagesInOrder /\ [Next]_vars => PagesInOrder'
<1> SUFFICES ASSUME PagesInOrder, [Next]_vars PROVE PagesInOrder'
  OBVIOUS
<1>0. ConfigInOrder /\ DetailInOrder
  BY DEF PagesInOrder
<1>1. ASSUME UNCHANGED <<configVars, documentVars>> PROVE PagesInOrder'
  BY <1>0, <1>1, SameConfig, SameDetail DEF PagesInOrder
<1>2. ASSUME ConfigInOrder', UNCHANGED documentVars PROVE PagesInOrder'
  BY <1>0, <1>2, SameDetail DEF PagesInOrder
<1>3. ASSUME DetailInOrder', UNCHANGED configVars PROVE PagesInOrder'
  BY <1>0, <1>3, SameConfig DEF PagesInOrder
<1>4. CASE Act
  <2>1. CASE Navigate
    <3>1. PICK p : Leave /\ Enter(p)
      BY <2>1 DEF Navigate
    <3> QED
      BY <3>1, NavigateInOrder
  <2>2. CASE Login
    BY <2>2, ReloadInOrder DEF Login
  <2>3. CASE SessionEnds
    BY <2>3, <1>1 DEF SessionEnds
  <2>4. CASE UNCHANGED <<configVars, documentVars>>
    BY <2>4, <1>1
  <2>5. CASE ConfigActs /\ UNCHANGED <<trayVars, documentVars>>
    BY <2>5, <1>0, <1>2, ConfigActsKeepOrder
  <2>6. CASE DocumentActs /\ UNCHANGED <<trayVars, configVars>>
    BY <2>6, <1>0, <1>3, DocumentActsKeepOrder
  <2>7. ASSUME NEW key \in ConfigKeys, OtherWrites(key), UNCHANGED <<trayVars, documentVars>>
        PROVE  PagesInOrder'
    BY <2>7, <1>0, <1>2, OtherWritesInOrder
  <2>8. CASE OthersWriteVersions /\ UNCHANGED <<trayVars, configVars>>
    BY <2>8, <1>0, <1>3, OthersWriteInOrder
  <2> QED
    BY <1>4, <2>1, <2>2, <2>3, <2>4, <2>5, <2>6, <2>7, <2>8 DEF Act
<1>5. CASE Prepare
  <2>1. CASE UNCHANGED <<configVars, documentVars>>
    BY <2>1, <1>1
  <2>2. CASE RowActs /\ UNCHANGED <<trayVars, documentVars>>
    BY <2>2, <1>0, <1>2, ConfigActsKeepOrder
  <2>3. CASE DialogActs /\ UNCHANGED <<trayVars, configVars>>
    BY <2>3, <1>0, <1>3, DocumentActsKeepOrder
  <2> QED
    BY <1>5, <2>1, <2>2, <2>3 DEF Prepare
<1>6. CASE Network
  <2>1. CASE TrayFrame
    BY <2>1, <1>1 DEF TrayFrame
  <2>2. CASE (ConfigServed \/ ConfigLands) /\ UNCHANGED <<trayVars, documentVars, page, session, acts>>
    BY <2>2, <1>0, <1>2, ConfigServedKeepsOrder, ConfigLandsInOrder
  <2>3. CASE (DocumentServed \/ DocumentLands) /\ UNCHANGED <<trayVars, configVars, page, session, acts>>
    BY <2>3, <1>0, <1>3, DocumentServedKeepsOrder, DocumentLandsInOrder
  <2> QED
    BY <1>6, <2>1, <2>2, <2>3 DEF Network, PollOf
<1>7. CASE HandleAuthError
  BY <1>7, ReloadInOrder DEF HandleAuthError
<1>8. CASE UNCHANGED vars
  BY <1>1, <1>8 DEF vars
<1> QED
  BY <1>4, <1>5, <1>6, <1>7, <1>8 DEF Next

\* What the table of parameters and the page of a document show knows of every
\* write that the user had been told of or shown when it was asked for, however
\* late it landed: for any number of parameters, saves and uploads of any mount,
\* other people's writes, versions taken back, a document that goes, navigation
\* and lost answers.
THEOREM ShownKnowsWhatWasKnownHolds == Spec => []ShownKnowsWhatWasKnown
<1>1. PagesInOrder => ShownKnowsWhatWasKnown
  BY DEF PagesInOrder, ConfigInOrder, DetailInOrder, InOrder, Queries,
         ShownKnowsWhatWasKnown, KnowsWhatWasKnown
<1> QED
  BY <1>1, PagesStart, PagesStep, PTL DEF Spec
-----------------------------------------------------------------------------
(* The upload tray.  What an item may say is a matter of the server's      *)
(* documents d, the batches u on their way and the tray t it is on.        *)

AnyFile   == Nat \X Nat
TrayItems == [id : AnyFile, document : AnyFile \cup {<<>>}, polled : BOOLEAN,
              status : {"uploading", "accepted", "rejected"},
              error : {"none", "invalid", "refused", "interrupted", "MALWARE_DETECTED"}]
Trays     == [mount : Nat, drops : Nat, items : Seq(TrayItems), isUploading : BOOLEAN,
              picker : BOOLEAN,
              batchError : {"none", "BATCH_TOO_LARGE", "UPLOAD_INTERRUPTED"}, success : BOOLEAN,
              uploadedDocs : SUBSET AnyFile]
Results   == [status : {"accepted", "rejected"}, document : AnyFile \cup {<<>>}]
BatchRows == [mount : Nat, files : Seq(AnyFile), phase : {"sent", "answered", "lost"},
              results : Seq(Results)]

InFlight(file, u) ==
    file[1] \in DOMAIN u /\ \E k \in DOMAIN u[file[1]].files : u[file[1]].files[k] = file

\* Exactly the files in flight are shown as uploading, on the tray they were
\* dropped on; and the others say what became of them.
Stands(item, d, u, t) ==
    /\ item.id[1] <= t.drops
    /\ item.status = "uploading" <=> InFlight(item.id, u)
    /\ item.status = "uploading" => item.error = "none" /\ u[item.id[1]].mount = t.mount
    /\ item.status = "accepted" =>
          item.error = "none" /\ item.document = item.id
          /\ item.id \in DOMAIN d /\ item.id \in t.uploadedDocs
    /\ item.status = "rejected" => item.error # "none"
    /\ item.error \in {"invalid", "refused"} => item.id \notin DOMAIN d
    /\ item.error = "MALWARE_DETECTED" => item.id \in DOMAIN d /\ d[item.id] = "gone"

\* A batch is of files of its own.  Nothing is stored of them before it is
\* served, and the answer says of each whether it was.
Travels(b, d, u, t) ==
    /\ b \in Nat /\ b <= t.drops /\ u[b] \in BatchRows
    /\ \A k \in DOMAIN u[b].files : u[b].files[k][1] = b
    /\ u[b].phase = "sent" => \A f \in DOMAIN d : f[1] # b
    /\ u[b].phase = "answered" =>
          /\ DOMAIN u[b].results = DOMAIN u[b].files
          /\ \A k \in DOMAIN u[b].files :
                IF u[b].results[k].status = "accepted"
                THEN u[b].results[k].document = u[b].files[k] /\ u[b].files[k] \in DOMAIN d
                ELSE u[b].files[k] \notin DOMAIN d

DocsOf(d, t) ==
    \A f \in DOMAIN d : f \in AnyFile /\ f[1] <= t.drops /\ d[f] \in {"queued", "ready", "gone"}

TrayInOrder ==
    /\ tray \in Trays
    /\ DocsOf(docs, tray)
    /\ \A b \in DOMAIN uploads : Travels(b, docs, uploads, tray)
    /\ \A i \in DOMAIN tray.items : Stands(tray.items[i], docs, uploads, tray)

LEMMA EmptyTrayOK ==
    ASSUME NEW m \in Nat, NEW n \in Nat
    PROVE  EmptyTray(m, n) \in Trays /\ EmptyTray(m, n).items = <<>> /\ EmptyTray(m, n).drops = n
<1>1. <<>> \in Seq(TrayItems) /\ {} \in SUBSET AnyFile
  OBVIOUS
<1>2. EmptyTray(m, n).items = <<>> /\ EmptyTray(m, n).drops = n
  BY DEF EmptyTray
<1> HIDE DEF TrayItems, AnyFile
<1> QED
  BY <1>1, <1>2 DEF EmptyTray, Trays

LEMMA TrayStarts == TrayInit => TrayInOrder
<1> SUFFICES ASSUME TrayInit PROVE TrayInOrder
  OBVIOUS
<1>1. tray = EmptyTray(1, 0) /\ docs = <<>> /\ uploads = <<>>
  BY DEF TrayInit
<1>2. EmptyTray(1, 0) \in Trays /\ EmptyTray(1, 0).items = <<>>
  BY EmptyTrayOK
<1>3. DOMAIN docs = {} /\ DOMAIN uploads = {} /\ DOMAIN tray.items = {}
  BY <1>1, <1>2
<1> QED
  BY <1>1, <1>2, <1>3 DEF TrayInOrder, DocsOf

\* An item stands as long as nothing that concerns its file happens.
LEMMA StandsStill ==
    ASSUME NEW d, NEW u, NEW t, NEW d2, NEW u2, NEW t2, NEW item,
           Stands(item, d, u, t),
           item.id[1] \in Nat, t.drops \in Nat, t2.drops \in Nat, t.drops <= t2.drops,
           t.uploadedDocs \subseteq t2.uploadedDocs,
           \A f \in DOMAIN d : f \in DOMAIN d2 /\ (d[f] = "gone" => d2[f] = "gone"),
           item.id \in DOMAIN d2 => item.id \in DOMAIN d \/ InFlight(item.id, u),
           InFlight(item.id, u2) <=> InFlight(item.id, u),
           InFlight(item.id, u) => u2[item.id[1]].mount = u[item.id[1]].mount /\ t2.mount = t.mount
    PROVE  Stands(item, d2, u2, t2)
<1>1. item.id[1] <= t2.drops
  BY DEF Stands
<1>2. item.status = "uploading" => item.error = "none" /\ u2[item.id[1]].mount = t2.mount
  BY DEF Stands
<1>3. item.error \in {"invalid", "refused"} => item.id \notin DOMAIN d2
  BY DEF Stands
<1>4. item.error = "MALWARE_DETECTED" => item.id \in DOMAIN d2 /\ d2[item.id] = "gone"
  BY DEF Stands
<1> QED
  BY <1>1, <1>2, <1>3, <1>4 DEF Stands

\* Of a list without one of its elements, every element is one of the list's.
LEMMA WithoutOne ==
    ASSUME NEW T, NEW s \in Seq(T), NEW i \in DOMAIN s
    PROVE  LET r == SubSeq(s, 1, i - 1) \o SubSeq(s, i + 1, Len(s))
           IN  r \in Seq(T) /\ \A j \in DOMAIN r : \E k \in DOMAIN s : r[j] = s[k]
<1> DEFINE p == SubSeq(s, 1, i - 1)
           q == SubSeq(s, i + 1, Len(s))
           r == p \o q
<1>1. Len(s) \in Nat /\ DOMAIN s = 1..Len(s) /\ i \in 1..Len(s)
  OBVIOUS
<1>2. p \in Seq(T) /\ Len(p) = i - 1 /\ \A j \in 1..i - 1 : p[j] = s[j]
  BY <1>1
<1>3. q \in Seq(T) /\ Len(q) = Len(s) - i /\ \A j \in 1..Len(s) - i : q[j] = s[i + j]
  BY <1>1
<1> HIDE DEF p, q
<1>4. r \in Seq(T) /\ Len(r) = Len(p) + Len(q) /\ DOMAIN r = 1..Len(r)
  <2>1. r \in Seq(T) /\ Len(r) = Len(p) + Len(q)
    <3>1. p \in Seq(T) /\ q \in Seq(T)
      BY <1>2, <1>3
    <3> QED
      BY <3>1
  <2> HIDE DEF r
  <2> QED
    BY <2>1
<1>5. ASSUME NEW j \in DOMAIN r PROVE \E k \in DOMAIN s : r[j] = s[k]
  <2>1. CASE j <= Len(p)
    <3>1. r[j] = p[j] /\ j \in 1..i - 1 /\ j \in DOMAIN s
      BY <1>1, <1>2, <1>3, <1>4, <2>1
    <3> QED
      BY <1>2, <3>1
  <2>2. CASE j > Len(p)
    <3>1. /\ r[j] = q[j - Len(p)] /\ j - Len(p) \in 1..Len(s) - i
          /\ i + (j - Len(p)) \in DOMAIN s
      BY <1>1, <1>2, <1>3, <1>4, <2>2, SMTT(30)
    <3> QED
      BY <1>3, <3>1
  <2> QED
    BY <1>1, <1>2, <1>4, <2>1, <2>2, SMTT(30)
<1> QED
  BY <1>4, <1>5 DEF p, q
\* A file in flight is of the batch it names, and so is every file of a batch.
LEMMA OfItsBatch ==
    ASSUME TrayInOrder, NEW b \in DOMAIN uploads, NEW file, Sent(file, b)
    PROVE  /\ file[1] = b /\ InFlight(file, uploads)
           /\ \E k \in DOMAIN uploads[b].files : uploads[b].files[k] = file
BY DEF TrayInOrder, Travels, Sent, InFlight

LEMMA ItemTypes ==
    ASSUME TrayInOrder, NEW i \in DOMAIN tray.items
    PROVE  /\ tray.items \in Seq(TrayItems) /\ tray.drops \in Nat /\ tray.mount \in Nat
           /\ tray.items[i] \in TrayItems /\ tray.items[i].id \in AnyFile
           /\ tray.items[i].id[1] \in Nat
           /\ Stands(tray.items[i], docs, uploads, tray)
<1>1. tray.items \in Seq(TrayItems) /\ tray.drops \in Nat /\ tray.mount \in Nat
  BY DEF TrayInOrder, Trays
<1>2. tray.items[i] \in TrayItems
  BY <1>1
<1>3. tray.items[i].id \in AnyFile
  BY <1>2 DEF TrayItems
<1>4. tray.items[i].id[1] \in Nat
  BY <1>3 DEF AnyFile
<1> QED
  BY <1>1, <1>2, <1>3, <1>4 DEF TrayInOrder

\* A batch goes on as it was while only other files are stored and served.
LEMMA TravelsStill ==
    ASSUME NEW b, NEW d, NEW u, NEW t, NEW d2, NEW u2, NEW t2,
           Travels(b, d, u, t), t.drops \in Nat, t2.drops \in Nat, t.drops <= t2.drops,
           u2[b] = u[b],
           \A f \in DOMAIN d : f \in DOMAIN d2,
           \A f \in DOMAIN d2 : f[1] = b => f \in DOMAIN d
    PROVE  Travels(b, d2, u2, t2)
<1>1. b \in Nat /\ b <= t2.drops /\ u2[b] \in BatchRows
  BY DEF Travels
<1>2. \A k \in DOMAIN u[b].files : u[b].files[k][1] = b
  BY DEF Travels
<1>3. u[b].phase = "sent" => \A f \in DOMAIN d2 : f[1] # b
  BY DEF Travels
<1>4. \A k \in DOMAIN u[b].files : u[b].files[k] \in DOMAIN d2 <=> u[b].files[k] \in DOMAIN d
  BY <1>2
<1> QED
  BY <1>1, <1>2, <1>3, <1>4 DEF Travels

LEMMA ListIsSequence ==
    ASSUME NEW T, NEW n \in Nat, NEW f \in [1..n -> T]
    PROVE  f \in Seq(T)
OBVIOUS

LEMMA ServeInOrder ==
    ASSUME TrayInOrder, NEW b \in DOMAIN uploads, Serve(b)
    PROVE  TrayInOrder'
<1> DEFINE files == uploads[b].files
           answers(kept) == [k \in DOMAIN files |-> IF files[k] \in kept
                                THEN [status |-> "accepted", document |-> files[k]]
                                ELSE [status |-> "rejected", document |-> <<>>]]
<1>1. PICK kept \in SUBSET {files[k] : k \in DOMAIN files} :
         /\ docs' = [f \in DOMAIN docs \cup kept |->
                       IF f \in DOMAIN docs THEN docs[f] ELSE "queued"]
         /\ \/ uploads' = [uploads EXCEPT ![b].phase = "lost"]
            \/ uploads' = [uploads EXCEPT ![b].phase = "answered", ![b].results = answers(kept)]
  BY DEF Serve
<1>2. /\ tray' = tray /\ tray \in Trays /\ tray.drops \in Nat /\ uploads[b].phase = "sent"
      /\ Travels(b, docs, uploads, tray) /\ uploads[b] \in BatchRows /\ b \in Nat
      /\ b <= tray.drops /\ files \in Seq(AnyFile)
  BY DEF TrayInOrder, Serve, Trays, Travels, BatchRows
<1>3. /\ \A k \in DOMAIN files : files[k] \in AnyFile /\ files[k][1] = b
      /\ \A f \in kept : f \in AnyFile /\ f[1] = b
      /\ \A f \in kept : \E k \in DOMAIN files : files[k] = f
  BY <1>2 DEF Travels
<1>4. \A f \in DOMAIN docs : f[1] # b
  BY <1>2 DEF Travels
<1>5. /\ DOMAIN docs' = DOMAIN docs \cup kept
      /\ \A f \in DOMAIN docs : docs'[f] = docs[f]
      /\ \A f \in kept : docs'[f] = "queued"
  BY <1>1, <1>3, <1>4
<1>6. /\ DOMAIN uploads' = DOMAIN uploads
      /\ \A c \in DOMAIN uploads : c # b => uploads'[c] = uploads[c]
      /\ uploads'[b].files = files /\ uploads'[b].mount = uploads[b].mount
      /\ uploads'[b].phase = "lost"
         \/ (uploads'[b].phase = "answered" /\ uploads'[b].results = answers(kept))
  <2> HIDE DEF answers
  <2>1. PICK r : r = answers(kept)
    OBVIOUS
  <2>2. CASE uploads' = [uploads EXCEPT ![b].phase = "lost"]
    BY <1>2, <2>2 DEF BatchRows
  <2>3. CASE uploads' = [uploads EXCEPT ![b].phase = "answered", ![b].results = r]
    BY <1>2, <2>1, <2>3 DEF BatchRows
  <2> QED
    BY <1>1, <2>1, <2>2, <2>3
<1>7. uploads'[b] \in BatchRows
  <2>1. answers(kept) \in Seq(Results)
    <3>1. Len(files) \in Nat /\ DOMAIN files = 1..Len(files)
      BY <1>2
    <3>2. \A k \in DOMAIN files : answers(kept)[k] \in Results
      BY <1>3 DEF Results
    <3> DEFINE n == Len(files)
    <3>3. answers(kept) \in [1..n -> Results] /\ n \in Nat
      BY <3>1, <3>2
    <3>4. PICK r : r = answers(kept)
      OBVIOUS
    <3> HIDE DEF n, answers
    <3>5. r \in Seq(Results)
      BY <3>3, <3>4, ListIsSequence
    <3> QED
      BY <3>4, <3>5
  <2> HIDE DEF answers, files
  <2>2. PICK r \in Seq(Results) : r = answers(kept)
    BY <2>1
  <2>3. CASE uploads' = [uploads EXCEPT ![b].phase = "lost"]
    BY <1>2, <2>3 DEF BatchRows
  <2>4. CASE uploads' = [uploads EXCEPT ![b].phase = "answered", ![b].results = r]
    BY <1>2, <2>4 DEF BatchRows
  <2> QED
    BY <1>1, <2>2, <2>3, <2>4
<1>8. DocsOf(docs', tray')
  BY <1>2, <1>3, <1>5 DEF TrayInOrder, DocsOf
<1>9. ASSUME NEW c \in DOMAIN uploads' PROVE Travels(c, docs', uploads', tray')
  <2>1. CASE c # b
    <3>1. /\ c \in DOMAIN uploads /\ uploads'[c] = uploads[c] /\ Travels(c, docs, uploads, tray)
          /\ \A f \in DOMAIN docs : f \in DOMAIN docs'
          /\ \A f \in DOMAIN docs' : f[1] = c => f \in DOMAIN docs
      BY <1>3, <1>5, <1>6, <2>1 DEF TrayInOrder
    <3> QED
      BY <1>2, <3>1, TravelsStill
  <2>2. CASE c = b
    <3>1. \A k \in DOMAIN files : uploads'[b].files[k][1] = b
      BY <1>3, <1>6
    <3>2. \A k \in DOMAIN files : files[k] \in DOMAIN docs' <=> files[k] \in kept
      BY <1>3, <1>4, <1>5
    <3>3. ASSUME uploads'[b].phase = "answered"
          PROVE  /\ DOMAIN uploads'[b].results = DOMAIN files
                 /\ \A k \in DOMAIN files :
                       IF uploads'[b].results[k].status = "accepted"
                       THEN uploads'[b].results[k].document = files[k] /\ files[k] \in DOMAIN docs'
                       ELSE files[k] \notin DOMAIN docs'
      <4>1. uploads'[b].results = answers(kept)
        BY <1>6, <3>3
      <4> QED
        BY <4>1, <3>2
    <3> HIDE DEF files, answers
    <3> QED
      BY <1>2, <1>6, <1>7, <2>2, <3>1, <3>3 DEF Travels
  <2> QED
    BY <2>1, <2>2
<1>10. \A file : InFlight(file, uploads') <=> InFlight(file, uploads)
  BY <1>6 DEF InFlight
<1>11. \A c \in DOMAIN uploads : uploads'[c].mount = uploads[c].mount
  BY <1>6
<1>12. ASSUME NEW i \in DOMAIN tray.items PROVE Stands(tray.items[i], docs', uploads', tray')
  <2> DEFINE item == tray.items[i]
  <2>1. item.id[1] \in Nat /\ Stands(item, docs, uploads, tray)
    BY ItemTypes
  <2>2. item.id \in kept => InFlight(item.id, uploads)
    BY <1>3 DEF InFlight
  <2>3. InFlight(item.id, uploads) => uploads'[item.id[1]].mount = uploads[item.id[1]].mount
    BY <1>11 DEF InFlight
  <2> HIDE DEF item
  <2>4. /\ \A f \in DOMAIN docs : f \in DOMAIN docs' /\ (docs[f] = "gone" => docs'[f] = "gone")
        /\ item.id \in DOMAIN docs' => item.id \in DOMAIN docs \/ InFlight(item.id, uploads)
    BY <1>5, <2>2
  <2>5. Stands(item, docs', uploads', tray')
    BY <1>2, <1>10, <2>1, <2>3, <2>4, StandsStill
  <2> QED
    BY <2>5 DEF item
<1> QED
  BY <1>2, <1>8, <1>9, <1>12 DEF TrayInOrder

LEMMA RefuseInOrder ==
    ASSUME TrayInOrder, NEW b \in DOMAIN uploads, Refuse(b)
    PROVE  TrayInOrder'
<1>1. /\ tray' = tray /\ docs' = docs /\ tray.drops \in Nat /\ uploads[b] \in BatchRows
      /\ uploads' = [uploads EXCEPT ![b].phase = "lost"]
  BY DEF TrayInOrder, Refuse, Trays, Travels
<1>2. /\ DOMAIN uploads' = DOMAIN uploads
      /\ \A c \in DOMAIN uploads : c # b => uploads'[c] = uploads[c]
      /\ uploads'[b].files = uploads[b].files /\ uploads'[b].mount = uploads[b].mount
      /\ uploads'[b].phase = "lost" /\ uploads'[b] \in BatchRows
  BY <1>1 DEF BatchRows
<1>3. ASSUME NEW c \in DOMAIN uploads' PROVE Travels(c, docs', uploads', tray')
  BY <1>1, <1>2 DEF TrayInOrder, Travels
<1>4. \A file : InFlight(file, uploads') <=> InFlight(file, uploads)
  BY <1>2 DEF InFlight
<1>5. ASSUME NEW i \in DOMAIN tray.items PROVE Stands(tray.items[i], docs', uploads', tray')
  <2>1. Stands(tray.items[i], docs, uploads, tray)
    BY ItemTypes
  <2>2. InFlight(tray.items[i].id, uploads) =>
           uploads'[tray.items[i].id[1]].mount = uploads[tray.items[i].id[1]].mount
    BY <1>2 DEF InFlight
  <2> QED
    BY <1>1, <1>4, <2>1, <2>2 DEF Stands
<1> QED
  BY <1>1, <1>3, <1>5 DEF TrayInOrder

LEMMA DecideInOrder ==
    ASSUME TrayInOrder, NEW file \in DOMAIN docs, Decide(file)
    PROVE  TrayInOrder'
<1>1. /\ tray' = tray /\ uploads' = uploads /\ tray.drops \in Nat
      /\ DOMAIN docs' = DOMAIN docs
      /\ \A f \in DOMAIN docs : f # file => docs'[f] = docs[f]
      /\ docs[file] = "queued" /\ docs'[file] \in {"ready", "gone"}
  BY DEF TrayInOrder, Decide, Trays
<1>2. DocsOf(docs', tray')
  BY <1>1 DEF TrayInOrder, DocsOf
<1>3. ASSUME NEW c \in DOMAIN uploads' PROVE Travels(c, docs', uploads', tray')
  BY <1>1 DEF TrayInOrder, Travels
<1>4. ASSUME NEW i \in DOMAIN tray.items PROVE Stands(tray.items[i], docs', uploads', tray')
  BY <1>1, ItemTypes DEF Stands
<1> QED
  BY <1>1, <1>2, <1>3, <1>4 DEF TrayInOrder

\* What the answer of batch b makes of an item, whoever applies it.
LEMMA OutcomeStands ==
    ASSUME TrayInOrder, NEW b \in DOMAIN uploads, uploads[b].phase = "answered",
           NEW i \in DOMAIN tray.items, Sent(tray.items[i].id, b),
           NEW u2, b \notin DOMAIN u2, NEW t2, t2.drops = tray.drops,
           {uploads[b].results[k].document :
               k \in {j \in DOMAIN uploads[b].results : uploads[b].results[j].status = "accepted"}}
              \subseteq t2.uploadedDocs
    PROVE  LET item == ApplyBatchOutcome(tray.items[i], uploads[b].files, uploads[b].results)
           IN  item \in TrayItems /\ Stands(item, docs, u2, t2)
<1> DEFINE was == tray.items[i]
           files == uploads[b].files
           results == uploads[b].results
           at == CHOOSE k \in DOMAIN files : files[k] = was.id
           item == [was EXCEPT !.status = results[at].status, !.document = results[at].document,
                               !.error = IF results[at].status = "accepted" THEN "none" ELSE "refused",
                               !.polled = results[at].status = "accepted"]
<1>1. /\ was \in TrayItems /\ was.id \in AnyFile /\ was.id[1] = b
      /\ Stands(was, docs, uploads, tray)
      /\ \E k \in DOMAIN files : files[k] = was.id
      /\ DOMAIN files \cap DOMAIN results = DOMAIN files
  <2>1. DOMAIN results = DOMAIN files
    BY DEF TrayInOrder, Travels
  <2> QED
    BY <2>1, ItemTypes, OfItsBatch
<1>2. at \in DOMAIN files /\ files[at] = was.id
  BY <1>1
<1>3. Travels(b, docs, uploads, tray)
  BY DEF TrayInOrder
<1>4. /\ DOMAIN results = DOMAIN files
      /\ IF results[at].status = "accepted"
         THEN results[at].document = files[at] /\ files[at] \in DOMAIN docs
         ELSE files[at] \notin DOMAIN docs
  BY <1>2, <1>3 DEF Travels
<1>5. results \in Seq(Results)
  BY <1>3 DEF Travels, BatchRows
<1> HIDE DEF at
<1>6. results[at] \in Results
  BY <1>2, <1>4, <1>5
<1>7. ApplyBatchOutcome(was, files, results) = item
  BY <1>1 DEF ApplyBatchOutcome, at
<1> HIDE DEF was, files, results
<1>8. PICK r \in Results : r = results[at]
  BY <1>6
<1>9. r.status \in {"accepted", "rejected"} /\ r.document \in AnyFile \cup {<<>>}
  BY DEF Results
<1>10. /\ item \in TrayItems /\ item.id = was.id
       /\ item.status = r.status /\ item.document = r.document
       /\ item.error = IF r.status = "accepted" THEN "none" ELSE "refused"
  BY <1>1, <1>8, <1>9 DEF TrayItems
<1> HIDE DEF item
<1>11. ~InFlight(item.id, u2)
  BY <1>1, <1>10 DEF InFlight
<1>12. item.id[1] <= t2.drops
  BY <1>1, <1>10 DEF Stands
<1>13. CASE r.status = "accepted"
  <2>1. item.document = item.id /\ item.id \in DOMAIN docs
    BY <1>2, <1>4, <1>8, <1>10, <1>13
  <2>2. item.document \in t2.uploadedDocs
    BY <1>2, <1>4, <1>8, <1>10, <1>13 DEF results
  <2>3. Stands(item, docs, u2, t2)
    BY <1>10, <1>11, <1>12, <1>13, <2>1, <2>2 DEF Stands
  <2> QED
    BY <1>7, <1>10, <2>3 DEF was, files, results
<1>14. CASE r.status = "rejected"
  <2>1. item.id \notin DOMAIN docs
    BY <1>2, <1>4, <1>8, <1>10, <1>14
  <2>2. Stands(item, docs, u2, t2)
    BY <1>10, <1>11, <1>12, <1>14, <2>1 DEF Stands
  <2> QED
    BY <1>7, <1>10, <2>2 DEF was, files, results
<1> QED
  BY <1>9, <1>13, <1>14

\* When batch b has landed, what is in flight is what was, but for its files.
LEMMA LandedFlights ==
    ASSUME TrayInOrder, NEW b \in DOMAIN uploads, Landed(b)
    PROVE  /\ b \notin DOMAIN uploads'
           /\ \A c \in DOMAIN uploads' : c \in DOMAIN uploads /\ uploads'[c] = uploads[c]
           /\ \A file : ~Sent(file, b) => (InFlight(file, uploads') <=> InFlight(file, uploads))
           /\ \A file : InFlight(file, uploads') =>
                 uploads'[file[1]].mount = uploads[file[1]].mount
<1>1. /\ DOMAIN uploads' = DOMAIN uploads \ {b}
      /\ \A c \in DOMAIN uploads \ {b} : uploads'[c] = uploads[c]
  BY DEF Landed
<1>2. ASSUME NEW file, ~Sent(file, b)
      PROVE  InFlight(file, uploads') <=> InFlight(file, uploads)
  BY <1>1, <1>2 DEF InFlight, Sent
<1> QED
  BY <1>1, <1>2 DEF InFlight

\* An item that a landing batch is not about stands as it did.
LEMMA OthersStand ==
    ASSUME TrayInOrder, NEW b \in DOMAIN uploads, Landed(b),
           NEW i \in DOMAIN tray.items, ~Sent(tray.items[i].id, b),
           NEW t2, t2.drops = tray.drops, t2.mount = tray.mount,
           tray.uploadedDocs \subseteq t2.uploadedDocs
    PROVE  Stands(tray.items[i], docs, uploads', t2)
<1> DEFINE item == tray.items[i]
<1>1. item.id[1] \in Nat /\ Stands(item, docs, uploads, tray) /\ tray.drops \in Nat
  BY ItemTypes
<1>2. /\ InFlight(item.id, uploads') <=> InFlight(item.id, uploads)
      /\ InFlight(item.id, uploads) => uploads'[item.id[1]].mount = uploads[item.id[1]].mount
  BY LandedFlights
<1> HIDE DEF item
<1>3. Stands(item, docs, uploads', t2)
  BY <1>1, <1>2, StandsStill
<1> QED
  BY <1>3 DEF item

LEMMA LandedTravels ==
    ASSUME TrayInOrder, NEW b \in DOMAIN uploads, Landed(b),
           NEW t2, t2.drops = tray.drops
    PROVE  /\ DocsOf(docs, t2)
           /\ \A c \in DOMAIN uploads' : Travels(c, docs, uploads', t2)
<1>1. \A c \in DOMAIN uploads' : Travels(c, docs, uploads, tray) /\ uploads'[c] = uploads[c]
  BY LandedFlights DEF TrayInOrder
<1> QED
  BY <1>1 DEF Travels, TrayInOrder, DocsOf

\* A batch of an earlier tray concerns no item of this one.
LEMMA NotMine ==
    ASSUME TrayInOrder, NEW b \in DOMAIN uploads, ~Mine(b), NEW i \in DOMAIN tray.items
    PROVE  ~Sent(tray.items[i].id, b)
<1> SUFFICES ASSUME Sent(tray.items[i].id, b) PROVE FALSE
  OBVIOUS
<1>1. tray.items[i].id[1] = b /\ InFlight(tray.items[i].id, uploads)
  BY OfItsBatch
<1>2. uploads[b].mount = tray.mount
  BY <1>1, ItemTypes DEF Stands
<1> QED
  BY <1>2 DEF Mine


LEMMA SettleInOrder ==
    ASSUME TrayInOrder, NEW b \in DOMAIN uploads, SettleBatch(b)
    PROVE  TrayInOrder'
<1> DEFINE results == uploads[b].results
           files == uploads[b].files
           accepted == {results[k].document : k \in {j \in DOMAIN results :
                                                       results[j].status = "accepted"}}
           outcome(i) == ApplyBatchOutcome(tray.items[i], files, results)
<1>1. /\ uploads[b].phase = "answered" /\ Landed(b) /\ docs' = docs
      /\ tray \in Trays /\ tray.items \in Seq(TrayItems)
  BY DEF SettleBatch, TrayInOrder, Trays
<1>2. CASE ~Mine(b)
  <2>1. tray' = tray
    BY <1>2 DEF SettleBatch
  <2>2. ASSUME NEW i \in DOMAIN tray.items PROVE Stands(tray.items[i], docs, uploads', tray)
    BY <1>1, <1>2, NotMine, OthersStand
  <2> QED
    BY <1>1, <2>1, <2>2, LandedTravels DEF TrayInOrder
<1>3. CASE Mine(b)
  <2>1. tray' = [tray EXCEPT !.items = [i \in DOMAIN tray.items |-> outcome(i)],
                             !.success = @ \/ accepted # {},
                             !.uploadedDocs = @ \cup accepted, !.isUploading = FALSE]
    BY <1>3 DEF SettleBatch
  <2>2. accepted \subseteq AnyFile
    <3>1. Travels(b, docs, uploads, tray)
      BY DEF TrayInOrder
    <3>2. ASSUME NEW k \in DOMAIN results, results[k].status = "accepted"
          PROVE  results[k].document \in AnyFile
      <4>1. results[k].document = files[k] /\ files[k] \in DOMAIN docs
        BY <1>1, <3>1, <3>2 DEF Travels
      <4> QED
        BY <4>1 DEF TrayInOrder, DocsOf
    <3> QED
      BY <3>2
  <2>3. \A i \in DOMAIN tray.items : ~Sent(tray.items[i].id, b) => outcome(i) = tray.items[i]
    BY DEF Sent, ApplyBatchOutcome
  <2>4. ASSUME NEW i \in DOMAIN tray.items, NEW t2, t2.drops = tray.drops, t2.mount = tray.mount,
               accepted \subseteq t2.uploadedDocs, tray.uploadedDocs \subseteq t2.uploadedDocs
        PROVE  outcome(i) \in TrayItems /\ Stands(outcome(i), docs, uploads', t2)
    <3>1. CASE Sent(tray.items[i].id, b)
      BY <1>1, <2>4, <3>1, LandedFlights, OutcomeStands
    <3>2. CASE ~Sent(tray.items[i].id, b)
      <4>1. outcome(i) = tray.items[i]
        BY <2>3, <3>2
      <4>2. tray.items[i] \in TrayItems
        BY ItemTypes
      <4>3. Stands(tray.items[i], docs, uploads', t2)
        BY <1>1, <2>4, <3>2, OthersStand
      <4> HIDE DEF outcome
      <4> QED
        BY <4>1, <4>2, <4>3
    <3> QED
      BY <3>1, <3>2
  <2>5. PICK items : items = [i \in DOMAIN tray.items |-> outcome(i)]
    OBVIOUS
  <2>6. \A i \in DOMAIN tray.items : outcome(i) \in TrayItems
    <3>1. PICK t2 : t2 = [tray EXCEPT !.uploadedDocs = @ \cup accepted]
      OBVIOUS
    <3>2. /\ t2.drops = tray.drops /\ t2.mount = tray.mount
          /\ t2.uploadedDocs = tray.uploadedDocs \cup accepted
      BY <1>1, <3>1 DEF Trays
    <3> HIDE DEF outcome, accepted
    <3> QED
      BY <2>4, <3>2
  <2> HIDE DEF outcome, accepted
  <2>7. items \in Seq(TrayItems) /\ DOMAIN items = DOMAIN tray.items
        /\ \A i \in DOMAIN items : items[i] = outcome(i)
    <3>1. Len(tray.items) \in Nat /\ DOMAIN tray.items = 1..Len(tray.items)
      BY <1>1
    <3>2. items \in [1..Len(tray.items) -> TrayItems]
      BY <2>5, <2>6, <3>1
    <3> QED
      BY <2>5, <3>1, <3>2, ListIsSequence
  <2>8. PICK docsNow : docsNow = tray.uploadedDocs \cup accepted
    OBVIOUS
  <2>9. PICK told \in BOOLEAN : tray' = [tray EXCEPT !.items = items, !.success = told,
                                         !.uploadedDocs = docsNow, !.isUploading = FALSE]
    <3>1. (tray.success \/ accepted # {}) \in BOOLEAN
      OBVIOUS
    <3> QED
      BY <2>1, <2>5, <2>8, <3>1
  <2>10. docsNow \in SUBSET AnyFile
    BY <1>1, <2>2, <2>8 DEF Trays
  <2>11. /\ tray' \in Trays /\ tray'.items = items /\ tray'.drops = tray.drops
         /\ tray'.mount = tray.mount /\ tray'.uploadedDocs = docsNow
    BY <1>1, <2>7, <2>9, <2>10 DEF Trays
  <2>12. \A i \in DOMAIN tray.items : Stands(outcome(i), docs, uploads', tray')
    BY <2>4, <2>8, <2>11
  <2> QED
    BY <1>1, <2>7, <2>11, <2>12, LandedTravels DEF TrayInOrder
<1> QED
  BY <1>2, <1>3

LEMMA InterruptInOrder ==
    ASSUME TrayInOrder, NEW b \in DOMAIN uploads, InterruptBatch(b)
    PROVE  TrayInOrder'
<1> DEFINE files == uploads[b].files
           outcome(i) ==
               IF tray.items[i].status = "uploading"
                  /\ \E k \in DOMAIN files : files[k] = tray.items[i].id
               THEN [tray.items[i] EXCEPT !.status = "rejected", !.error = "interrupted"]
               ELSE tray.items[i]
<1>1. /\ Landed(b) /\ docs' = docs
      /\ tray \in Trays /\ tray.items \in Seq(TrayItems)
  BY DEF InterruptBatch, TrayInOrder, Trays
<1>2. CASE ~Mine(b)
  <2>1. tray' = tray
    BY <1>2 DEF InterruptBatch
  <2>2. ASSUME NEW i \in DOMAIN tray.items PROVE Stands(tray.items[i], docs, uploads', tray)
    BY <1>1, <1>2, NotMine, OthersStand
  <2> QED
    BY <1>1, <2>1, <2>2, LandedTravels DEF TrayInOrder
<1>3. CASE Mine(b)
  <2>1. tray' = [tray EXCEPT !.items = [i \in DOMAIN tray.items |-> outcome(i)],
                             !.batchError = "UPLOAD_INTERRUPTED", !.isUploading = FALSE]
    BY <1>3 DEF InterruptBatch
  <2>2. ASSUME NEW i \in DOMAIN tray.items, NEW t2, t2.drops = tray.drops, t2.mount = tray.mount,
               tray.uploadedDocs \subseteq t2.uploadedDocs
        PROVE  outcome(i) \in TrayItems /\ Stands(outcome(i), docs, uploads', t2)
    <3>1. CASE Sent(tray.items[i].id, b)
      <4>1. /\ tray.items[i] \in TrayItems /\ tray.items[i].id[1] = b
            /\ Stands(tray.items[i], docs, uploads, tray) /\ InFlight(tray.items[i].id, uploads)
            /\ \E k \in DOMAIN files : files[k] = tray.items[i].id
        BY <3>1, ItemTypes, OfItsBatch
      <4>2. outcome(i) = [tray.items[i] EXCEPT !.status = "rejected", !.error = "interrupted"]
        BY <4>1 DEF Stands
      <4>3. PICK item : item = outcome(i)
        OBVIOUS
      <4> HIDE DEF outcome
      <4>4. /\ item \in TrayItems /\ item.id = tray.items[i].id
            /\ item.status = "rejected" /\ item.error = "interrupted"
        BY <4>1, <4>2, <4>3 DEF TrayItems
      <4>5. ~InFlight(item.id, uploads')
        BY <1>1, <4>1, <4>4, LandedFlights DEF InFlight
      <4>6. Stands(item, docs, uploads', t2)
        BY <2>2, <4>1, <4>4, <4>5 DEF Stands
      <4> QED
        BY <4>3, <4>4, <4>6
    <3>2. CASE ~Sent(tray.items[i].id, b)
      <4>1. outcome(i) = tray.items[i]
        BY <3>2 DEF Sent
      <4>2. tray.items[i] \in TrayItems
        BY ItemTypes
      <4>3. Stands(tray.items[i], docs, uploads', t2)
        BY <1>1, <2>2, <3>2, OthersStand
      <4> HIDE DEF outcome
      <4> QED
        BY <4>1, <4>2, <4>3
    <3> QED
      BY <3>1, <3>2
  <2>3. PICK items : items = [i \in DOMAIN tray.items |-> outcome(i)]
    OBVIOUS
  <2> HIDE DEF outcome
  <2>4. \A i \in DOMAIN tray.items : outcome(i) \in TrayItems
    BY <2>2
  <2>5. items \in Seq(TrayItems) /\ DOMAIN items = DOMAIN tray.items
        /\ \A i \in DOMAIN items : items[i] = outcome(i)
    <3>1. Len(tray.items) \in Nat /\ DOMAIN tray.items = 1..Len(tray.items)
      BY <1>1
    <3>2. items \in [1..Len(tray.items) -> TrayItems]
      BY <2>3, <2>4, <3>1
    <3> QED
      BY <2>3, <3>1, <3>2, ListIsSequence
  <2>6. tray' = [tray EXCEPT !.items = items, !.batchError = "UPLOAD_INTERRUPTED",
                             !.isUploading = FALSE]
    BY <2>1, <2>3
  <2>7. /\ tray' \in Trays /\ tray'.items = items /\ tray'.drops = tray.drops
        /\ tray'.mount = tray.mount /\ tray'.uploadedDocs = tray.uploadedDocs
    BY <1>1, <2>5, <2>6 DEF Trays
  <2>8. \A i \in DOMAIN tray.items : Stands(outcome(i), docs, uploads', tray')
    BY <2>2, <2>7
  <2> QED
    BY <1>1, <2>5, <2>7, <2>8, LandedTravels DEF TrayInOrder
<1> QED
  BY <1>2, <1>3

LEMMA PollInOrder ==
    ASSUME TrayInOrder, NEW n \in DOMAIN tray.items, Poll(n)
    PROVE  TrayInOrder'
<1>1. /\ docs' = docs /\ uploads' = uploads /\ tray \in Trays /\ tray.items \in Seq(TrayItems)
      /\ tray.items[n].status = "accepted" /\ tray.items[n] \in TrayItems
      /\ Stands(tray.items[n], docs, uploads, tray)
  BY ItemTypes DEF Poll, TrayInOrder
<1>2. PICK item :
         /\ \/ item = [MarkTrayItemAsMalwareDetected(tray.items[n]) EXCEPT !.polled = FALSE]
               /\ docs[tray.items[n].id] = "gone"
            \/ \E polled \in BOOLEAN : item = [tray.items[n] EXCEPT !.polled = polled]
         /\ tray' = [tray EXCEPT !.items[n] = item]
  <2>1. PICK reading \in {Fate(tray.items[n].document), "error"} :
           tray' = [tray EXCEPT !.items[n] =
                IF reading = "gone" THEN [MarkTrayItemAsMalwareDetected(@) EXCEPT !.polled = FALSE]
                ELSE [@ EXCEPT !.polled = ~PollEnds(reading)]]
    BY DEF Poll
  <2>2. tray.items[n].document = tray.items[n].id /\ tray.items[n].id \in DOMAIN docs
    BY <1>1 DEF Stands
  <2>3. reading = "gone" => docs[tray.items[n].id] = "gone"
    BY <2>1, <2>2 DEF Fate
  <2>4. (~PollEnds(reading)) \in BOOLEAN
    BY DEF PollEnds
  <2> QED
    BY <2>1, <2>3, <2>4
<1>3. item \in TrayItems /\ Stands(item, docs, uploads, tray)
  <2>1. CASE item = [MarkTrayItemAsMalwareDetected(tray.items[n]) EXCEPT !.polled = FALSE]
             /\ docs[tray.items[n].id] = "gone"
    <3>1. /\ item \in TrayItems /\ item.id = tray.items[n].id
          /\ item.status = "rejected" /\ item.error = "MALWARE_DETECTED"
      BY <1>1, <2>1 DEF MarkTrayItemAsMalwareDetected, TrayItems
    <3> QED
      BY <1>1, <2>1, <3>1 DEF Stands
  <2>2. ASSUME NEW polled \in BOOLEAN, item = [tray.items[n] EXCEPT !.polled = polled]
        PROVE  item \in TrayItems /\ Stands(item, docs, uploads, tray)
    <3>1. /\ item \in TrayItems /\ item.id = tray.items[n].id
          /\ item.status = tray.items[n].status /\ item.error = tray.items[n].error
          /\ item.document = tray.items[n].document
      BY <1>1, <2>2 DEF TrayItems
    <3> QED
      BY <1>1, <3>1 DEF Stands
  <2> QED
    BY <1>2, <2>1, <2>2
<1>4. PICK items : items = [tray.items EXCEPT ![n] = item]
  OBVIOUS
<1>5. /\ items \in Seq(TrayItems) /\ DOMAIN items = DOMAIN tray.items /\ items[n] = item
      /\ \A i \in DOMAIN items : i # n => items[i] = tray.items[i]
  BY <1>1, <1>3, <1>4
<1>6. tray' = [tray EXCEPT !.items = items]
  BY <1>1, <1>2, <1>4 DEF Trays
<1>7. /\ tray' \in Trays /\ tray'.items = items /\ tray'.drops = tray.drops
      /\ tray'.mount = tray.mount /\ tray'.uploadedDocs = tray.uploadedDocs
  BY <1>1, <1>5, <1>6 DEF Trays
<1>8. \A i \in DOMAIN items : Stands(items[i], docs, uploads, tray)
  BY <1>3, <1>5 DEF TrayInOrder
<1>9. \A i \in DOMAIN items : Stands(items[i], docs, uploads, tray')
  BY <1>7, <1>8 DEF Stands
<1> QED
  BY <1>1, <1>7, <1>9 DEF TrayInOrder, DocsOf, Travels

\* A tray with other items, each of which was there, is in order.
LEMMA FewerItems ==
    ASSUME TrayInOrder, docs' = docs, uploads' = uploads,
           tray' \in Trays, tray'.drops = tray.drops, tray'.mount = tray.mount,
           tray'.uploadedDocs = tray.uploadedDocs,
           \A j \in DOMAIN tray'.items : \E k \in DOMAIN tray.items : tray'.items[j] = tray.items[k]
    PROVE  TrayInOrder'
<1>1. \A k \in DOMAIN tray.items : Stands(tray.items[k], docs, uploads, tray')
  BY DEF TrayInOrder, Stands
<1>2. \A j \in DOMAIN tray'.items : Stands(tray'.items[j], docs, uploads, tray')
  BY <1>1
<1> QED
  BY <1>2 DEF TrayInOrder, DocsOf, Travels

LEMMA DismissInOrder ==
    ASSUME TrayInOrder, NEW i \in DOMAIN tray.items, Dismiss(i)
    PROVE  TrayInOrder'
<1>1. tray \in Trays /\ tray.items \in Seq(TrayItems)
  BY DEF TrayInOrder, Trays
<1>2. PICK items : items = SubSeq(tray.items, 1, i - 1) \o SubSeq(tray.items, i + 1, Len(tray.items))
  OBVIOUS
<1>3. items \in Seq(TrayItems) /\ \A j \in DOMAIN items : \E k \in DOMAIN tray.items : items[j] = tray.items[k]
  BY <1>1, <1>2, WithoutOne
<1>4. tray' = [tray EXCEPT !.items = items] /\ docs' = docs /\ uploads' = uploads
  BY <1>2 DEF Dismiss
<1>5. /\ tray' \in Trays /\ tray'.items = items /\ tray'.drops = tray.drops
      /\ tray'.mount = tray.mount /\ tray'.uploadedDocs = tray.uploadedDocs
  BY <1>1, <1>3, <1>4 DEF Trays
<1> QED
  BY <1>3, <1>4, <1>5, FewerItems

LEMMA OpenPickerInOrder ==
    ASSUME TrayInOrder, OpenPicker
    PROVE  TrayInOrder'
<1>1. /\ tray' \in Trays /\ tray'.items = tray.items /\ tray'.drops = tray.drops
      /\ tray'.mount = tray.mount /\ tray'.uploadedDocs = tray.uploadedDocs
  BY DEF TrayInOrder, OpenPicker, Trays
<1> QED
  BY <1>1, FewerItems DEF OpenPicker

\* An empty tray, with the batches that were on their way or without.
LEMMA UnmountedInOrder ==
    ASSUME TrayInOrder, tray' = Unmounted, docs' = docs, uploads' \in {uploads, <<>>}
    PROVE  TrayInOrder'
<1>1. tray.mount + 1 \in Nat /\ tray.drops \in Nat
  BY DEF TrayInOrder, Trays
<1>2. tray' \in Trays /\ tray'.drops = tray.drops /\ tray'.items = <<>>
  BY <1>1, EmptyTrayOK DEF Unmounted
<1>3. DOMAIN tray'.items = {}
  BY <1>2
<1>4. \A b \in DOMAIN uploads' : b \in DOMAIN uploads /\ uploads'[b] = uploads[b]
  OBVIOUS
<1>5. \A b \in DOMAIN uploads' : Travels(b, docs, uploads, tray)
  BY <1>4 DEF TrayInOrder
<1>6. \A b \in DOMAIN uploads' : Travels(b, docs', uploads', tray')
  BY <1>2, <1>4, <1>5 DEF Travels
<1>7. DocsOf(docs', tray')
  BY <1>2 DEF TrayInOrder, DocsOf
<1> QED
  BY <1>2, <1>3, <1>6, <1>7 DEF TrayInOrder

\* The files sent are those that passed, as files of the batch.
LEMMA ProcessedFiles ==
    ASSUME NEW b \in Nat, NEW n \in Nat, NEW files \in [1..n -> BOOLEAN]
    PROVE  LET sent == ProcessFilesForUpload(b, files).filesToUpload
               new == ProcessFilesForUpload(b, files).newItems
           IN  /\ sent \in Seq(AnyFile)
               /\ \A k \in DOMAIN sent : sent[k][1] = b
               /\ \A i \in 1..n : (\E k \in DOMAIN sent : sent[k] = <<b, i>>) <=> files[i]
               /\ new \in Seq(TrayItems) /\ DOMAIN new = 1..n
               /\ \A i \in 1..n : /\ new[i].id = <<b, i>>
                                  /\ new[i].status = IF files[i] THEN "uploading" ELSE "rejected"
                                  /\ new[i].error = IF files[i] THEN "none" ELSE "invalid"
<1> DEFINE S == {i \in DOMAIN files : files[i]}
           passed == Ascending(S)
           sent == [k \in DOMAIN passed |-> <<b, passed[k]>>]
           new == [i \in DOMAIN files |->
                     [id |-> <<b, i>>, document |-> <<>>, polled |-> FALSE,
                      status |-> IF files[i] THEN "uploading" ELSE "rejected",
                      error |-> IF files[i] THEN "none" ELSE "invalid"]]
<1>1. /\ ProcessFilesForUpload(b, files).filesToUpload = sent
      /\ ProcessFilesForUpload(b, files).newItems = new
  BY DEF ProcessFilesForUpload
<1>2. S \in SUBSET (1..n) /\ S \in SUBSET Int /\ IsFiniteSet(S)
  <2>1. S \in SUBSET (1..n) /\ IsFiniteSet(1..n)
    BY FS_Interval
  <2> QED
    BY <2>1, FS_Subset
<1>3. /\ Cardinality(S) \in Nat /\ passed \in [1..Cardinality(S) -> S]
      /\ \A i \in S : \E k \in 1..Cardinality(S) : passed[k] = i
  BY <1>2, AscendingLists
<1> HIDE DEF passed
<1>4. PICK c \in Nat : c = Cardinality(S)
  BY <1>3
<1>5. passed \in [1..c -> S] /\ DOMAIN passed = 1..c /\ \A i \in S : \E k \in 1..c : passed[k] = i
  BY <1>3, <1>4
<1>6. ASSUME NEW k \in 1..c PROVE <<b, passed[k]>> \in AnyFile /\ passed[k] \in 1..n /\ files[passed[k]]
  BY <1>2, <1>5 DEF AnyFile
<1>7. sent \in [1..c -> AnyFile] /\ DOMAIN sent = 1..c /\ \A k \in 1..c : sent[k] = <<b, passed[k]>>
  BY <1>5, <1>6
<1>8. \A i \in 1..n : i \in S <=> files[i]
  OBVIOUS
<1>9. ASSUME NEW i \in 1..n
      PROVE  /\ new[i] \in TrayItems /\ new[i].id = <<b, i>>
             /\ new[i].status = IF files[i] THEN "uploading" ELSE "rejected"
             /\ new[i].error = IF files[i] THEN "none" ELSE "invalid"
  <2>1. <<b, i>> \in AnyFile
    BY DEF AnyFile
  <2> QED
    BY <2>1 DEF TrayItems
<1>10. new \in [1..n -> TrayItems] /\ DOMAIN new = 1..n
  BY <1>9
<1> HIDE DEF sent, new, S
<1>11. sent \in Seq(AnyFile) /\ new \in Seq(TrayItems)
  BY <1>7, <1>10, ListIsSequence
<1>12. ASSUME NEW i \in 1..n PROVE (\E k \in DOMAIN sent : sent[k] = <<b, i>>) <=> files[i]
  <2>1. ASSUME NEW k \in DOMAIN sent, sent[k] = <<b, i>> PROVE files[i]
    <3>1. k \in 1..c /\ sent[k] = <<b, passed[k]>>
      BY <1>7
    <3>2. passed[k] = i
      BY <2>1, <3>1
    <3> QED
      BY <1>6, <3>1, <3>2
  <2>2. ASSUME files[i] PROVE \E k \in DOMAIN sent : sent[k] = <<b, i>>
    <3>1. i \in S
      BY <1>8, <2>2
    <3> QED
      BY <1>5, <1>7, <3>1
  <2> QED
    BY <2>1, <2>2
<1>13. ASSUME NEW k \in DOMAIN sent PROVE sent[k][1] = b
  <2>1. k \in 1..c /\ sent[k] = <<b, passed[k]>>
    BY <1>7
  <2> QED
    BY <2>1
<1>14. /\ sent \in Seq(AnyFile)
       /\ \A k \in DOMAIN sent : sent[k][1] = b
       /\ \A i \in 1..n : (\E k \in DOMAIN sent : sent[k] = <<b, i>>) <=> files[i]
       /\ new \in Seq(TrayItems) /\ DOMAIN new = 1..n
       /\ \A i \in 1..n : /\ new[i].id = <<b, i>>
                          /\ new[i].status = IF files[i] THEN "uploading" ELSE "rejected"
                          /\ new[i].error = IF files[i] THEN "none" ELSE "invalid"
  BY <1>9, <1>10, <1>11, <1>12, <1>13
<1> QED
  BY ONLY <1>1, <1>14, ZenonT(30)

Joined(list, s, r) == list = s \o r

\* A list after another: every element is one of either's.
LEMMA OneOfEither ==
    ASSUME NEW s \in Seq(TrayItems), NEW r \in Seq(TrayItems), NEW list, Joined(list, s, r)
    PROVE  /\ list \in Seq(TrayItems)
           /\ \A j \in DOMAIN list : \/ \E k \in DOMAIN s : list[j] = s[k]
                                     \/ \E k \in DOMAIN r : list[j] = r[k]
<1> USE DEF Joined
<1>1. /\ s \o r \in Seq(TrayItems) /\ Len(s) \in Nat /\ Len(r) \in Nat
      /\ DOMAIN s = 1..Len(s) /\ DOMAIN r = 1..Len(r)
      /\ Len(s \o r) = Len(s) + Len(r)
  OBVIOUS
<1>2. DOMAIN (s \o r) = 1..Len(s) + Len(r)
  BY <1>1
<1>3. ASSUME NEW j \in DOMAIN list
      PROVE  \/ \E k \in DOMAIN s : list[j] = s[k]
             \/ \E k \in DOMAIN r : list[j] = r[k]
  <2>1. CASE j <= Len(s)
    <3>1. j \in DOMAIN s /\ list[j] = s[j]
      BY <1>1, <1>2, <2>1
    <3> QED
      BY <3>1
  <2>2. CASE j > Len(s)
    <3>1. j - Len(s) \in DOMAIN r /\ list[j] = r[j - Len(s)]
      BY <1>1, <1>2, <2>2
    <3> QED
      BY <3>1
  <2> QED
    BY <1>1, <1>2, <2>1, <2>2
<1> QED
  BY <1>1, <1>3

LEMMA FilesInOrder ==
    ASSUME TrayInOrder, NEW n \in Nat, NEW files \in [1..n -> BOOLEAN], NEW picker \in BOOLEAN,
           HandleFiles(files, picker), docs' = docs
    PROVE  TrayInOrder'
<1> DEFINE b == tray.drops + 1
<1>1. /\ tray \in Trays /\ tray.items \in Seq(TrayItems) /\ tray.drops \in Nat /\ b \in Nat
      /\ tray.drops < b
  BY DEF TrayInOrder, Trays
<1> DEFINE sent == ProcessFilesForUpload(b, files).filesToUpload
           new == ProcessFilesForUpload(b, files).newItems
           cleared == [tray EXCEPT !.drops = b, !.picker = picker, !.success = FALSE,
                                   !.batchError = "none"]
<1>2. /\ sent \in Seq(AnyFile)
      /\ \A k \in DOMAIN sent : sent[k][1] = b
      /\ \A i \in 1..n : (\E k \in DOMAIN sent : sent[k] = <<b, i>>) <=> files[i]
      /\ new \in Seq(TrayItems) /\ DOMAIN new = 1..n
      /\ \A i \in 1..n : /\ new[i].id = <<b, i>>
                         /\ new[i].status = IF files[i] THEN "uploading" ELSE "rejected"
                         /\ new[i].error = IF files[i] THEN "none" ELSE "invalid"
  BY <1>1, ProcessedFiles, ZenonT(40)
<1>3. \/ /\ tray' = [cleared EXCEPT !.batchError = "BATCH_TOO_LARGE"]
         /\ uploads' = uploads
      \/ /\ tray' = [cleared EXCEPT !.items = new \o @, !.isUploading = @ \/ sent # <<>>]
         /\ uploads' = IF sent = <<>> THEN uploads ELSE Sending(b, sent)
  BY DEF HandleFiles
<1> HIDE DEF sent, new, b
<1>4. /\ cleared \in Trays /\ cleared.drops = b /\ cleared.items = tray.items
      /\ cleared.mount = tray.mount /\ cleared.uploadedDocs = tray.uploadedDocs
  BY <1>1 DEF Trays
<1> HIDE DEF cleared
<1>5. /\ \A c \in DOMAIN uploads : c \in Nat /\ c <= tray.drops /\ c # b
      /\ \A f \in DOMAIN docs : f[1] \in Nat /\ f[1] <= tray.drops /\ f[1] # b
  <2>1. \A c \in DOMAIN uploads : c \in Nat /\ c <= tray.drops
    BY DEF TrayInOrder, Travels
  <2>2. \A f \in DOMAIN docs : f[1] \in Nat /\ f[1] <= tray.drops
    BY DEF TrayInOrder, DocsOf, AnyFile
  <2> QED
    BY <1>1, <2>1, <2>2
<1>6. ASSUME tray'.drops = b, tray'.mount = tray.mount, tray'.uploadedDocs = tray.uploadedDocs,
             \A c \in DOMAIN uploads : c \in DOMAIN uploads' /\ uploads'[c] = uploads[c],
             \A c \in DOMAIN uploads' : c \in DOMAIN uploads \/ c = b
      PROVE  /\ DocsOf(docs', tray')
             /\ \A c \in DOMAIN uploads : Travels(c, docs', uploads', tray')
             /\ \A i \in DOMAIN tray.items : Stands(tray.items[i], docs', uploads', tray')
  <2>1. DocsOf(docs', tray')
    BY <1>1, <1>5, <1>6 DEF TrayInOrder, DocsOf
  <2>2. ASSUME NEW c \in DOMAIN uploads PROVE Travels(c, docs', uploads', tray')
    <3>1. Travels(c, docs, uploads, tray) /\ uploads'[c] = uploads[c]
      BY <1>6 DEF TrayInOrder
    <3> QED
      BY <1>1, <1>6, <3>1, TravelsStill
  <2>3. ASSUME NEW i \in DOMAIN tray.items PROVE Stands(tray.items[i], docs', uploads', tray')
    <3>1. tray.items[i].id[1] \in Nat /\ Stands(tray.items[i], docs, uploads, tray)
          /\ tray.items[i].id[1] <= tray.drops
      BY ItemTypes DEF Stands
    <3>2. /\ tray.items[i].id[1] # b
          /\ InFlight(tray.items[i].id, uploads') <=> InFlight(tray.items[i].id, uploads)
          /\ InFlight(tray.items[i].id, uploads) =>
                uploads'[tray.items[i].id[1]].mount = uploads[tray.items[i].id[1]].mount
      BY <1>1, <1>6, <3>1, SMTT(30) DEF InFlight
    <3> QED
      BY <1>1, <1>6, <3>1, <3>2, StandsStill
  <2> QED
    BY <2>1, <2>2, <2>3
<1>7. CASE tray' = [cleared EXCEPT !.batchError = "BATCH_TOO_LARGE"] /\ uploads' = uploads
  <2>1. /\ tray' \in Trays /\ tray'.drops = b /\ tray'.items = tray.items
        /\ tray'.mount = tray.mount /\ tray'.uploadedDocs = tray.uploadedDocs
    BY <1>4, <1>7 DEF Trays
  <2> QED
    BY <1>6, <1>7, <2>1 DEF TrayInOrder
<1>8. CASE /\ tray' = [cleared EXCEPT !.items = new \o @, !.isUploading = @ \/ sent # <<>>]
            /\ uploads' = IF sent = <<>> THEN uploads ELSE Sending(b, sent)
  <2>1. PICK items : items = new \o tray.items
    OBVIOUS
  <2>2. /\ items \in Seq(TrayItems)
        /\ \A j \in DOMAIN items : \/ \E k \in DOMAIN new : items[j] = new[k]
                                   \/ \E k \in DOMAIN tray.items : items[j] = tray.items[k]
    <3>1. PICK s \in Seq(TrayItems), r \in Seq(TrayItems) : s = new /\ r = tray.items
      BY <1>1, <1>2
    <3>2. PICK list : Joined(list, s, r)
      BY DEF Joined
    <3>3. /\ list \in Seq(TrayItems)
          /\ \A j \in DOMAIN list : \/ \E k \in DOMAIN s : list[j] = s[k]
                                    \/ \E k \in DOMAIN r : list[j] = r[k]
      BY <3>2, OneOfEither
    <3> QED
      BY <2>1, <3>1, <3>2, <3>3 DEF Joined
  <2>3. PICK busy \in BOOLEAN : tray' = [cleared EXCEPT !.items = items, !.isUploading = busy]
    <3>1. (cleared.isUploading \/ sent # <<>>) \in BOOLEAN
      OBVIOUS
    <3> QED
      BY <1>4, <1>8, <2>1, <3>1
  <2>4. /\ tray' \in Trays /\ tray'.drops = b /\ tray'.items = items
        /\ tray'.mount = tray.mount /\ tray'.uploadedDocs = tray.uploadedDocs
    BY <1>4, <2>2, <2>3 DEF Trays
  <2>5. /\ \A c \in DOMAIN uploads : c \in DOMAIN uploads' /\ uploads'[c] = uploads[c]
        /\ \A c \in DOMAIN uploads' : c \in DOMAIN uploads \/ c = b
    BY <1>5, <1>8 DEF Sending
  <2>6. /\ DocsOf(docs', tray')
        /\ \A c \in DOMAIN uploads : Travels(c, docs', uploads', tray')
        /\ \A i \in DOMAIN tray.items : Stands(tray.items[i], docs', uploads', tray')
    BY <1>6, <2>4, <2>5
  <2>7. b \in DOMAIN uploads' <=> sent # <<>>
    BY <1>5, <1>8 DEF Sending
  <2>8. b \in DOMAIN uploads' =>
           uploads'[b] = [mount |-> tray.mount, files |-> sent, phase |-> "sent", results |-> <<>>]
    BY <1>5, <1>8 DEF Sending
  <2>9. ASSUME b \in DOMAIN uploads' PROVE Travels(b, docs', uploads', tray')
    <3>1. /\ uploads'[b].mount = tray.mount /\ uploads'[b].files = sent
          /\ uploads'[b].phase = "sent"
      BY <2>8, <2>9
    <3>2. uploads'[b] \in BatchRows
      <4>1. <<>> \in Seq(Results) /\ tray.mount \in Nat
        BY <1>1 DEF Trays
      <4>2. PICK row : row = [mount |-> tray.mount, files |-> sent, phase |-> "sent", results |-> <<>>]
        OBVIOUS
      <4>3. row \in BatchRows
        BY <1>2, <4>1, <4>2 DEF BatchRows
      <4> QED
        BY <2>8, <2>9, <4>2, <4>3
    <3> QED
      BY <1>1, <1>2, <1>5, <2>4, <3>1, <3>2 DEF Travels
  <2>10. ASSUME NEW k \in 1..n PROVE Stands(new[k], docs', uploads', tray')
    <3>1. /\ new[k].id = <<b, k>> /\ new[k].id[1] = b
          /\ new[k].status = IF files[k] THEN "uploading" ELSE "rejected"
          /\ new[k].error = IF files[k] THEN "none" ELSE "invalid"
      <4>1. /\ new[k].id = <<b, k>>
            /\ new[k].status = IF files[k] THEN "uploading" ELSE "rejected"
            /\ new[k].error = IF files[k] THEN "none" ELSE "invalid"
        BY <1>2
      <4>2. <<b, k>>[1] = b
        OBVIOUS
      <4> QED
        BY <4>1, <4>2
    <3>2. InFlight(new[k].id, uploads') <=> files[k]
      <4>1. ASSUME files[k] PROVE sent # <<>>
        <5>1. PICK j \in DOMAIN sent : sent[j] = <<b, k>>
          BY <1>2, <4>1
        <5>2. DOMAIN <<>> = {}
          OBVIOUS
        <5> QED
          BY <5>1, <5>2
      <4>2. b \in DOMAIN uploads' => uploads'[b].files = sent
        BY <2>8
      <4>3. InFlight(new[k].id, uploads') <=>
               /\ b \in DOMAIN uploads'
               /\ \E j \in DOMAIN uploads'[b].files : uploads'[b].files[j] = <<b, k>>
        BY <3>1 DEF InFlight
      <4>4. (\E j \in DOMAIN sent : sent[j] = <<b, k>>) <=> files[k]
        BY <1>2
      <4> QED
        BY <2>7, <4>1, <4>2, <4>3, <4>4
    <3>3. new[k].id \notin DOMAIN docs
      BY <1>5, <3>1
    <3>4. InFlight(new[k].id, uploads') => uploads'[new[k].id[1]].mount = tray'.mount
      BY <2>4, <2>8, <3>1 DEF InFlight
    <3>5. new[k].id[1] <= tray'.drops
      BY <1>1, <2>4, <3>1
    <3> QED
      BY <1>1, <3>1, <3>2, <3>3, <3>4, <3>5 DEF Stands
  <2>11. ASSUME NEW j \in DOMAIN items PROVE Stands(items[j], docs', uploads', tray')
    BY <1>2, <2>2, <2>6, <2>10
  <2>12. \A c \in DOMAIN uploads' : Travels(c, docs', uploads', tray')
    BY <2>5, <2>6, <2>9
  <2> QED
    BY <2>4, <2>6, <2>11, <2>12 DEF TrayInOrder
<1> QED
  BY <1>3, <1>7, <1>8

LEMMA BatchInOrder ==
    ASSUME TrayInOrder, NEW files \in Batch, NEW picker \in BOOLEAN, HandleFiles(files, picker),
           docs' = docs
    PROVE  TrayInOrder'
<1>1. PICK n \in 1..MAX_BATCH_FILES + 1 : files \in [1..n -> BOOLEAN]
  BY DEF Batch
<1> QED
  BY <1>1, FilesInOrder

\* Dropped, or chosen in the picker; or it is closed without.
LEMMA DropInOrder ==
    ASSUME TrayInOrder, DropFiles \/ ChooseFiles
    PROVE  TrayInOrder'
<1>1. tray \in Trays /\ tray.picker \in BOOLEAN /\ docs' = docs
  BY DEF TrayInOrder, Trays, DropFiles, ChooseFiles
<1>2. CASE tray' = [tray EXCEPT !.picker = FALSE] /\ UNCHANGED uploads
  <2>1. /\ tray' \in Trays /\ tray'.items = tray.items /\ tray'.drops = tray.drops
        /\ tray'.mount = tray.mount /\ tray'.uploadedDocs = tray.uploadedDocs
    BY <1>1, <1>2 DEF Trays
  <2> QED
    BY <1>1, <1>2, <2>1, FewerItems
<1>3. ASSUME NEW files \in Batch, NEW picker \in BOOLEAN, HandleFiles(files, picker)
      PROVE  TrayInOrder'
  BY <1>1, <1>3, BatchInOrder
<1> QED
  BY <1>1, <1>2, <1>3 DEF DropFiles, ChooseFiles
-----------------------------------------------------------------------------
(* What the tray says is so.                                               *)

LEMMA SameTray ==
    ASSUME TrayInOrder, UNCHANGED <<docs, tray, uploads>>
    PROVE  TrayInOrder'
BY DEF TrayInOrder

LEMMA TrayStep == TrayInOrder /\ [Next]_vars => TrayInOrder'
<1> SUFFICES ASSUME TrayInOrder, [Next]_vars PROVE TrayInOrder'
  OBVIOUS
<1>1. CASE UNCHANGED trayVars
  BY <1>1, SameTray DEF trayVars
<1>2. ASSUME NEW p, Reload(p) PROVE TrayInOrder'
  BY <1>2, UnmountedInOrder DEF Reload
<1>3. CASE Leave
  <2>1. CASE tray' = Unmounted
    BY <1>3, <2>1, UnmountedInOrder DEF Leave
  <2>2. CASE tray' = tray
    BY <1>3, <2>2, SameTray DEF Leave
  <2> QED
    BY <1>3, <2>1, <2>2 DEF Leave
<1>4. CASE TrayActs
  BY <1>4, DropInOrder, DismissInOrder DEF TrayActs
<1>5. CASE Act
  BY <1>1, <1>2, <1>3, <1>4, <1>5 DEF Act, Navigate, Login, SessionEnds
<1>6. CASE Network
  <2>1. ASSUME NEW file, PollOf(file) PROVE TrayInOrder'
    BY <2>1, PollInOrder DEF PollOf
  <2>2. ASSUME NEW b \in DOMAIN uploads,
               Serve(b) \/ Refuse(b) \/ SettleBatch(b) \/ InterruptBatch(b)
        PROVE  TrayInOrder'
    BY <2>2, ServeInOrder, RefuseInOrder, SettleInOrder, InterruptInOrder
  <2>3. ASSUME NEW file \in DOMAIN docs, Decide(file) PROVE TrayInOrder'
    BY <2>3, DecideInOrder
  <2> QED
    BY <1>1, <1>6, <2>1, <2>2, <2>3 DEF Network
<1>7. CASE HandleAuthError
  BY <1>2, <1>7 DEF HandleAuthError
<1>8. CASE UNCHANGED vars
  BY <1>1, <1>8 DEF vars
<1>9. CASE Prepare
  BY <1>1, <1>9, OpenPickerInOrder DEF Prepare
<1> QED
  BY <1>5, <1>6, <1>7, <1>8, <1>9 DEF Next

\* What the tray says of a file is what became of it, for any number of files
\* and of batches that overlap, whichever the browser or the server refuses, and
\* whichever answers are lost or come after the tray was left: an accepted item
\* carries its own document, a refused one has none, one called malware is gone,
\* and one shown as uploading still has its answer to come.
THEOREM TrayTellsTheTruthHolds == Spec => []TrayTellsTheTruth
<1>1. Init => TrayInOrder
  BY TrayStarts DEF Init
<1>2. TrayInOrder => TrayTellsTheTruth
  <2> SUFFICES ASSUME TrayInOrder, NEW i \in DOMAIN tray.items
               PROVE  CASE Item(i).status = "accepted" ->
                              /\ Item(i).document = Item(i).id
                              /\ Fate(Item(i).id) # "none"
                              /\ Item(i).document \in tray.uploadedDocs
                        [] Item(i).error \in {"invalid", "refused"} -> Fate(Item(i).id) = "none"
                        [] Item(i).error = "MALWARE_DETECTED" -> Fate(Item(i).id) = "gone"
                        [] Item(i).error = "interrupted" -> TRUE
                        [] OTHER -> \E b \in DOMAIN uploads : Mine(b) /\ Sent(Item(i).id, b)
    BY DEF TrayTellsTheTruth
  <2>1. /\ Item(i) \in TrayItems /\ Stands(Item(i), docs, uploads, tray)
        /\ Item(i).status \in {"uploading", "accepted", "rejected"}
        /\ Item(i).error \in {"none", "invalid", "refused", "interrupted", "MALWARE_DETECTED"}
    BY ItemTypes DEF Item, TrayItems
  <2>2. \A f \in DOMAIN docs : docs[f] # "none"
    BY DEF TrayInOrder, DocsOf
  <2>3. CASE Item(i).status = "accepted"
    <3>1. /\ Item(i).error = "none" /\ Item(i).document = Item(i).id
          /\ Fate(Item(i).id) # "none" /\ Item(i).document \in tray.uploadedDocs
      BY <2>1, <2>2, <2>3 DEF Stands, Fate
    <3> QED
      BY <2>3, <3>1
  <2>4. CASE Item(i).status = "rejected"
    <3>1. /\ Item(i).error # "none"
          /\ Item(i).error \in {"invalid", "refused"} => Fate(Item(i).id) = "none"
          /\ Item(i).error = "MALWARE_DETECTED" => Fate(Item(i).id) = "gone"
      BY <2>1, <2>4 DEF Stands, Fate
    <3> QED
      BY <2>1, <2>4, <3>1
  <2>5. CASE Item(i).status = "uploading"
    <3>1. /\ Item(i).error = "none"
          /\ \E b \in DOMAIN uploads : Mine(b) /\ Sent(Item(i).id, b)
      BY <2>1, <2>5 DEF Stands, InFlight, Mine, Sent
    <3> QED
      BY <2>5, <3>1
  <2> QED
    BY <2>1, <2>3, <2>4, <2>5
<1> QED
  BY <1>1, <1>2, TrayStep, PTL DEF Spec
=============================================================================
