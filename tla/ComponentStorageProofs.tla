----------------------- MODULE ComponentStorageProofs -----------------------
(***************************************************************************)
(* Proofs about ComponentStorage for every set of entities, every page     *)
(* capacity and every hash.                                                *)
(***************************************************************************)
EXTENDS ComponentStorage, FiniteSetTheorems, WellFoundedInduction, TLAPS

(***************************************************************************)
(* A nonempty set of page numbers has a largest one, so that the walk of   *)
(* the pages from the last to the first (ThSparseStructuredStorage.h)      *)
(* stops at a page of the set.                                             *)
(***************************************************************************)
LEMMA MaxIsMember ==
  ASSUME NEW n \in Nat, NEW S, S \subseteq 1 .. n, S # {}
  PROVE  Max(S) \in S /\ \A s \in S : s <= Max(S)
PROOF
  <1> DEFINE R == OpToRel(<, Nat)
             T == {n - s : s \in S}
  <1>1. IsWellFoundedOn(R, Nat)
    BY NatLessThanWellFounded
  <1>2. T \subseteq Nat /\ T # {}
    <2>1. \A s \in S : n - s \in Nat
      OBVIOUS
    <2>2. PICK s \in S : TRUE
      OBVIOUS
    <2>3. n - s \in T
      BY DEF T
    <2> HIDE DEF R
    <2> QED BY <2>1, <2>3 DEF T
  <1>3. PICK x \in T : \A y \in T : ~ (<<y, x>> \in R)
    <2> HIDE DEF R, T
    <2> QED BY <1>1, <1>2, WFMin
  <1>4. \A y \in T : ~ (y < x)
    BY <1>2, <1>3 DEF OpToRel
  <1>5. PICK m \in S : x = n - m
    OBVIOUS
  <1>6. \A s \in S : m >= s
    BY <1>4, <1>5
  <1> QED BY <1>6 DEF Max

-----------------------------------------------------------------------------

(***************************************************************************)
(* A page as the constructor leaves it has the type of a page and stores   *)
(* nothing.                                                                *)
(***************************************************************************)
LEMMA NewPageIsPage ==
  /\ NewPage \in Page
  /\ \A entries : Stores(NewPage, entries)
  /\ \A e \in Entity : PageAccepts(NewPage, e) /\ ~ PageHasEntity(NewPage, e)
PROOF
  BY PageAssumption
  DEF NewPage, Page, Cell, Stores, PageAccepts, PageHasEntity, PositionOf, HashEntityIndex

(***************************************************************************)
(* SetComponent on a page that accepts the entity stays inside the page    *)
(* and stores nothing but what was stored and the data under the entity it *)
(* was given for.                                                          *)
(***************************************************************************)
LEMMA PageSetKeepsPage ==
  ASSUME NEW page \in Page, NEW e \in Entity, NEW d \in Data, PageAccepts(page, e),
         NEW entries, Stores(page, entries), [entity |-> e, data |-> d] \in entries
  PROVE  /\ PageSetComponent(page, e, d) \in Page
         /\ Stores(PageSetComponent(page, e, d), entries)
PROOF
  <1> DEFINE c == HashEntityIndex(e)
             entry == [entity |-> e, data |-> d]
  <1>1. c \in Cell /\ entry \in Entry
    BY PageAssumption DEF HashEntityIndex, Entry
  <1>2. /\ page.sparse \in [Cell -> Cell \union {ThEntitySparseNull}]
        /\ page.dense \in [Cell -> Entry]
        /\ page.size \in 0 .. Capacity
        /\ page = [sparse |-> page.sparse, dense |-> page.dense, size |-> page.size]
    BY DEF Page
  <1>3. CASE PageHasEntity(page, e)
    <2> DEFINE k == page.sparse[c]
               dense == [page.dense EXCEPT ![k] = entry]
    <2>1. k \in Cell /\ page.dense[k].entity = e
      BY <1>1, <1>2, <1>3 DEF PageHasEntity, PositionOf
    <2>2. [page.dense[k] EXCEPT !.data = d] = entry
      BY <1>2, <2>1 DEF Entry
    <2>3. PageSetComponent(page, e, d) = [sparse |-> page.sparse, dense |-> dense, size |-> page.size]
      BY <1>2, <1>3, <2>1, <2>2 DEF PageSetComponent, Overwrite, PositionOf
    <2>4. dense \in [Cell -> Entry]
      BY <1>1, <1>2, <2>1
    <2>5. \A j \in Cell : page.dense[j] \in entries => dense[j] \in entries
      BY <1>2, <2>1
    <2>6. \A j \in 0 .. page.size - 1 : j \in Cell
      BY <1>2, PageAssumption DEF Cell
    <2> HIDE DEF dense
    <2>7. PageSetComponent(page, e, d) \in Page
      BY <1>2, <2>3, <2>4 DEF Page
    <2>8. Stores(PageSetComponent(page, e, d), entries)
      BY <1>2, <2>3, <2>5, <2>6 DEF Stores
    <2> QED BY <2>7, <2>8
  <1>4. CASE ~ PageHasEntity(page, e)
    <2> DEFINE k == page.size
               dense == [page.dense EXCEPT ![k] = entry]
               sparse == [page.sparse EXCEPT ![c] = k]
    <2>1. k \in Cell
      BY <1>2, PageAssumption DEF PageAccepts, Cell
    <2>2. PageSetComponent(page, e, d) = [sparse |-> sparse, dense |-> dense, size |-> k + 1]
      BY <1>2, <1>4 DEF PageSetComponent, AddEntry
    <2>3. /\ sparse \in [Cell -> Cell \union {ThEntitySparseNull}]
          /\ dense \in [Cell -> Entry]
          /\ k + 1 \in 0 .. Capacity
      BY <1>1, <1>2, <2>1, PageAssumption DEF Cell
    <2>4. dense[k] \in entries /\ \A j \in Cell : page.dense[j] \in entries => dense[j] \in entries
      BY <1>2, <2>1
    <2>5. \A x \in Cell : sparse[x] = k \/ sparse[x] = page.sparse[x]
      BY <1>2
    <2> HIDE DEF dense, sparse, entry
    <2>6. \A j \in 0 .. k + 1 - 1 : dense[j] \in entries
      BY <1>2, <2>1, <2>4, PageAssumption DEF Stores, Cell
    <2>7. \A x \in Cell : sparse[x] # ThEntitySparseNull => dense[sparse[x]] \in entries
      BY <1>2, <2>1, <2>4, <2>5 DEF Stores
    <2> QED BY <2>2, <2>3, <2>6, <2>7 DEF Page, Stores
  <1> QED BY <1>3, <1>4

(***************************************************************************)
(* RemoveComponent stays inside the page, although it may write the cells  *)
(* the wrong way round, and only moves an entry together with its data.    *)
(***************************************************************************)
LEMMA PageRemoveKeepsPage ==
  ASSUME NEW page \in Page, NEW e \in Entity, PageRemoves(page, e),
         NEW entries, Stores(page, entries)
  PROVE  PageRemoveComponent(page, e) \in Page /\ Stores(PageRemoveComponent(page, e), entries)
PROOF
  <1> DEFINE last == LastEntry(page)
             c == HashEntityIndex(e)
             l == HashEntityIndex(last.entity)
             k == page.sparse[c]
             sparse == [page.sparse EXCEPT ![c] = page.sparse[l], ![l] = ThEntitySparseNull]
             dense == [page.dense EXCEPT ![k] = last]
  <1>1. /\ page.sparse \in [Cell -> Cell \union {ThEntitySparseNull}]
        /\ page.dense \in [Cell -> Entry]
        /\ page.size \in 0 .. Capacity
        /\ page = [sparse |-> page.sparse, dense |-> page.dense, size |-> page.size]
    BY DEF Page
  <1>2. page.size - 1 \in Cell /\ last \in Entry /\ last \in entries
    BY <1>1, PageAssumption DEF PageRemoves, LastEntry, Cell, Stores
  <1>3. c \in Cell /\ l \in Cell /\ k \in Cell
    BY <1>1, <1>2, PageAssumption DEF HashEntityIndex, Entry, PageRemoves, PageHasEntity, PositionOf
  <1>4. PageRemoveComponent(page, e) = [sparse |-> sparse, dense |-> dense, size |-> page.size - 1]
    <2>1. PageRemoveComponent(page, e) =
            [page EXCEPT !.sparse = sparse, !.dense = [@ EXCEPT ![k] = last], !.size = @ - 1]
      BY DEF PageRemoveComponent, PositionOf
    <2>2. dense = [page.dense EXCEPT ![k] = last]
      OBVIOUS
    <2> HIDE DEF sparse, dense, k, last
    <2> QED BY <1>1, <2>1, <2>2
  <1>5. /\ sparse \in [Cell -> Cell \union {ThEntitySparseNull}]
        /\ dense \in [Cell -> Entry]
        /\ page.size - 1 \in 0 .. Capacity
    <2>1. sparse \in [Cell -> Cell \union {ThEntitySparseNull}]
      BY <1>1, <1>3
    <2>2. dense \in [Cell -> Entry]
      BY <1>1, <1>2, <1>3
    <2>3. page.size - 1 \in 0 .. Capacity
      BY <1>1, <1>2, PageAssumption DEF Cell
    <2> QED BY <2>1, <2>2, <2>3
  <1>6. \A j \in Cell : page.dense[j] \in entries => dense[j] \in entries
    BY <1>1, <1>2, <1>3
  <1>7. \A x \in Cell : sparse[x] # ThEntitySparseNull =>
          \E y \in Cell : sparse[x] = page.sparse[y]
    BY <1>1, <1>3
  <1> HIDE DEF dense, sparse
  <1>8. \A j \in 0 .. page.size - 1 - 1 : dense[j] \in entries
    BY <1>1, <1>2, <1>6, PageAssumption DEF Stores, Cell
  <1>9. \A x \in Cell : sparse[x] # ThEntitySparseNull => dense[sparse[x]] \in entries
    BY <1>1, <1>6, <1>7 DEF Stores
  <1> QED BY <1>4, <1>5, <1>8, <1>9 DEF Page, Stores

(***************************************************************************)
(* Where a page's cells and entries lie: a linked cell leads into the      *)
(* page, and every entry has a cell.                                       *)
(***************************************************************************)
LEMMA PageCells ==
  ASSUME NEW page \in Page
  PROVE  /\ page.size \in 0 .. Capacity
         /\ \A k \in 0 .. page.size - 1 : k \in Cell
         /\ \A x \in Cell : Linked(page, x) => page.sparse[x] \in Cell
         /\ \A k \in Cell : page.dense[k] \in Entry /\ HashAt(page, k) \in Cell
         /\ \A k \in Cell : k \in Int
PROOF
  BY PageAssumption DEF Page, Cell, Linked, HashAt, HashEntityIndex, Entry

(***************************************************************************)
(* SetComponent of an entity the page has writes the data of its entry.    *)
(***************************************************************************)
LEMMA PageOverwrite ==
  ASSUME NEW page \in Page, NEW e \in Entity, NEW d \in DataOf(e), PageHasEntity(page, e)
  PROVE  LET new == PageSetComponent(page, e, d)
         IN  /\ new.size = page.size
             /\ new.sparse = page.sparse
             /\ \A k \in Cell : new.dense[k].entity = page.dense[k].entity
             /\ \A k \in Cell : page.dense[k].entity # e => new.dense[k] = page.dense[k]
             /\ new.dense[PositionOf(page, e)].data = d
PROOF
  <1> DEFINE k == PositionOf(page, e)
             entry == [page.dense[k] EXCEPT !.data = d]
             dense == [page.dense EXCEPT ![k] = entry]
             new == PageSetComponent(page, e, d)
  <1>1. /\ page.dense \in [Cell -> Entry]
        /\ page = [sparse |-> page.sparse, dense |-> page.dense, size |-> page.size]
    BY DEF Page
  <1>2. k \in Cell /\ page.dense[k] \in Entry /\ page.dense[k].entity = e
    BY PageAssumption DEF Page, PageHasEntity, PositionOf, HashEntityIndex
  <1>3. entry.entity = page.dense[k].entity /\ entry.data = d
    BY <1>2 DEF Entry
  <1>4. new = [page EXCEPT !.dense = dense]
    BY <1>1 DEF PageSetComponent, Overwrite
  <1>5. new.size = page.size /\ new.sparse = page.sparse /\ new.dense = dense
    <2> HIDE DEF dense, new
    <2> QED BY <1>1, <1>4
  <1>6. /\ dense[k] = entry
        /\ \A j \in Cell : j # k => dense[j] = page.dense[j]
    <2> HIDE DEF entry, k
    <2> QED BY <1>1, <1>2
  <1> HIDE DEF dense, new, entry, k
  <1>7. \A j \in Cell : dense[j].entity = page.dense[j].entity
    BY <1>3, <1>6
  <1>8. \A j \in Cell : page.dense[j].entity # e => dense[j] = page.dense[j]
    BY <1>2, <1>6
  <1>9. dense[k].data = d
    BY <1>3, <1>6
  <1> QED BY <1>5, <1>7, <1>8, <1>9 DEF new, k

(***************************************************************************)
(* SetComponent of an entity the page does not have and accepts links its  *)
(* cell, which was free, to a new last entry.                              *)
(***************************************************************************)
LEMMA PageAdd ==
  ASSUME NEW page \in Page, NEW e \in Entity, NEW d \in DataOf(e),
         PageAccepts(page, e), ~ PageHasEntity(page, e)
  PROVE  LET new == PageSetComponent(page, e, d)
             c   == HashEntityIndex(e)
         IN  /\ c \in Cell /\ page.size \in Cell /\ ~ Linked(page, c)
             /\ new.size = page.size + 1
             /\ new.sparse[c] = page.size
             /\ \A x \in Cell : x # c => new.sparse[x] = page.sparse[x]
             /\ new.dense[page.size] = [entity |-> e, data |-> d]
             /\ \A k \in Cell : k # page.size => new.dense[k] = page.dense[k]
PROOF
  <1> DEFINE c == HashEntityIndex(e)
             n == page.size
             entry == [entity |-> e, data |-> d]
             sparse == [page.sparse EXCEPT ![c] = n]
             dense == [page.dense EXCEPT ![n] = entry]
             new == PageSetComponent(page, e, d)
  <1>1. /\ page.sparse \in [Cell -> Cell \union {ThEntitySparseNull}]
        /\ page.dense \in [Cell -> Entry]
        /\ page = [sparse |-> page.sparse, dense |-> page.dense, size |-> n]
    BY DEF Page
  <1>2. c \in Cell /\ n \in Cell /\ ~ Linked(page, c)
    BY PageAssumption DEF Page, PageAccepts, Cell, HashEntityIndex, Linked, PositionOf
  <1>3. new = [page EXCEPT !.sparse = sparse, !.dense = dense, !.size = n + 1]
    BY <1>1 DEF PageSetComponent, AddEntry
  <1>4. new.size = n + 1 /\ new.sparse = sparse /\ new.dense = dense
    <2> HIDE DEF dense, sparse, new
    <2> QED BY <1>1, <1>3
  <1>5. sparse[c] = n /\ \A x \in Cell : x # c => sparse[x] = page.sparse[x]
    <2> HIDE DEF c, n
    <2> QED BY <1>1, <1>2
  <1>6. dense[n] = entry /\ \A k \in Cell : k # n => dense[k] = page.dense[k]
    <2> HIDE DEF entry, n
    <2> QED BY <1>1, <1>2
  <1> HIDE DEF sparse, dense, new
  <1> QED BY <1>2, <1>4, <1>5, <1>6 DEF new

(***************************************************************************)
(* RemoveComponent moves the last entry to the place of the removed one,   *)
(* links the cell of the removed entity where that of the last one was     *)
(* linked and frees the latter.                                            *)
(***************************************************************************)
LEMMA PageRemove ==
  ASSUME NEW page \in Page, NEW e \in Entity, PageRemoves(page, e)
  PROVE  LET new == PageRemoveComponent(page, e)
             c   == HashEntityIndex(e)
             k   == page.sparse[c]
             n   == page.size - 1
             l   == HashAt(page, n)
         IN  /\ c \in Cell /\ l \in Cell /\ k \in Cell /\ n \in Cell
             /\ Proper(page, c) /\ page.dense[k].entity = e
             /\ new.size = n
             /\ new.sparse[l] = ThEntitySparseNull
             /\ c # l => new.sparse[c] = page.sparse[l]
             /\ \A x \in Cell : x # c /\ x # l => new.sparse[x] = page.sparse[x]
             /\ new.dense[k] = page.dense[n]
             /\ \A j \in Cell : j # k => new.dense[j] = page.dense[j]
PROOF
  <1> DEFINE c == HashEntityIndex(e)
             k == page.sparse[c]
             n == page.size - 1
             l == HashAt(page, n)
             sparse == [page.sparse EXCEPT ![c] = page.sparse[l], ![l] = ThEntitySparseNull]
             dense == [page.dense EXCEPT ![k] = page.dense[n]]
             new == PageRemoveComponent(page, e)
  <1>1. /\ page.sparse \in [Cell -> Cell \union {ThEntitySparseNull}]
        /\ page.dense \in [Cell -> Entry]
        /\ page = [sparse |-> page.sparse, dense |-> page.dense, size |-> page.size]
    BY DEF Page
  <1>2. n \in Cell
    BY PageAssumption DEF Page, PageRemoves, Cell
  <1>3. c \in Cell /\ l \in Cell /\ k \in Cell /\ Proper(page, c) /\ page.dense[k].entity = e
    BY <1>1, <1>2, PageAssumption
    DEF HashEntityIndex, HashAt, Entry, PageRemoves, PageHasEntity, PositionOf, Proper, Linked
  <1>4. new = [page EXCEPT !.sparse = sparse, !.dense = dense, !.size = n]
    <2>1. new = [page EXCEPT !.sparse = sparse, !.dense = [@ EXCEPT ![k] = page.dense[n]], !.size = @ - 1]
      BY DEF PageRemoveComponent, PositionOf, LastEntry, HashAt
    <2>2. dense = [page.dense EXCEPT ![k] = page.dense[n]]
      OBVIOUS
    <2> HIDE DEF sparse, dense, k, new
    <2> QED BY <1>1, <2>1, <2>2
  <1>5. new.size = n /\ new.sparse = sparse /\ new.dense = dense
    <2> HIDE DEF dense, sparse, new, n
    <2> QED BY <1>1, <1>4
  <1>6. /\ sparse[l] = ThEntitySparseNull
        /\ c # l => sparse[c] = page.sparse[l]
        /\ \A x \in Cell : x # c /\ x # l => sparse[x] = page.sparse[x]
    <2> HIDE DEF c, l
    <2> QED BY <1>1, <1>3
  <1>7. dense[k] = page.dense[n] /\ \A j \in Cell : j # k => dense[j] = page.dense[j]
    <2> HIDE DEF k, n
    <2> QED BY <1>1, <1>3
  <1> HIDE DEF sparse, dense, new
  <1> QED BY <1>2, <1>3, <1>5, <1>6, <1>7 DEF new

-----------------------------------------------------------------------------

(***************************************************************************)
(* A new page links nothing.                                               *)
(***************************************************************************)
LEMMA NewPageLinked == PageLinked(NewPage)
PROOF
  <1>1. \A x \in Cell : ~ Linked(NewPage, x)
    BY DEF NewPage, Linked
  <1>2. NewPage.size = 0
    BY DEF NewPage
  <1> QED BY <1>1, <1>2 DEF PageLinked, ProperInside, LinkedToLast, AbandonedBehind, Proper

(***************************************************************************)
(* SetComponent of an entity the page has changes no link.                 *)
(***************************************************************************)
LEMMA OverwriteKeepsLinks ==
  ASSUME NEW page \in Page, PageLinked(page),
         NEW e \in Entity, NEW d \in DataOf(e), PageHasEntity(page, e)
  PROVE  PageLinked(PageSetComponent(page, e, d))
PROOF
  <1> DEFINE new == PageSetComponent(page, e, d)
  <1>1. new.size = page.size /\ new.sparse = page.sparse
    BY PageOverwrite
  <1>2. \A k \in Cell : HashAt(new, k) = HashAt(page, k)
    BY PageOverwrite DEF HashAt
  <1> HIDE DEF new
  <1>3. \A x \in Cell : (Linked(new, x) <=> Linked(page, x)) /\ (Proper(new, x) <=> Proper(page, x))
    BY <1>1, <1>2, PageCells DEF Linked, Proper
  <1>4. ProperInside(new)
    BY <1>1, <1>3 DEF PageLinked, ProperInside
  <1>5. LinkedToLast(new)
    BY <1>1, <1>2, <1>3, PageCells DEF PageLinked, LinkedToLast
  <1>6. AbandonedBehind(new)
    <2> SUFFICES ASSUME NEW j \in 0 .. page.size - 1,
                        Linked(new, HashAt(new, j)),
                        new.sparse[HashAt(new, j)] >= page.size,
                        Proper(new, HashAt(new, new.sparse[HashAt(new, j)]))
                 PROVE  j < new.sparse[HashAt(new, new.sparse[HashAt(new, j)])]
      BY <1>1 DEF AbandonedBehind
    <2>1. j \in Cell /\ HashAt(page, j) \in Cell /\ HashAt(new, j) = HashAt(page, j)
      BY <1>2, PageCells
    <2>2. Linked(page, HashAt(page, j))
      BY <1>3, <2>1
    <2> DEFINE stray == page.sparse[HashAt(page, j)]
    <2>3. stray \in Cell /\ HashAt(page, stray) \in Cell /\ HashAt(new, stray) = HashAt(page, stray)
      BY <1>2, <2>1, <2>2, PageCells
    <2>4. stray >= page.size /\ Proper(page, HashAt(page, stray))
      BY <1>1, <1>3, <2>1, <2>3
    <2>5. j < page.sparse[HashAt(page, stray)]
      BY <2>2, <2>4 DEF PageLinked, AbandonedBehind
    <2> QED BY <1>1, <2>1, <2>3, <2>5
  <1> QED BY <1>4, <1>5, <1>6 DEF PageLinked, new

(***************************************************************************)
(* A new last entry keeps the links in order.  A cell that happened to     *)
(* lead to the place it is written to does not become proper: it leads to  *)
(* an entry of the added hash, whose cell was free.                        *)
(***************************************************************************)
LEMMA AddKeepsLinks ==
  ASSUME NEW page \in Page, PageLinked(page),
         NEW e \in Entity, NEW d \in DataOf(e),
         PageAccepts(page, e), ~ PageHasEntity(page, e)
  PROVE  PageLinked(PageSetComponent(page, e, d))
PROOF
  <1> DEFINE new == PageSetComponent(page, e, d)
             c == HashEntityIndex(e)
             n == page.size
  <1>0. /\ c \in Cell /\ n \in Cell /\ ~ Linked(page, c)
        /\ new.size = n + 1
        /\ new.sparse[c] = n
        /\ \A x \in Cell : x # c => new.sparse[x] = page.sparse[x]
        /\ new.dense[n] = [entity |-> e, data |-> d]
        /\ \A k \in Cell : k # n => new.dense[k] = page.dense[k]
    BY PageAdd
  <1>1. c \in Cell /\ n \in Cell /\ n \in Nat /\ ~ Linked(page, c)
    BY <1>0 DEF Page
  <1>2. /\ new.size = n + 1
        /\ new.sparse[c] = n
        /\ \A x \in Cell : x # c => new.sparse[x] = page.sparse[x]
    BY <1>0
  <1>3. /\ HashAt(new, n) = c
        /\ \A k \in Cell : k # n => HashAt(new, k) = HashAt(page, k)
    BY <1>0 DEF HashAt
  <1> HIDE DEF new, c
  <1>4. \A x \in Cell : x # c => (Linked(new, x) <=> Linked(page, x))
    BY <1>2 DEF Linked
  <1>5. \A x \in Cell : x # c /\ Proper(new, x) =>
          Proper(page, x) /\ new.sparse[x] = page.sparse[x] /\ page.sparse[x] # n
    BY <1>1, <1>2, <1>3, <1>4, PageCells DEF Proper
  <1>6. ProperInside(new)
    <2> SUFFICES ASSUME NEW x \in Cell, Proper(new, x) PROVE new.sparse[x] < n + 1
      BY <1>2 DEF ProperInside
    <2>1. CASE x = c
      BY <1>1, <1>2, <2>1
    <2>2. CASE x # c
      <3>1. Proper(page, x) /\ new.sparse[x] = page.sparse[x]
        BY <1>5, <2>2
      <3>2. page.sparse[x] \in Int /\ page.sparse[x] < n
        BY <3>1, PageCells DEF PageLinked, ProperInside, Proper
      <3> QED BY <1>1, <3>1, <3>2
    <2> QED BY <2>1, <2>2
  <1>7. ASSUME NEW j \in 0 .. n, j # n
        PROVE  j \in 0 .. n - 1 /\ j \in Cell /\ HashAt(new, j) = HashAt(page, j) /\ HashAt(page, j) \in Cell
    BY <1>1, <1>3, <1>7, PageCells
  <1>8. LinkedToLast(new)
    <2> SUFFICES ASSUME NEW j \in 0 .. n, Linked(new, HashAt(new, j))
                 PROVE  j <= new.sparse[HashAt(new, j)]
      BY <1>1, <1>2 DEF LinkedToLast
    <2>1. CASE HashAt(new, j) = c
      BY <1>1, <1>2, <2>1
    <2>2. CASE HashAt(new, j) # c
      <3>1. j # n
        BY <1>3, <2>2
      <3> QED BY <1>2, <1>4, <1>7, <2>2, <3>1 DEF PageLinked, LinkedToLast
    <2> QED BY <2>1, <2>2
  <1>9. AbandonedBehind(new)
    <2> DEFINE y(j) == HashAt(new, j)
               z(j) == HashAt(new, new.sparse[y(j)])
    <2> SUFFICES ASSUME NEW j \in 0 .. n, Linked(new, y(j)), new.sparse[y(j)] >= n + 1,
                        Proper(new, z(j))
                 PROVE  j < new.sparse[z(j)]
      BY <1>1, <1>2 DEF AbandonedBehind
    <2>1. y(j) # c /\ j # n
      BY <1>1, <1>2, <1>3
    <2>2. j \in 0 .. n - 1 /\ HashAt(page, j) = y(j) /\ y(j) \in Cell
      BY <1>7, <2>1
    <2>3. Linked(page, y(j)) /\ new.sparse[y(j)] = page.sparse[y(j)]
      BY <1>2, <1>4, <2>1, <2>2
    <2>4. page.sparse[y(j)] \in Cell /\ page.sparse[y(j)] \in Int
      BY <2>2, <2>3, PageCells
    <2>5. page.sparse[y(j)] >= n /\ HashAt(page, page.sparse[y(j)]) = z(j) /\ z(j) \in Cell
      BY <1>1, <1>3, <2>3, <2>4, PageCells
    <2>6. CASE z(j) = c
      BY <1>1, <1>2, <2>2, <2>6
    <2>7. CASE z(j) # c
      <3>1. Proper(page, z(j)) /\ new.sparse[z(j)] = page.sparse[z(j)]
        BY <1>5, <2>5, <2>7
      <3>2. j < page.sparse[z(j)]
        BY <2>2, <2>3, <2>5, <3>1 DEF PageLinked, AbandonedBehind
      <3> QED BY <3>1, <3>2
    <2> QED BY <2>6, <2>7
  <1> QED BY <1>6, <1>8, <1>9 DEF PageLinked, new

(***************************************************************************)
(* RemoveComponent links the cell of the removed entity at the last entry  *)
(* or behind it, where it is not proper, and abandons every other entry of *)
(* its hash.                                                               *)
(***************************************************************************)
LEMMA RemoveUnlinks ==
  ASSUME NEW page \in Page, PageLinked(page), NEW e \in Entity, PageRemoves(page, e)
  PROVE  LET new == PageRemoveComponent(page, e)
             c   == HashEntityIndex(e)
         IN  /\ ~ Proper(new, c)
             /\ Linked(new, c) => new.sparse[c] \in Cell /\ new.sparse[c] >= new.size
PROOF
  <1> DEFINE new == PageRemoveComponent(page, e)
             c == HashEntityIndex(e)
             k == page.sparse[c]
             n == page.size - 1
             l == HashAt(page, n)
  <1>1. /\ c \in Cell /\ l \in Cell /\ k \in Cell /\ n \in Cell
        /\ Proper(page, c) /\ page.dense[k].entity = e
        /\ new.size = n
        /\ new.sparse[l] = ThEntitySparseNull
        /\ c # l => new.sparse[c] = page.sparse[l]
        /\ \A x \in Cell : x # c /\ x # l => new.sparse[x] = page.sparse[x]
        /\ new.dense[k] = page.dense[n]
        /\ \A j \in Cell : j # k => new.dense[j] = page.dense[j]
    BY PageRemove
  <1>2. HashAt(new, k) = l /\ \A j \in Cell : j # k => HashAt(new, j) = HashAt(page, j)
    BY <1>1 DEF HashAt
  <1>3. n \in Int /\ k \in Int /\ page.size = n + 1 /\ k < n + 1
    BY <1>1, PageCells DEF PageLinked, ProperInside
  <1> SUFFICES ~ Proper(new, c) /\ (Linked(new, c) => new.sparse[c] \in Cell /\ new.sparse[c] >= n)
    BY <1>1
  <1> HIDE DEF new, c, k, n
  <1>4. CASE c = l
    BY <1>1, <1>4 DEF Proper, Linked
  <1>5. CASE c # l /\ Linked(page, l)
    <2> DEFINE stray == page.sparse[l]
    <2>1. stray \in Cell /\ stray \in Int /\ new.sparse[c] = stray
      BY <1>1, <1>5, PageCells
    <2>2. n \in 0 .. page.size - 1
      BY <1>1, <1>3 DEF Cell
    <2>3. stray >= n
      BY <1>3, <1>5, <2>1, <2>2 DEF PageLinked, LinkedToLast
    <2>4. HashAt(page, stray) # c
      <3>1. CASE stray = n
        BY <1>5, <3>1
      <3>2. CASE stray # n
        <4> SUFFICES ASSUME HashAt(page, stray) = c PROVE FALSE
          OBVIOUS
        <4>1. stray >= page.size
          BY <1>3, <2>1, <2>3, <3>2
        <4>2. Linked(page, HashAt(page, n)) /\ page.sparse[HashAt(page, n)] >= page.size
              /\ Proper(page, HashAt(page, page.sparse[HashAt(page, n)]))
          BY <1>1, <1>5, <4>1
        <4>3. n < page.sparse[HashAt(page, page.sparse[HashAt(page, n)])]
          BY <2>2, <4>2 DEF PageLinked, AbandonedBehind
        <4> QED BY <1>3, <4>3 DEF k
      <3> QED BY <3>1, <3>2
    <2>5. HashAt(new, stray) # c
      BY <1>2, <1>5, <2>1, <2>4
    <2> QED BY <1>1, <2>1, <2>3, <2>5 DEF Proper
  <1>6. CASE c # l /\ ~ Linked(page, l)
    BY <1>1, <1>6 DEF Proper, Linked
  <1> QED BY <1>4, <1>5, <1>6

(***************************************************************************)
(* RemoveComponent keeps the links in order: the moved entry has no cell   *)
(* any more, and no other cell leads to the place it was moved to and is   *)
(* proper.                                                                 *)
(***************************************************************************)
LEMMA RemoveKeepsLinks ==
  ASSUME NEW page \in Page, PageLinked(page), NEW e \in Entity, PageRemoves(page, e)
  PROVE  PageLinked(PageRemoveComponent(page, e))
PROOF
  <1> DEFINE new == PageRemoveComponent(page, e)
             c == HashEntityIndex(e)
             k == page.sparse[c]
             n == page.size - 1
             l == HashAt(page, n)
  <1>1. /\ c \in Cell /\ l \in Cell /\ k \in Cell /\ n \in Cell
        /\ Proper(page, c) /\ page.dense[k].entity = e
        /\ new.size = n
        /\ new.sparse[l] = ThEntitySparseNull
        /\ c # l => new.sparse[c] = page.sparse[l]
        /\ \A x \in Cell : x # c /\ x # l => new.sparse[x] = page.sparse[x]
        /\ new.dense[k] = page.dense[n]
        /\ \A j \in Cell : j # k => new.dense[j] = page.dense[j]
    BY PageRemove
  <1>2. HashAt(new, k) = l /\ \A j \in Cell : j # k => HashAt(new, j) = HashAt(page, j)
    BY <1>1 DEF HashAt
  <1>3. n \in Int /\ k \in Int /\ page.size = n + 1 /\ k < n + 1 /\ HashAt(page, k) = c
    BY <1>1, PageCells DEF PageLinked, ProperInside, Proper
  <1>4. ~ Proper(new, c) /\ (Linked(new, c) => new.sparse[c] \in Cell /\ new.sparse[c] >= n)
    BY <1>1, RemoveUnlinks
  <1>5. ~ Linked(new, l)
    BY <1>1 DEF Linked
  <1> HIDE DEF new, c, k, n
  <1>6. \A x \in Cell : x # c /\ x # l => (Linked(new, x) <=> Linked(page, x))
    BY <1>1 DEF Linked
  <1>7. ASSUME NEW x \in Cell, Proper(new, x)
        PROVE  Proper(page, x) /\ new.sparse[x] = page.sparse[x] /\ page.sparse[x] < n
    <2>1. x # c /\ x # l
      BY <1>4, <1>5, <1>7 DEF Proper
    <2>2. Linked(page, x) /\ new.sparse[x] = page.sparse[x] /\ HashAt(new, page.sparse[x]) = x
      BY <1>1, <1>6, <1>7, <2>1 DEF Proper
    <2>3. page.sparse[x] \in Cell /\ page.sparse[x] \in Int /\ page.sparse[x] # k
      BY <1>2, <2>1, <2>2, PageCells
    <2>4. Proper(page, x)
      BY <1>2, <2>2, <2>3 DEF Proper
    <2>5. page.sparse[x] < n + 1 /\ page.sparse[x] # n
      BY <1>3, <2>1, <2>4 DEF PageLinked, ProperInside, Proper
    <2> QED BY <1>3, <2>2, <2>3, <2>4, <2>5
  <1>8. ProperInside(new)
    BY <1>1, <1>7 DEF ProperInside
  <1>9. ASSUME NEW j \in 0 .. n - 1, Linked(new, HashAt(new, j))
        PROVE  /\ j \in 0 .. page.size - 1 /\ j \in Cell /\ j < n
               /\ HashAt(new, j) = HashAt(page, j) /\ HashAt(page, j) \in Cell
               /\ HashAt(page, j) # l
    <2>1. j \in 0 .. page.size - 1 /\ j \in Cell /\ j < n
      BY <1>3, PageCells
    <2>2. j # k
      BY <1>2, <1>5, <1>9
    <2> QED BY <1>2, <1>5, <1>9, <2>1, <2>2, PageCells
  <1>10. LinkedToLast(new)
    <2> SUFFICES ASSUME NEW j \in 0 .. n - 1, Linked(new, HashAt(new, j))
                 PROVE  j <= new.sparse[HashAt(new, j)]
      BY <1>1 DEF LinkedToLast
    <2> DEFINE y == HashAt(page, j)
    <2>1. /\ j \in 0 .. page.size - 1 /\ j \in Cell /\ j < n /\ j \in Int
          /\ HashAt(new, j) = y /\ y \in Cell /\ y # l
      BY <1>9, PageCells
    <2>2. CASE y = c
      <3>1. new.sparse[c] \in Int /\ new.sparse[c] >= n
        BY <1>4, <2>1, <2>2, PageCells
      <3> QED BY <1>3, <2>1, <2>2, <3>1
    <2>3. CASE y # c
      BY <1>1, <1>6, <2>1, <2>3 DEF PageLinked, LinkedToLast
    <2> QED BY <2>2, <2>3
  <1>11. AbandonedBehind(new)
    <2> SUFFICES ASSUME NEW j \in 0 .. n - 1,
                        Linked(new, HashAt(new, j)),
                        new.sparse[HashAt(new, j)] >= n,
                        Proper(new, HashAt(new, new.sparse[HashAt(new, j)]))
                 PROVE  j < new.sparse[HashAt(new, new.sparse[HashAt(new, j)])]
      BY <1>1 DEF AbandonedBehind
    <2> DEFINE y == HashAt(page, j)
               p == new.sparse[y]
               z == HashAt(page, p)
    <2>1. /\ j \in 0 .. page.size - 1 /\ j \in Cell /\ j < n /\ j \in Int
          /\ HashAt(new, j) = y /\ y \in Cell /\ y # l
      BY <1>9, PageCells
    <2>2. p \in Cell /\ p \in Int
      <3>1. CASE y = c
        BY <1>4, <2>1, <3>1, PageCells
      <3>2. CASE y # c
        BY <1>1, <1>6, <2>1, <3>2, PageCells
      <3> QED BY <3>1, <3>2
    <2> HIDE DEF y, p, z
    <2>3. HashAt(new, p) = z /\ z \in Cell /\ Proper(new, z)
      <3>1. p >= n /\ Proper(new, HashAt(new, p)) /\ HashAt(page, p) \in Cell
        BY <2>1, <2>2, PageCells DEF p
      <3>2. p # k \/ l = HashAt(page, p)
        <4>1. CASE p = k
          <5>1. k = n
            BY <1>3, <2>2, <3>1, <4>1
          <5> QED BY <4>1, <5>1
        <4> QED BY <4>1
      <3>3. HashAt(new, p) = HashAt(page, p)
        BY <1>2, <2>2, <3>2
      <3> QED BY <3>1, <3>3 DEF z
    <2>4. z # l /\ Proper(page, z) /\ new.sparse[z] = page.sparse[z]
      BY <1>5, <1>7, <2>3 DEF Proper
    <2>5. y # c
      <3> SUFFICES ASSUME y = c PROVE FALSE
        OBVIOUS
      <3>1. c # l /\ Linked(new, c)
        BY <2>1
      <3>2. page.sparse[l] = p /\ Linked(page, l)
        BY <1>1, <2>2, <3>1 DEF p, Linked
      <3>3. p >= page.size /\ n \in 0 .. page.size - 1
        <4>1. p >= n /\ p # n
          BY <1>4, <2>4, <3>1 DEF p, z
        <4> QED BY <1>1, <1>3, <2>2, <4>1 DEF Cell
      <3>4. /\ Linked(page, HashAt(page, n)) /\ page.sparse[HashAt(page, n)] >= page.size
            /\ Proper(page, HashAt(page, page.sparse[HashAt(page, n)]))
        BY <2>4, <3>2, <3>3 DEF z
      <3>5. n < page.sparse[HashAt(page, page.sparse[HashAt(page, n)])]
        BY <3>3, <3>4 DEF PageLinked, AbandonedBehind
      <3>6. n < page.sparse[z]
        BY <3>2, <3>5 DEF z
      <3>7. page.sparse[z] < n
        BY <1>7, <2>3
      <3>8. page.sparse[z] \in Int
        BY <2>3, <2>4, PageCells DEF Proper
      <3> QED BY <1>3, <3>6, <3>7, <3>8
    <2>6. page.sparse[y] = p /\ Linked(page, y)
      BY <1>1, <1>6, <2>1, <2>5 DEF p
    <2>7. p # n
      BY <2>4 DEF z
    <2>8. p >= page.size
      BY <1>3, <2>1, <2>2, <2>7 DEF p
    <2>9. Linked(page, HashAt(page, j)) /\ page.sparse[HashAt(page, j)] >= page.size
          /\ Proper(page, HashAt(page, page.sparse[HashAt(page, j)]))
      BY <2>4, <2>6, <2>8 DEF y, z
    <2>10. j < page.sparse[HashAt(page, page.sparse[HashAt(page, j)])]
      BY <2>1, <2>9 DEF PageLinked, AbandonedBehind
    <2>11. j < page.sparse[z]
      BY <2>6, <2>10 DEF y, z
    <2> QED BY <2>1, <2>3, <2>4, <2>11 DEF p
  <1> QED BY <1>8, <1>10, <1>11 DEF PageLinked, new

-----------------------------------------------------------------------------

(***************************************************************************)
(* What SetComponent set is found on its page, and is the data.            *)
(***************************************************************************)
LEMMA PageSetFinds ==
  ASSUME NEW page \in Page, NEW e \in Entity, NEW d \in DataOf(e), PageAccepts(page, e)
  PROVE  /\ PageHasEntity(PageSetComponent(page, e, d), e)
         /\ PageGetComponent(PageSetComponent(page, e, d), e) = d
PROOF
  <1> DEFINE new == PageSetComponent(page, e, d)
             c == HashEntityIndex(e)
             n == page.size
  <1>1. CASE PageHasEntity(page, e)
    <2>1. /\ new.size = page.size
          /\ new.sparse = page.sparse
          /\ \A k \in Cell : new.dense[k].entity = page.dense[k].entity
          /\ \A k \in Cell : page.dense[k].entity # e => new.dense[k] = page.dense[k]
          /\ new.dense[PositionOf(page, e)].data = d
      BY <1>1, PageOverwrite
    <2>2. PositionOf(page, e) \in Cell
      BY <1>1, PageAssumption DEF Page, PageHasEntity, PositionOf, HashEntityIndex
    <2> HIDE DEF new
    <2>3. PositionOf(new, e) = PositionOf(page, e)
      BY <2>1 DEF PositionOf
    <2>4. PageHasEntity(new, e)
      BY <1>1, <2>1, <2>2, <2>3 DEF PageHasEntity
    <2>5. PageGetComponent(new, e) = d
      BY <2>1, <2>3 DEF PageGetComponent
    <2> QED BY <2>4, <2>5 DEF new
  <1>2. CASE ~ PageHasEntity(page, e)
    <2>1. /\ c \in Cell /\ n \in Cell /\ ~ Linked(page, c)
          /\ new.size = n + 1
          /\ new.sparse[c] = n
          /\ \A x \in Cell : x # c => new.sparse[x] = page.sparse[x]
          /\ new.dense[n] = [entity |-> e, data |-> d]
          /\ \A k \in Cell : k # n => new.dense[k] = page.dense[k]
      BY <1>2, PageAdd
    <2>2. PositionOf(new, e) = n /\ n # ThEntitySparseNull
      BY <2>1, PageAssumption DEF PositionOf
    <2> HIDE DEF new, n
    <2>3. new.dense[n].entity = e /\ new.dense[n].data = d
      BY <2>1
    <2> QED BY <2>2, <2>3 DEF PageHasEntity, PageGetComponent, new
  <1> QED BY <1>1, <1>2

(***************************************************************************)
(* An entity found on a page has a proper cell.                            *)
(***************************************************************************)
LEMMA FoundIsProper ==
  ASSUME NEW page \in Page, NEW x \in Entity, PageHasEntity(page, x)
  PROVE  /\ HashEntityIndex(x) \in Cell /\ Proper(page, HashEntityIndex(x))
         /\ PositionOf(page, x) \in Cell
PROOF
  BY PageAssumption DEF Page, PageHasEntity, PositionOf, HashEntityIndex, Proper, Linked, HashAt

(***************************************************************************)
(* SetComponent changes what its page answers for no other entity.  The    *)
(* place the new entry is written to was no entity's: a proper cell leads  *)
(* inside.                                                                 *)
(***************************************************************************)
LEMMA PageSetIsLocal ==
  ASSUME NEW page \in Page, PageLinked(page),
         NEW e \in Entity, NEW d \in DataOf(e), PageAccepts(page, e),
         NEW x \in Entity, x # e
  PROVE  /\ PageHasEntity(PageSetComponent(page, e, d), x) <=> PageHasEntity(page, x)
         /\ PageHasEntity(page, x) =>
              PageGetComponent(PageSetComponent(page, e, d), x) = PageGetComponent(page, x)
PROOF
  <1> DEFINE new == PageSetComponent(page, e, d)
             c == HashEntityIndex(e)
             n == page.size
             p == PositionOf(page, x)
  <1>x. HashEntityIndex(x) \in Cell /\ p \in Cell \union {ThEntitySparseNull}
    BY PageAssumption DEF HashEntityIndex, PositionOf, Page
  <1>1. CASE PageHasEntity(page, e)
    <2>1. /\ new.size = page.size
          /\ new.sparse = page.sparse
          /\ \A k \in Cell : new.dense[k].entity = page.dense[k].entity
          /\ \A k \in Cell : page.dense[k].entity # e => new.dense[k] = page.dense[k]
          /\ new.dense[PositionOf(page, e)].data = d
      BY <1>1, PageOverwrite
    <2> HIDE DEF new
    <2>2. PositionOf(new, x) = p
      BY <2>1 DEF PositionOf
    <2> HIDE DEF p
    <2>3. PageHasEntity(new, x) <=> PageHasEntity(page, x)
      BY <1>x, <2>1, <2>2 DEF PageHasEntity, p
    <2>4. PageHasEntity(page, x) => new.dense[p] = page.dense[p]
      BY <1>x, <2>1 DEF PageHasEntity, p
    <2> QED BY <2>2, <2>3, <2>4 DEF PageGetComponent, new, p
  <1>2. CASE ~ PageHasEntity(page, e)
    <2>1. /\ c \in Cell /\ n \in Cell /\ ~ Linked(page, c)
          /\ new.size = n + 1
          /\ new.sparse[c] = n
          /\ \A y \in Cell : y # c => new.sparse[y] = page.sparse[y]
          /\ new.dense[n] = [entity |-> e, data |-> d]
          /\ \A k \in Cell : k # n => new.dense[k] = page.dense[k]
      BY <1>2, PageAdd
    <2> HIDE DEF new
    <2>2. CASE HashEntityIndex(x) = c
      <3>1. ~ PageHasEntity(page, x)
        BY <2>1, <2>2 DEF Linked, PageHasEntity, PositionOf
      <3>2. PositionOf(new, x) = n
        BY <2>1, <2>2 DEF PositionOf
      <3>3. new.dense[n].entity = e
        BY <2>1
      <3> HIDE DEF n, c
      <3>4. ~ PageHasEntity(new, x)
        BY <3>2, <3>3 DEF PageHasEntity
      <3> QED BY <3>1, <3>4 DEF new
    <2>3. CASE HashEntityIndex(x) # c
      <3>1. PositionOf(new, x) = p
        BY <1>x, <2>1, <2>3 DEF PositionOf
      <3>2. PageHasEntity(page, x) => p # n /\ p \in Cell
        <4> SUFFICES ASSUME PageHasEntity(page, x) PROVE p # n /\ p \in Cell
          OBVIOUS
        <4>1. Proper(page, HashEntityIndex(x)) /\ p \in Cell
          BY FoundIsProper
        <4>2. p < n
          BY <1>x, <4>1 DEF PageLinked, ProperInside, PositionOf
        <4> QED BY <2>1, <4>1, <4>2 DEF Cell
      <3>3. CASE p = n
        <4>1. new.dense[n].entity = e
          BY <2>1
        <4>2. ~ PageHasEntity(new, x)
          BY <3>1, <3>3, <4>1 DEF PageHasEntity
        <4> QED BY <3>2, <3>3, <4>2 DEF new
      <3>4. CASE p # n
        <4> HIDE DEF p, n
        <4>1. p \in Cell => new.dense[p] = page.dense[p]
          BY <2>1, <3>4
        <4>2. PageHasEntity(new, x) <=> PageHasEntity(page, x)
          BY <1>x, <3>1, <4>1 DEF PageHasEntity, p
        <4>3. PageHasEntity(page, x) => PageGetComponent(new, x) = PageGetComponent(page, x)
          BY <3>1, <3>2, <4>1 DEF PageGetComponent, p
        <4> QED BY <4>2, <4>3 DEF new
      <3> QED BY <3>3, <3>4
    <2> QED BY <2>2, <2>3
  <1> QED BY <1>1, <1>2

(***************************************************************************)
(* RemoveComponent leaves no entity of the removed one's hash on the page  *)
(* it wrote, not even an abandoned copy of the removed entity.             *)
(***************************************************************************)
LEMMA PageRemoveLoses ==
  ASSUME NEW page \in Page, PageLinked(page), NEW e \in Entity, PageRemoves(page, e),
         NEW x \in Entity, HashEntityIndex(x) = HashEntityIndex(e)
  PROVE  ~ PageHasEntity(PageRemoveComponent(page, e), x)
PROOF
  <1>1. ~ Proper(PageRemoveComponent(page, e), HashEntityIndex(e))
    BY RemoveUnlinks
  <1> QED BY <1>1 DEF Proper, Linked, HashAt, PageHasEntity, PositionOf

(***************************************************************************)
(* RemoveComponent of the last entry changes what its page answers for no  *)
(* other entity.                                                           *)
(***************************************************************************)
LEMMA PageRemoveLastIsLocal ==
  ASSUME NEW page \in Page, PageLinked(page), NEW e \in Entity, PageRemoves(page, e),
         PositionOf(page, e) = page.size - 1,
         NEW x \in Entity, x # e
  PROVE  /\ PageHasEntity(PageRemoveComponent(page, e), x) <=> PageHasEntity(page, x)
         /\ PageHasEntity(page, x) =>
              PageGetComponent(PageRemoveComponent(page, e), x) = PageGetComponent(page, x)
PROOF
  <1> DEFINE new == PageRemoveComponent(page, e)
             c == HashEntityIndex(e)
             k == page.sparse[c]
             n == page.size - 1
             l == HashAt(page, n)
             p == PositionOf(page, x)
  <1>1. /\ c \in Cell /\ l \in Cell /\ k \in Cell /\ n \in Cell
        /\ Proper(page, c) /\ page.dense[k].entity = e
        /\ new.size = n
        /\ new.sparse[l] = ThEntitySparseNull
        /\ c # l => new.sparse[c] = page.sparse[l]
        /\ \A y \in Cell : y # c /\ y # l => new.sparse[y] = page.sparse[y]
        /\ new.dense[k] = page.dense[n]
        /\ \A j \in Cell : j # k => new.dense[j] = page.dense[j]
    BY PageRemove
  <1>2. k = n /\ l = c
    BY <1>1 DEF PositionOf, Proper
  <1>3. HashEntityIndex(x) \in Cell /\ p \in Cell \union {ThEntitySparseNull}
    BY PageAssumption DEF HashEntityIndex, PositionOf, Page
  <1>4. \A j \in Cell : new.dense[j] = page.dense[j]
    BY <1>1, <1>2
  <1>5. CASE HashEntityIndex(x) = c
    <2>1. ~ PageHasEntity(page, x)
      BY <1>1, <1>5 DEF PageHasEntity, PositionOf
    <2>2. ~ PageHasEntity(new, x)
      BY <1>5, PageRemoveLoses
    <2> QED BY <2>1, <2>2
  <1>6. CASE HashEntityIndex(x) # c
    <2>1. PositionOf(new, x) = p
      BY <1>1, <1>2, <1>3, <1>6 DEF PositionOf
    <2> HIDE DEF new
    <2>2. PageHasEntity(new, x) <=> PageHasEntity(page, x)
      BY <1>3, <1>4, <2>1 DEF PageHasEntity
    <2>3. PageHasEntity(page, x) => p \in Cell
      BY FoundIsProper
    <2> HIDE DEF p
    <2>4. PageHasEntity(page, x) => PageGetComponent(new, x) = PageGetComponent(page, x)
      BY <1>4, <2>1, <2>3 DEF PageGetComponent, p
    <2> QED BY <2>2, <2>4 DEF new
  <1> QED BY <1>5, <1>6

-----------------------------------------------------------------------------

(***************************************************************************)
(* SetComponent writes one page that accepts the entity, an old one or a   *)
(* new one.                                                                *)
(***************************************************************************)
LEMMA SetWritesOnePage ==
  ASSUME NEW pages \in Seq(Page), NEW e \in Entity, NEW d \in Data
  PROVE  \E before \in Page :
           LET target == TargetPage(pages, e)
               new    == StorageSetComponent(pages, e, d)
           IN  /\ PageAccepts(before, e)
               /\ target \in DOMAIN pages => before = pages[target]
               /\ target \notin DOMAIN pages => before = NewPage
               /\ new \in Seq(Page)
               /\ DOMAIN new = DOMAIN pages \union {target}
               /\ new[target] = PageSetComponent(before, e, d)
               /\ \A p \in DOMAIN pages : p # target => new[p] = pages[p]
PROOF
  <1> DEFINE target == TargetPage(pages, e)
             new == StorageSetComponent(pages, e, d)
             written(before) ==
               /\ PageAccepts(before, e)
               /\ target \in DOMAIN pages => before = pages[target]
               /\ target \notin DOMAIN pages => before = NewPage
               /\ new \in Seq(Page)
               /\ DOMAIN new = DOMAIN pages \union {target}
               /\ new[target] = PageSetComponent(before, e, d)
               /\ \A p \in DOMAIN pages : p # target => new[p] = pages[p]
  <1> SUFFICES \E before \in Page : written(before)
    OBVIOUS
  <1>1. DOMAIN pages = 1 .. Len(pages) /\ Len(pages) \in Nat
    OBVIOUS
  <1>2. CASE Accepting(pages, e) # {}
    <2>1. target \in Accepting(pages, e)
      <3>1. Accepting(pages, e) \subseteq 1 .. Len(pages)
        BY <1>1 DEF Accepting
      <3> QED BY <1>1, <1>2, <3>1, MaxIsMember DEF TargetPage
    <2>2. target \in DOMAIN pages /\ PageAccepts(pages[target], e) /\ pages[target] \in Page
      BY <2>1 DEF Accepting
    <2> DEFINE page == PageSetComponent(pages[target], e, d)
    <2>3. new = [pages EXCEPT ![target] = page]
      BY <2>2 DEF StorageSetComponent
    <2>4. page \in Page
      <3>1. Stores(pages[target], Entry) /\ [entity |-> e, data |-> d] \in Entry
        BY <2>2, PageAssumption DEF Stores, Page, Entry, Cell
      <3> QED BY <2>2, <3>1, PageSetKeepsPage
    <2> HIDE DEF target, new, page
    <2>5. new \in Seq(Page) /\ DOMAIN new = DOMAIN pages
      BY <1>1, <2>2, <2>3, <2>4
    <2>6. /\ new[target] = page
          /\ \A p \in DOMAIN pages : p # target => new[p] = pages[p]
      BY <1>1, <2>2, <2>3
    <2>7. written(pages[target])
      BY <2>2, <2>5, <2>6 DEF page
    <2> HIDE DEF written
    <2> QED BY <2>2, <2>7
  <1>3. CASE Accepting(pages, e) = {}
    <2> DEFINE page == PageSetComponent(NewPage, e, d)
    <2>1. target = Len(pages) + 1 /\ target \notin DOMAIN pages
      BY <1>1, <1>3 DEF TargetPage
    <2>2. new = Append(pages, page)
      BY <2>1 DEF StorageSetComponent
    <2>3. page \in Page
      <3>1. [entity |-> e, data |-> d] \in Entry
        BY DEF Entry
      <3> QED BY <3>1, NewPageIsPage, PageSetKeepsPage
    <2> HIDE DEF new, target, page
    <2>4. new \in Seq(Page) /\ DOMAIN new = DOMAIN pages \union {target}
      BY <1>1, <2>1, <2>2, <2>3
    <2>5. new[target] = page /\ \A p \in DOMAIN pages : p # target => new[p] = pages[p]
      BY <1>1, <2>1, <2>2
    <2>6. written(NewPage)
      BY <2>1, <2>4, <2>5, NewPageIsPage DEF page
    <2> HIDE DEF written
    <2> QED BY <2>6, NewPageIsPage
  <1> QED BY <1>2, <1>3

(***************************************************************************)
(* RemoveComponent writes one page that holds the entity.                  *)
(***************************************************************************)
LEMMA RemoveWritesOnePage ==
  ASSUME NEW pages \in Seq(Page), NEW e \in Entity, Removing(pages, e) # {}
  PROVE  LET p   == Max(Removing(pages, e))
             new == StorageRemoveComponent(pages, e)
         IN  /\ p \in DOMAIN pages /\ pages[p] \in Page /\ PageRemoves(pages[p], e)
             /\ new \in Seq(Page)
             /\ DOMAIN new = DOMAIN pages
             /\ new[p] = PageRemoveComponent(pages[p], e)
             /\ \A q \in DOMAIN pages : q # p => new[q] = pages[q]
PROOF
  <1> DEFINE p == Max(Removing(pages, e))
             new == StorageRemoveComponent(pages, e)
  <1>1. p \in DOMAIN pages /\ PageRemoves(pages[p], e) /\ pages[p] \in Page
    <2>1. Len(pages) \in Nat /\ DOMAIN pages = 1 .. Len(pages)
      OBVIOUS
    <2>2. Removing(pages, e) \subseteq 1 .. Len(pages)
      BY <2>1 DEF Removing
    <2>3. p \in Removing(pages, e)
      <3> HIDE DEF Removing
      <3> QED BY <2>1, <2>2, MaxIsMember
    <2> QED BY <2>3 DEF Removing
  <1>2. new = [pages EXCEPT ![p] = PageRemoveComponent(pages[p], e)]
    BY DEF StorageRemoveComponent
  <1>3. PageRemoveComponent(pages[p], e) \in Page
    <2>1. Stores(pages[p], Entry)
      BY <1>1, PageAssumption DEF Stores, Page, Cell
    <2> QED BY <1>1, <2>1, PageRemoveKeepsPage
  <1> HIDE DEF p, new
  <1>4. new \in Seq(Page) /\ DOMAIN new = DOMAIN pages
    BY <1>1, <1>2, <1>3
  <1>5. /\ new[p] = PageRemoveComponent(pages[p], e)
        /\ \A q \in DOMAIN pages : q # p => new[q] = pages[q]
    BY <1>1, <1>2
  <1> QED BY <1>1, <1>4, <1>5 DEF p, new

(***************************************************************************)
(* SetComponent drops no page, and the pages store what they stored and    *)
(* the new entry.                                                          *)
(***************************************************************************)
LEMMA SetKeepsPages ==
  ASSUME NEW pages \in Seq(Page), NEW e \in Entity, NEW d \in Data,
         NEW entries, [entity |-> e, data |-> d] \in entries,
         \A p \in DOMAIN pages : Stores(pages[p], entries)
  PROVE  LET new == StorageSetComponent(pages, e, d)
         IN  /\ new \in Seq(Page) /\ Len(pages) <= Len(new)
             /\ \A p \in DOMAIN new : Stores(new[p], entries)
PROOF
  <1> DEFINE new == StorageSetComponent(pages, e, d)
             target == TargetPage(pages, e)
  <1>1. PICK before \in Page :
          /\ PageAccepts(before, e)
          /\ target \in DOMAIN pages => before = pages[target]
          /\ target \notin DOMAIN pages => before = NewPage
          /\ new \in Seq(Page)
          /\ DOMAIN new = DOMAIN pages \union {target}
          /\ new[target] = PageSetComponent(before, e, d)
          /\ \A p \in DOMAIN pages : p # target => new[p] = pages[p]
    BY SetWritesOnePage
  <1> HIDE DEF new, target
  <1>2. Stores(before, entries)
    BY <1>1, NewPageIsPage
  <1>3. Stores(new[target], entries)
    BY <1>1, <1>2, PageSetKeepsPage
  <1>4. \A p \in DOMAIN new : Stores(new[p], entries)
    BY <1>1, <1>3
  <1>5. Len(pages) <= Len(new)
    <2>1. DOMAIN pages = 1 .. Len(pages) /\ Len(pages) \in Nat
          /\ DOMAIN new = 1 .. Len(new) /\ Len(new) \in Nat
      BY <1>1
    <2>2. Len(pages) \in DOMAIN new \/ Len(pages) = 0
      BY <1>1, <2>1
    <2> QED BY <2>1, <2>2
  <1> QED BY <1>1, <1>4, <1>5 DEF new

(***************************************************************************)
(* RemoveComponent drops no page, and the pages store nothing new.         *)
(***************************************************************************)
LEMMA RemoveKeepsPages ==
  ASSUME NEW pages \in Seq(Page), NEW e \in Entity,
         NEW entries, \A p \in DOMAIN pages : Stores(pages[p], entries)
  PROVE  LET new == StorageRemoveComponent(pages, e)
         IN  /\ new \in Seq(Page) /\ Len(new) = Len(pages)
             /\ \A p \in DOMAIN new : Stores(new[p], entries)
PROOF
  <1> DEFINE new == StorageRemoveComponent(pages, e)
             p == Max(Removing(pages, e))
  <1>1. CASE Removing(pages, e) = {}
    BY <1>1 DEF StorageRemoveComponent
  <1>2. CASE Removing(pages, e) # {}
    <2>1. /\ p \in DOMAIN pages /\ pages[p] \in Page /\ PageRemoves(pages[p], e)
          /\ new \in Seq(Page)
          /\ DOMAIN new = DOMAIN pages
          /\ new[p] = PageRemoveComponent(pages[p], e)
          /\ \A q \in DOMAIN pages : q # p => new[q] = pages[q]
      BY <1>2, RemoveWritesOnePage
    <2> HIDE DEF new, p
    <2>2. Stores(new[p], entries)
      BY <2>1, PageRemoveKeepsPage
    <2>3. \A q \in DOMAIN new : Stores(new[q], entries)
      BY <2>1, <2>2
    <2>4. Len(new) = Len(pages)
      BY <2>1
    <2> QED BY <2>1, <2>3, <2>4 DEF new
  <1> QED BY <1>1, <1>2

-----------------------------------------------------------------------------

(***************************************************************************)
(* The storage starts without pages.                                       *)
(***************************************************************************)
LEMMA InitIInv == Init => IInv
PROOF
  BY StorageAssumption DEF Init, Map!Init, IInv, TypeOK

(***************************************************************************)
(* The page SetComponent writes, before it does: one of the storage's or a *)
(* new one, on which nothing is found; its links are in order.             *)
(***************************************************************************)
LEMMA SetWrites ==
  ASSUME IInv, NEW e \in Entity, NEW d \in DataOf(e), SetComponent(e, d)
  PROVE  \E before \in Page :
           /\ Stores(before, Owned) /\ PageLinked(before) /\ PageAccepts(before, e)
           /\ TargetPage(m_Pages, e) \in DOMAIN m_Pages => before = m_Pages[TargetPage(m_Pages, e)]
           /\ TargetPage(m_Pages, e) \notin DOMAIN m_Pages =>
                before.size = 0 /\ \A x \in Entity : ~ PageHasEntity(before, x)
           /\ DOMAIN m_Pages' = DOMAIN m_Pages \union {TargetPage(m_Pages, e)}
           /\ m_Pages' \in Seq(Page)
           /\ m_Pages'[TargetPage(m_Pages, e)] = PageSetComponent(before, e, d)
           /\ \A p \in DOMAIN m_Pages : p # TargetPage(m_Pages, e) => m_Pages'[p] = m_Pages[p]
PROOF
  <1> DEFINE target == TargetPage(m_Pages, e)
  <1>1. m_Pages \in Seq(Page) /\ d \in Data /\ m_Pages' = StorageSetComponent(m_Pages, e, d)
    BY DEF IInv, TypeOK, DataOf, SetComponent
  <1>2. PICK before \in Page :
          /\ PageAccepts(before, e)
          /\ target \in DOMAIN m_Pages => before = m_Pages[target]
          /\ target \notin DOMAIN m_Pages => before = NewPage
          /\ m_Pages' \in Seq(Page)
          /\ DOMAIN m_Pages' = DOMAIN m_Pages \union {target}
          /\ m_Pages'[target] = PageSetComponent(before, e, d)
          /\ \A p \in DOMAIN m_Pages : p # target => m_Pages'[p] = m_Pages[p]
    BY <1>1, SetWritesOnePage
  <1> HIDE DEF target
  <1>3. Stores(before, Owned) /\ PageLinked(before)
    BY <1>2, NewPageIsPage, NewPageLinked DEF IInv
  <1>4. target \notin DOMAIN m_Pages =>
          before.size = 0 /\ \A x \in Entity : ~ PageHasEntity(before, x)
    BY <1>2, NewPageIsPage DEF NewPage
  <1> QED BY <1>2, <1>3, <1>4 DEF target

(***************************************************************************)
(* SetComponent keeps the strengthening.                                   *)
(***************************************************************************)
LEMMA SetIInv ==
  ASSUME IInv, NEW e \in Entity, NEW d \in DataOf(e), SetComponent(e, d)
  PROVE  IInv'
PROOF
  <1> DEFINE target == TargetPage(m_Pages, e)
  <1>1. PICK before \in Page :
           /\ Stores(before, Owned) /\ PageLinked(before) /\ PageAccepts(before, e)
           /\ DOMAIN m_Pages' = DOMAIN m_Pages \union {target}
           /\ m_Pages' \in Seq(Page)
           /\ m_Pages'[target] = PageSetComponent(before, e, d)
           /\ \A p \in DOMAIN m_Pages : p # target => m_Pages'[p] = m_Pages[p]
    BY SetWrites
  <1> HIDE DEF target
  <1>2. Stores(m_Pages'[target], Owned)
    <2>1. d \in Data /\ [entity |-> e, data |-> d] \in Owned
      BY DEF Owned, Entry, DataOf
    <2> QED BY <1>1, <2>1, PageSetKeepsPage
  <1>3. PageLinked(m_Pages'[target])
    BY <1>1, OverwriteKeepsLinks, AddKeepsLinks
  <1>4. \A p \in DOMAIN m_Pages' : Stores(m_Pages'[p], Owned) /\ PageLinked(m_Pages'[p])
    BY <1>1, <1>2, <1>3 DEF IInv
  <1>5. stored' \in [Entity -> Data \union {NoData}]
        /\ faults' \subseteq {"swap", "bypass", "shadow", "copy"}
    BY DEF IInv, TypeOK, SetComponent, Map!Set, SetFaults, DataOf
  <1> QED BY <1>1, <1>4, <1>5 DEF IInv, TypeOK

(***************************************************************************)
(* RemoveComponent keeps the strengthening.                                *)
(***************************************************************************)
LEMMA RemoveIInv ==
  ASSUME IInv, NEW e \in Entity, RemoveComponent(e)
  PROVE  IInv'
PROOF
  <1> DEFINE p == Max(Removing(m_Pages, e))
  <1>1. /\ p \in DOMAIN m_Pages /\ m_Pages[p] \in Page /\ PageRemoves(m_Pages[p], e)
        /\ m_Pages' \in Seq(Page)
        /\ DOMAIN m_Pages' = DOMAIN m_Pages
        /\ m_Pages'[p] = PageRemoveComponent(m_Pages[p], e)
        /\ \A q \in DOMAIN m_Pages : q # p => m_Pages'[q] = m_Pages[q]
    BY RemoveWritesOnePage DEF IInv, TypeOK, RemoveComponent
  <1> HIDE DEF p
  <1>2. Stores(m_Pages[p], Owned) /\ PageLinked(m_Pages[p])
    BY <1>1 DEF IInv
  <1>3. Stores(m_Pages'[p], Owned) /\ PageLinked(m_Pages'[p])
    BY <1>1, <1>2, PageRemoveKeepsPage, RemoveKeepsLinks
  <1>4. \A q \in DOMAIN m_Pages' : Stores(m_Pages'[q], Owned) /\ PageLinked(m_Pages'[q])
    BY <1>1, <1>3 DEF IInv
  <1>5. stored' \in [Entity -> Data \union {NoData}]
        /\ faults' \subseteq {"swap", "bypass", "shadow", "copy"}
    BY DEF IInv, TypeOK, RemoveComponent, Map!Remove, RemoveFaults
  <1> QED BY <1>1, <1>4, <1>5 DEF IInv, TypeOK

(***************************************************************************)
(* Every step of the storage keeps the strengthening.                      *)
(***************************************************************************)
LEMMA NextIInv == IInv /\ [Next]_vars => IInv'
PROOF
  <1> SUFFICES ASSUME IInv, [Next]_vars PROVE IInv'
    OBVIOUS
  <1>1. CASE Next
    BY <1>1, SetIInv, RemoveIInv DEF Next
  <1>2. CASE UNCHANGED vars
    BY <1>2 DEF vars, IInv, TypeOK
  <1> QED BY <1>1, <1>2

(***************************************************************************)
(* An entry found through its cell is the data of the entity it is found   *)
(* for.                                                                    *)
(***************************************************************************)
LEMMA IInvImpliesNoForeignData == IInv => NoForeignData
PROOF
  <1> SUFFICES ASSUME IInv, NEW e \in Entity, HasEntity(e)
               PROVE  GetComponent(e).owner = e
    BY DEF NoForeignData
  <1> DEFINE p == Max(Holding(m_Pages, e))
  <1>1. m_Pages \in Seq(Page)
    BY DEF IInv, TypeOK
  <1>2. p \in DOMAIN m_Pages /\ PageHasEntity(m_Pages[p], e)
    <2>1. Len(m_Pages) \in Nat /\ DOMAIN m_Pages = 1 .. Len(m_Pages)
      BY <1>1
    <2>2. Holding(m_Pages, e) # {} /\ Holding(m_Pages, e) \subseteq 1 .. Len(m_Pages)
      BY <2>1 DEF Holding, HasEntity, StorageHasEntity
    <2>3. p \in Holding(m_Pages, e)
      <3> HIDE DEF Holding
      <3> QED BY <2>1, <2>2, MaxIsMember
    <2> QED BY <2>3 DEF Holding
  <1>3. GetComponent(e) = m_Pages[p].dense[PositionOf(m_Pages[p], e)].data
    BY DEF GetComponent, StorageGetComponent, PageGetComponent
  <1> HIDE DEF p
  <1>4. m_Pages[p].dense[PositionOf(m_Pages[p], e)] \in Owned
    BY <1>2, PageAssumption DEF IInv, Stores, PageHasEntity, PositionOf, HashEntityIndex
  <1> QED BY <1>2, <1>3, <1>4 DEF Owned, PageHasEntity

-----------------------------------------------------------------------------

(***************************************************************************)
(* After SetComponent the entity is held by the page written, and by the   *)
(* pages that held it; no page answers differently for another entity.     *)
(***************************************************************************)
LEMMA SetHolding ==
  ASSUME IInv, NEW e \in Entity, NEW d \in DataOf(e), SetComponent(e, d)
  PROVE  /\ Holding(m_Pages', e) = Holding(m_Pages, e) \union {TargetPage(m_Pages, e)}
         /\ PageGetComponent(m_Pages'[TargetPage(m_Pages, e)], e) = d
         /\ \A x \in Entity \ {e} :
              /\ Holding(m_Pages', x) = Holding(m_Pages, x)
              /\ \A p \in Holding(m_Pages, x) :
                   PageGetComponent(m_Pages'[p], x) = PageGetComponent(m_Pages[p], x)
PROOF
  <1> DEFINE target == TargetPage(m_Pages, e)
  <1>1. PICK before \in Page :
           /\ PageLinked(before) /\ PageAccepts(before, e)
           /\ target \in DOMAIN m_Pages => before = m_Pages[target]
           /\ target \notin DOMAIN m_Pages => \A x \in Entity : ~ PageHasEntity(before, x)
           /\ DOMAIN m_Pages' = DOMAIN m_Pages \union {target}
           /\ m_Pages'[target] = PageSetComponent(before, e, d)
           /\ \A p \in DOMAIN m_Pages : p # target => m_Pages'[p] = m_Pages[p]
    BY SetWrites
  <1> HIDE DEF target
  <1>2. PageHasEntity(m_Pages'[target], e) /\ PageGetComponent(m_Pages'[target], e) = d
    BY <1>1, PageSetFinds
  <1>3. Holding(m_Pages', e) = Holding(m_Pages, e) \union {target}
    BY <1>1, <1>2 DEF Holding
  <1>4. ASSUME NEW x \in Entity \ {e}
        PROVE  /\ Holding(m_Pages', x) = Holding(m_Pages, x)
               /\ \A p \in Holding(m_Pages, x) :
                    PageGetComponent(m_Pages'[p], x) = PageGetComponent(m_Pages[p], x)
    <2>1. /\ PageHasEntity(m_Pages'[target], x) <=> PageHasEntity(before, x)
          /\ PageHasEntity(before, x) =>
               PageGetComponent(m_Pages'[target], x) = PageGetComponent(before, x)
      BY <1>1, <1>4, PageSetIsLocal
    <2>2. \A p \in DOMAIN m_Pages' :
            PageHasEntity(m_Pages'[p], x) <=> p \in DOMAIN m_Pages /\ PageHasEntity(m_Pages[p], x)
      <3> SUFFICES ASSUME NEW p \in DOMAIN m_Pages'
                   PROVE  PageHasEntity(m_Pages'[p], x) <=>
                            p \in DOMAIN m_Pages /\ PageHasEntity(m_Pages[p], x)
        OBVIOUS
      <3>1. CASE p = target /\ target \in DOMAIN m_Pages
        BY <1>1, <2>1, <3>1
      <3>2. CASE p = target /\ target \notin DOMAIN m_Pages
        BY <1>1, <1>4, <2>1, <3>2
      <3>3. CASE p # target
        BY <1>1, <3>3
      <3> QED BY <3>1, <3>2, <3>3
    <2>3. Holding(m_Pages', x) = Holding(m_Pages, x)
      BY <1>1, <2>2 DEF Holding
    <2>4. ASSUME NEW p \in Holding(m_Pages, x)
          PROVE  PageGetComponent(m_Pages'[p], x) = PageGetComponent(m_Pages[p], x)
      <3>1. p \in DOMAIN m_Pages /\ PageHasEntity(m_Pages[p], x)
        BY <2>4 DEF Holding
      <3>2. CASE p = target
        BY <1>1, <2>1, <3>1, <3>2
      <3>3. CASE p # target
        BY <1>1, <3>1, <3>3
      <3> QED BY <3>2, <3>3
    <2> QED BY <2>3, <2>4
  <1> QED BY <1>2, <1>3, <1>4 DEF target

(***************************************************************************)
(* After RemoveComponent the entity is no longer held by the page written. *)
(* If its entry was the last one, no page answers differently for another  *)
(* entity.                                                                 *)
(***************************************************************************)
LEMMA RemoveHolding ==
  ASSUME IInv, NEW e \in Entity, RemoveComponent(e)
  PROVE  LET p == Max(Removing(m_Pages, e))
         IN  /\ p \in Holding(m_Pages, e)
             /\ Holding(m_Pages', e) = Holding(m_Pages, e) \ {p}
             /\ PositionOf(m_Pages[p], e) = m_Pages[p].size - 1 =>
                  \A x \in Entity \ {e} :
                    /\ Holding(m_Pages', x) = Holding(m_Pages, x)
                    /\ \A q \in Holding(m_Pages, x) :
                         PageGetComponent(m_Pages'[q], x) = PageGetComponent(m_Pages[q], x)
PROOF
  <1> DEFINE p == Max(Removing(m_Pages, e))
  <1>1. /\ p \in DOMAIN m_Pages /\ m_Pages[p] \in Page /\ PageRemoves(m_Pages[p], e)
        /\ m_Pages' \in Seq(Page)
        /\ DOMAIN m_Pages' = DOMAIN m_Pages
        /\ m_Pages'[p] = PageRemoveComponent(m_Pages[p], e)
        /\ \A q \in DOMAIN m_Pages : q # p => m_Pages'[q] = m_Pages[q]
    BY RemoveWritesOnePage DEF IInv, TypeOK, RemoveComponent
  <1> HIDE DEF p
  <1>2. p \in Holding(m_Pages, e) /\ PageLinked(m_Pages[p])
    BY <1>1 DEF Holding, PageRemoves, IInv
  <1>3. ~ PageHasEntity(m_Pages'[p], e)
    BY <1>1, <1>2, PageRemoveLoses
  <1>4. Holding(m_Pages', e) = Holding(m_Pages, e) \ {p}
    BY <1>1, <1>3 DEF Holding
  <1>5. ASSUME PositionOf(m_Pages[p], e) = m_Pages[p].size - 1, NEW x \in Entity \ {e}
        PROVE  /\ Holding(m_Pages', x) = Holding(m_Pages, x)
               /\ \A q \in Holding(m_Pages, x) :
                    PageGetComponent(m_Pages'[q], x) = PageGetComponent(m_Pages[q], x)
    <2>1. /\ PageHasEntity(m_Pages'[p], x) <=> PageHasEntity(m_Pages[p], x)
          /\ PageHasEntity(m_Pages[p], x) =>
               PageGetComponent(m_Pages'[p], x) = PageGetComponent(m_Pages[p], x)
      BY <1>1, <1>2, <1>5, PageRemoveLastIsLocal
    <2>2. \A q \in DOMAIN m_Pages : PageHasEntity(m_Pages'[q], x) <=> PageHasEntity(m_Pages[q], x)
      BY <1>1, <2>1
    <2>3. Holding(m_Pages', x) = Holding(m_Pages, x)
      BY <1>1, <2>2 DEF Holding
    <2>4. \A q \in DOMAIN m_Pages : PageHasEntity(m_Pages[q], x) =>
            PageGetComponent(m_Pages'[q], x) = PageGetComponent(m_Pages[q], x)
      BY <1>1, <2>1
    <2> QED BY <2>3, <2>4 DEF Holding
  <1> QED BY <1>2, <1>4, <1>5 DEF p

(***************************************************************************)
(* The page read for a held entity: the last one that holds it.            *)
(***************************************************************************)
LEMMA LastHolding ==
  ASSUME NEW pages \in Seq(Page), NEW x \in Entity, Holding(pages, x) # {}
  PROVE  /\ Max(Holding(pages, x)) \in Holding(pages, x)
         /\ \A p \in Holding(pages, x) : p <= Max(Holding(pages, x))
         /\ Holding(pages, x) \subseteq Nat
PROOF
  <1>1. Len(pages) \in Nat /\ Holding(pages, x) \subseteq 1 .. Len(pages)
    BY DEF Holding
  <1> HIDE DEF Holding
  <1>2. /\ Max(Holding(pages, x)) \in Holding(pages, x)
        /\ \A p \in Holding(pages, x) : p <= Max(Holding(pages, x))
    BY <1>1, MaxIsMember
  <1> QED BY <1>1, <1>2

(***************************************************************************)
(* An entity for which no page answers differently reads the same.         *)
(***************************************************************************)
LEMMA SameAnswersSameComponent ==
  ASSUME IInv, NEW x \in Entity,
         Holding(m_Pages', x) = Holding(m_Pages, x),
         \A p \in Holding(m_Pages, x) :
           PageGetComponent(m_Pages'[p], x) = PageGetComponent(m_Pages[p], x)
  PROVE  GetComponent(x)' = GetComponent(x)
PROOF
  <1>1. m_Pages \in Seq(Page)
    BY DEF IInv, TypeOK
  <1>2. CASE Holding(m_Pages, x) = {}
    BY <1>2 DEF GetComponent, HasEntity, StorageHasEntity
  <1>3. CASE Holding(m_Pages, x) # {}
    <2> DEFINE p == Max(Holding(m_Pages, x))
    <2>1. p \in Holding(m_Pages, x) /\ Max(Holding(m_Pages', x)) = p
      BY <1>1, <1>3, LastHolding
    <2>2. GetComponent(x) = PageGetComponent(m_Pages[p], x)
      BY <1>3 DEF GetComponent, HasEntity, StorageHasEntity, StorageGetComponent
    <2>3. GetComponent(x)' = PageGetComponent(m_Pages'[Max(Holding(m_Pages', x))], x)
      BY <1>3 DEF GetComponent, HasEntity, StorageHasEntity, StorageGetComponent
    <2> HIDE DEF p
    <2> QED BY <2>1, <2>2, <2>3 DEF p
  <1> QED BY <1>2, <1>3

(***************************************************************************)
(* Which call a step of the client's map was.                              *)
(***************************************************************************)
LEMMA SetStep ==
  ASSUME IInv, Next, NEW e \in Entity, stored'[e] # stored[e], stored'[e] # NoData
  PROVE  \E d \in DataOf(e) : SetComponent(e, d)
PROOF
  <1>1. stored \in [Entity -> Data \union {NoData}]
    BY DEF IInv, TypeOK
  <1>2. ASSUME NEW x \in Entity, RemoveComponent(x) PROVE FALSE
    BY <1>1, <1>2 DEF RemoveComponent, Map!Remove
  <1>3. PICK x \in Entity : \E d \in DataOf(x) : SetComponent(x, d)
    BY <1>2 DEF Next
  <1>4. x = e
    BY <1>1, <1>3 DEF SetComponent, Map!Set
  <1> QED BY <1>3, <1>4

LEMMA RemoveStep ==
  ASSUME IInv, Next, NEW e \in Entity, stored'[e] # stored[e], stored'[e] = NoData
  PROVE  RemoveComponent(e)
PROOF
  <1>1. stored \in [Entity -> Data \union {NoData}]
    BY DEF IInv, TypeOK
  <1>2. ASSUME NEW x \in Entity, NEW d \in DataOf(x), SetComponent(x, d) PROVE FALSE
    <2>1. d # NoData
      BY StorageAssumption DEF DataOf
    <2> QED BY <1>1, <1>2, <2>1 DEF SetComponent, Map!Set
  <1>3. PICK x \in Entity : RemoveComponent(x)
    BY <1>2 DEF Next
  <1>4. x = e
    BY <1>1, <1>3 DEF RemoveComponent, Map!Remove
  <1> QED BY <1>3, <1>4

(***************************************************************************)
(* A step without a fault other than a copy keeps the storage and the      *)
(* client's map in agreement.  A set copy is the newest, because the page  *)
(* written is not before one that holds the entity; a removed component    *)
(* was the only copy and the last entry of its page.                       *)
(***************************************************************************)
LEMMA SetKeepsExact ==
  ASSUME IInv, ExactUntilFault, NEW e \in Entity, NEW d \in DataOf(e), SetComponent(e, d)
  PROVE  ExactUntilFault'
PROOF
  <1> DEFINE target == TargetPage(m_Pages, e)
  <1> SUFFICES ASSUME faults' \subseteq {"copy"} PROVE Contents' = stored'
    BY DEF ExactUntilFault
  <1>1. stored \in [Entity -> Data \union {NoData}] /\ IInv'
    BY SetIInv DEF IInv, TypeOK
  <1>2. Contents = stored /\ "bypass" \notin SetFaults(e)
    BY DEF ExactUntilFault, SetComponent
  <1>3. \A p \in Holding(m_Pages, e) : ~ p > target
    BY <1>2 DEF SetFaults
  <1>4. /\ Holding(m_Pages', e) = Holding(m_Pages, e) \union {target}
        /\ PageGetComponent(m_Pages'[target], e) = d
    BY SetHolding
  <1>5. m_Pages' \in Seq(Page)
    BY <1>1 DEF IInv, TypeOK
  <1> HIDE DEF target
  <1>6. Max(Holding(m_Pages', e)) = target
    <2>1. /\ Max(Holding(m_Pages', e)) \in Holding(m_Pages', e)
          /\ \A p \in Holding(m_Pages', e) : p <= Max(Holding(m_Pages', e))
          /\ Holding(m_Pages', e) \subseteq Nat
      BY <1>4, <1>5, LastHolding
    <2> QED BY <1>3, <1>4, <2>1
  <1>7. GetComponent(e)' = d
    BY <1>4, <1>6 DEF GetComponent, HasEntity, StorageHasEntity, StorageGetComponent
  <1>8. \A x \in Entity : x # e => GetComponent(x)' = GetComponent(x)
    BY SetHolding, SameAnswersSameComponent
  <1>9. stored' = [stored EXCEPT ![e] = d]
    BY DEF SetComponent, Map!Set
  <1>10. \A x \in Entity : GetComponent(x) = stored[x]
    BY <1>2 DEF Contents
  <1>11. \A x \in Entity : GetComponent(x)' = stored'[x]
    BY <1>1, <1>7, <1>8, <1>9, <1>10
  <1>12. stored' = [x \in Entity |-> stored'[x]]
    BY <1>1 DEF IInv, TypeOK
  <1> QED BY <1>11, <1>12 DEF Contents

LEMMA RemoveKeepsExact ==
  ASSUME IInv, ExactUntilFault, NEW e \in Entity, RemoveComponent(e)
  PROVE  ExactUntilFault'
PROOF
  <1> DEFINE p == Max(Removing(m_Pages, e))
  <1> SUFFICES ASSUME faults' \subseteq {"copy"} PROVE Contents' = stored'
    BY DEF ExactUntilFault
  <1>1. stored \in [Entity -> Data \union {NoData}] /\ IInv'
    BY RemoveIInv DEF IInv, TypeOK
  <1>2. Contents = stored /\ "swap" \notin RemoveFaults(e) /\ "shadow" \notin RemoveFaults(e)
    BY DEF ExactUntilFault, RemoveComponent
  <1>3. PositionOf(m_Pages[p], e) = m_Pages[p].size - 1 /\ Holding(m_Pages, e) = {p}
    BY <1>2 DEF RemoveFaults
  <1>4. /\ Holding(m_Pages', e) = Holding(m_Pages, e) \ {p}
        /\ \A x \in Entity \ {e} :
             /\ Holding(m_Pages', x) = Holding(m_Pages, x)
             /\ \A q \in Holding(m_Pages, x) :
                  PageGetComponent(m_Pages'[q], x) = PageGetComponent(m_Pages[q], x)
    BY <1>3, RemoveHolding
  <1> HIDE DEF p
  <1>5. GetComponent(e)' = NoData
    BY <1>3, <1>4 DEF GetComponent, HasEntity, StorageHasEntity
  <1>6. \A x \in Entity : x # e => GetComponent(x)' = GetComponent(x)
    BY <1>4, SameAnswersSameComponent
  <1>7. stored' = [stored EXCEPT ![e] = NoData]
    BY DEF RemoveComponent, Map!Remove
  <1>8. \A x \in Entity : GetComponent(x) = stored[x]
    BY <1>2 DEF Contents
  <1>9. \A x \in Entity : GetComponent(x)' = stored'[x]
    BY <1>1, <1>5, <1>6, <1>7, <1>8
  <1>10. stored' = [x \in Entity |-> stored'[x]]
    BY <1>1 DEF IInv, TypeOK
  <1> QED BY <1>9, <1>10 DEF Contents

-----------------------------------------------------------------------------

(***************************************************************************)
(* While the storage agrees with the client's map, an entity has a stored  *)
(* component exactly when some page holds it.                              *)
(***************************************************************************)
LEMMA StoredIsHeld ==
  ASSUME IInv, Contents = stored, NEW e \in Entity
  PROVE  stored[e] # NoData <=> Holding(m_Pages, e) # {}
PROOF
  <1>1. stored[e] = GetComponent(e)
    BY DEF Contents
  <1>2. CASE Holding(m_Pages, e) = {}
    BY <1>1, <1>2 DEF GetComponent, HasEntity, StorageHasEntity
  <1>3. CASE Holding(m_Pages, e) # {}
    <2> DEFINE p == Max(Holding(m_Pages, e))
    <2>1. m_Pages \in Seq(Page)
      BY DEF IInv, TypeOK
    <2>2. p \in DOMAIN m_Pages /\ PageHasEntity(m_Pages[p], e)
      BY <1>3, <2>1, LastHolding DEF Holding
    <2>3. stored[e] = PageGetComponent(m_Pages[p], e)
      BY <1>1, <1>3 DEF GetComponent, HasEntity, StorageHasEntity, StorageGetComponent
    <2> HIDE DEF p
    <2>4. m_Pages[p] \in Page
      BY <2>1, <2>2
    <2>5. PageGetComponent(m_Pages[p], e) \in Data
      BY <2>2, <2>4, PageAssumption
      DEF PageGetComponent, PageHasEntity, PositionOf, HashEntityIndex, Page, Entry
    <2> QED BY <1>3, <2>3, <2>5, StorageAssumption
  <1> QED BY <1>2, <1>3

(***************************************************************************)
(* SetComponent on a page counts one position more when the page did not   *)
(* have the entity, the one that was m_Size.                               *)
(***************************************************************************)
LEMMA PageAddGrows ==
  ASSUME NEW page \in Page, NEW e \in Entity, NEW d \in DataOf(e),
         PageAccepts(page, e), ~ PageHasEntity(page, e)
  PROVE  page.size \in Cell /\ PageSetComponent(page, e, d).size = page.size + 1
PROOF
  <1> DEFINE new == PageSetComponent(page, e, d)
             c == HashEntityIndex(e)
             n == page.size
  <1>1. /\ c \in Cell /\ n \in Cell /\ ~ Linked(page, c)
        /\ new.size = n + 1
        /\ new.sparse[c] = n
        /\ \A x \in Cell : x # c => new.sparse[x] = page.sparse[x]
        /\ new.dense[n] = [entity |-> e, data |-> d]
        /\ \A k \in Cell : k # n => new.dense[k] = page.dense[k]
    BY PageAdd
  <1> QED BY <1>1

(***************************************************************************)
(* Without a fault, SetComponent counts one position more exactly when it  *)
(* makes an entity that had no component one that has, and RemoveComponent *)
(* one less.                                                               *)
(***************************************************************************)
CountInv ==
  faults = {} =>
    /\ IsFiniteSet(StoredEntities) /\ IsFiniteSet(Counted(m_Pages))
    /\ Cardinality(Counted(m_Pages)) = Cardinality(StoredEntities)

LEMMA SetKeepsCount ==
  ASSUME IInv, ExactUntilFault, CountInv, NEW e \in Entity, NEW d \in DataOf(e), SetComponent(e, d)
  PROVE  CountInv'
PROOF
  <1> DEFINE target == TargetPage(m_Pages, e)
  <1> SUFFICES ASSUME faults' = {}
               PROVE  /\ IsFiniteSet(StoredEntities') /\ IsFiniteSet(Counted(m_Pages'))
                      /\ Cardinality(Counted(m_Pages')) = Cardinality(StoredEntities')
    BY DEF CountInv
  <1>1. faults = {} /\ SetFaults(e) = {}
    BY DEF SetComponent
  <1>2. /\ IsFiniteSet(StoredEntities) /\ IsFiniteSet(Counted(m_Pages))
        /\ Cardinality(Counted(m_Pages)) = Cardinality(StoredEntities)
        /\ Contents = stored
    BY <1>1 DEF CountInv, ExactUntilFault
  <1>3. PICK before \in Page :
          /\ PageAccepts(before, e)
          /\ target \in DOMAIN m_Pages => before = m_Pages[target]
          /\ target \notin DOMAIN m_Pages =>
               before.size = 0 /\ \A x \in Entity : ~ PageHasEntity(before, x)
          /\ DOMAIN m_Pages' = DOMAIN m_Pages \union {target}
          /\ m_Pages'[target] = PageSetComponent(before, e, d)
          /\ \A p \in DOMAIN m_Pages : p # target => m_Pages'[p] = m_Pages[p]
    BY SetWrites
  <1>4. Holding(m_Pages, e) # {} => target \in Holding(m_Pages, e)
    BY <1>1 DEF SetFaults, HasEntity, StorageHasEntity
  <1> HIDE DEF target
  <1>5. /\ stored \in [Entity -> Data \union {NoData}]
        /\ stored' = [stored EXCEPT ![e] = d] /\ d # NoData
    BY StorageAssumption DEF IInv, TypeOK, SetComponent, Map!Set, DataOf
  <1>6. StoredEntities' = StoredEntities \union {e}
    BY <1>5 DEF StoredEntities
  <1>7. CASE Holding(m_Pages, e) # {}
    <2>1. target \in DOMAIN m_Pages /\ before = m_Pages[target] /\ PageHasEntity(before, e)
      BY <1>3, <1>4, <1>7 DEF Holding
    <2>2. m_Pages'[target].size = m_Pages[target].size
      BY <1>3, <2>1, PageOverwrite
    <2>3. DOMAIN m_Pages' = DOMAIN m_Pages
      BY <1>3, <2>1
    <2>4. \A p \in DOMAIN m_Pages : m_Pages'[p].size = m_Pages[p].size
      BY <1>3, <2>2
    <2>5. Counted(m_Pages') = Counted(m_Pages)
      BY <2>3, <2>4 DEF Counted
    <2>6. StoredEntities' = StoredEntities
      BY <1>2, <1>6, <1>7, StoredIsHeld DEF StoredEntities
    <2> QED BY <1>2, <2>5, <2>6
  <1>8. CASE Holding(m_Pages, e) = {}
    <2> DEFINE n == before.size
    <2>1. ~ PageHasEntity(before, e)
      BY <1>3, <1>8 DEF Holding
    <2>2. n \in Cell /\ m_Pages'[target].size = n + 1
      <3>1. PageAccepts(before, e)
        BY <1>3
      <3>2. before.size \in Cell /\ PageSetComponent(before, e, d).size = before.size + 1
        BY <2>1, <3>1, PageAddGrows
      <3> QED BY <1>3, <3>2
    <2>3. n \in Int /\ \A k \in Cell : k \in Int /\ (k < n + 1 <=> k < n \/ k = n)
      BY <2>2, PageAssumption DEF Cell
    <2>4. \A k \in Cell : target \notin DOMAIN m_Pages => ~ k < n
      BY <1>3, <2>2, PageAssumption DEF Cell
    <2>5. Counted(m_Pages') = Counted(m_Pages) \union {<<target, n>>}
      <3> HIDE DEF n
      <3>1. ASSUME NEW p, NEW k \in Cell
            PROVE  <<p, k>> \in Counted(m_Pages')
                     <=> <<p, k>> \in Counted(m_Pages) \/ <<p, k>> = <<target, n>>
        <4>1. CASE p = target
          <5>1. <<p, k>> \in Counted(m_Pages') <=> k < n + 1
            BY <1>3, <2>2, <4>1 DEF Counted
          <5>2. <<p, k>> \in Counted(m_Pages) <=> k < n
            BY <1>3, <2>4, <4>1 DEF Counted, n
          <5> QED BY <2>3, <4>1, <5>1, <5>2
        <4>2. CASE p # target
          BY <1>3, <4>2 DEF Counted
        <4> QED BY <4>1, <4>2
      <3>2. /\ Counted(m_Pages) \subseteq (DOMAIN m_Pages') \X Cell
            /\ Counted(m_Pages') \subseteq (DOMAIN m_Pages') \X Cell
            /\ <<target, n>> \in (DOMAIN m_Pages') \X Cell
        BY <1>3, <2>2 DEF Counted
      <3> QED BY <3>1, <3>2
    <2>6. <<target, n>> \notin Counted(m_Pages)
      BY <1>3, <2>3 DEF Counted
    <2>7. e \notin StoredEntities
      BY <1>2, <1>8, StoredIsHeld DEF StoredEntities
    <2> HIDE DEF n
    <2>8. /\ IsFiniteSet(Counted(m_Pages'))
          /\ Cardinality(Counted(m_Pages')) = Cardinality(Counted(m_Pages)) + 1
      BY <1>2, <2>5, <2>6, FS_AddElement
    <2>9. /\ IsFiniteSet(StoredEntities')
          /\ Cardinality(StoredEntities') = Cardinality(StoredEntities) + 1
      BY <1>2, <1>6, <2>7, FS_AddElement
    <2> QED BY <1>2, <2>8, <2>9
  <1> QED BY <1>7, <1>8

LEMMA RemoveKeepsCount ==
  ASSUME IInv, ExactUntilFault, CountInv, NEW e \in Entity, RemoveComponent(e)
  PROVE  CountInv'
PROOF
  <1> DEFINE p == Max(Removing(m_Pages, e))
             n == m_Pages[p].size - 1
  <1> SUFFICES ASSUME faults' = {}
               PROVE  /\ IsFiniteSet(StoredEntities') /\ IsFiniteSet(Counted(m_Pages'))
                      /\ Cardinality(Counted(m_Pages')) = Cardinality(StoredEntities')
    BY DEF CountInv
  <1>1. /\ IsFiniteSet(StoredEntities) /\ IsFiniteSet(Counted(m_Pages))
        /\ Cardinality(Counted(m_Pages)) = Cardinality(StoredEntities)
        /\ Contents = stored
    BY DEF CountInv, ExactUntilFault, RemoveComponent
  <1>2. /\ p \in DOMAIN m_Pages /\ m_Pages[p] \in Page /\ PageRemoves(m_Pages[p], e)
        /\ DOMAIN m_Pages' = DOMAIN m_Pages
        /\ m_Pages'[p] = PageRemoveComponent(m_Pages[p], e)
        /\ \A q \in DOMAIN m_Pages : q # p => m_Pages'[q] = m_Pages[q]
    BY RemoveWritesOnePage DEF IInv, TypeOK, RemoveComponent
  <1>3. e \in StoredEntities
    BY <1>1, RemoveHolding, StoredIsHeld DEF StoredEntities
  <1>4. StoredEntities' = StoredEntities \ {e}
    <2>1. stored \in [Entity -> Data \union {NoData}] /\ stored' = [stored EXCEPT ![e] = NoData]
      BY DEF IInv, TypeOK, RemoveComponent, Map!Remove
    <2> QED BY <2>1 DEF StoredEntities
  <1> HIDE DEF p
  <1>5. n \in Cell /\ m_Pages'[p].size = n
    BY <1>2, PageRemove
  <1>6. n \in Int /\ m_Pages[p].size = n + 1 /\ \A k \in Cell : k \in Int /\ (k < n + 1 <=> k < n \/ k = n)
    <2>1. m_Pages[p].size \in Int
      BY <1>2 DEF Page
    <2> QED BY <1>5, <2>1, PageAssumption DEF Cell
  <1> HIDE DEF n
  <1>7. Counted(m_Pages') = Counted(m_Pages) \ {<<p, n>>} /\ <<p, n>> \in Counted(m_Pages)
    <2>1. ASSUME NEW q, NEW k \in Cell
          PROVE  <<q, k>> \in Counted(m_Pages')
                   <=> <<q, k>> \in Counted(m_Pages) /\ <<q, k>> # <<p, n>>
      <3>1. CASE q = p
        BY <1>2, <1>5, <1>6, <3>1 DEF Counted
      <3>2. CASE q # p
        BY <1>2, <3>2 DEF Counted
      <3> QED BY <3>1, <3>2
    <2>2. /\ Counted(m_Pages) \subseteq (DOMAIN m_Pages) \X Cell
          /\ Counted(m_Pages') \subseteq (DOMAIN m_Pages) \X Cell
      BY <1>2 DEF Counted
    <2>3. <<p, n>> \in Counted(m_Pages)
      BY <1>2, <1>5, <1>6 DEF Counted
    <2> QED BY <2>1, <2>2, <2>3
  <1>8. /\ IsFiniteSet(Counted(m_Pages'))
        /\ Cardinality(Counted(m_Pages')) = Cardinality(Counted(m_Pages)) - 1
    BY <1>1, <1>7, FS_RemoveElement
  <1>9. /\ IsFiniteSet(StoredEntities')
        /\ Cardinality(StoredEntities') = Cardinality(StoredEntities) - 1
    BY <1>1, <1>3, <1>4, FS_RemoveElement
  <1> QED BY <1>1, <1>8, <1>9

-----------------------------------------------------------------------------

(***************************************************************************)
(* The strengthening holds in every behaviour.                             *)
(***************************************************************************)
THEOREM Invariance == Spec => []IInv
PROOF
  BY InitIInv, NextIInv, PTL DEF Spec

(***************************************************************************)
(* No sequence of SetComponent and RemoveComponent makes a page access     *)
(* leave the page: cells point inside it and it is never over-filled, also *)
(* after RemoveComponent has written cells the wrong way round.            *)
(***************************************************************************)
THEOREM TypeCorrectness == Spec => []TypeOK
PROOF
  <1>1. IInv => TypeOK
    BY DEF IInv
  <1> QED BY Invariance, <1>1, PTL

(***************************************************************************)
(* A component read through an entity id was set for that id, whatever the *)
(* page capacity, the hash and the order of calls (GetComponent of         *)
(* ThSparseStructuredStorageBuffer.h).                                     *)
(***************************************************************************)
THEOREM ForeignDataNeverRead == Spec => []NoForeignData
PROOF
  BY Invariance, IInvImpliesNoForeignData, PTL

(***************************************************************************)
(* Until an entry is swapped, a page with a copy is bypassed or a copy is  *)
(* left behind, the storage answers for every entity as the map the client *)
(* expects, whatever the page capacity and however the hash collides.      *)
(***************************************************************************)
THEOREM MapUntilFault == Spec => []ExactUntilFault
PROOF
  <1>1. Init => ExactUntilFault
    BY DEF Init, Map!Init, ExactUntilFault, Contents, GetComponent, HasEntity, StorageHasEntity, Holding
  <1>2. IInv /\ ExactUntilFault /\ [Next]_vars => ExactUntilFault'
    <2> SUFFICES ASSUME IInv, ExactUntilFault, [Next]_vars PROVE ExactUntilFault'
      OBVIOUS
    <2>1. CASE Next
      BY <2>1, SetKeepsExact, RemoveKeepsExact DEF Next
    <2>2. CASE UNCHANGED vars
      BY <2>2 DEF vars, ExactUntilFault, Contents, GetComponent, HasEntity
    <2> QED BY <2>1, <2>2
  <1> QED BY Invariance, <1>1, <1>2, PTL DEF Spec

(***************************************************************************)
(* Until any fault, ComponentsCount is the number of entities that have    *)
(* the component.                                                          *)
(***************************************************************************)
THEOREM CountUntilFault == Spec => []CountExactUntilFault
PROOF
  <1>1. Init => CountInv
    <2> SUFFICES ASSUME Init PROVE CountInv
      OBVIOUS
    <2>1. StoredEntities = {} /\ Counted(m_Pages) = {}
      BY DEF Init, Map!Init, StoredEntities, Counted
    <2> QED BY <2>1, FS_EmptySet DEF CountInv
  <1>2. IInv /\ ExactUntilFault /\ CountInv /\ [Next]_vars => CountInv'
    <2> SUFFICES ASSUME IInv, ExactUntilFault, CountInv, [Next]_vars PROVE CountInv'
      OBVIOUS
    <2>1. CASE Next
      BY <2>1, SetKeepsCount, RemoveKeepsCount DEF Next
    <2>2. CASE UNCHANGED vars
      BY <2>2 DEF vars, CountInv, StoredEntities
    <2> QED BY <2>1, <2>2
  <1>3. CountInv => CountExactUntilFault
    BY DEF CountInv, CountExactUntilFault, ComponentsCount
  <1> QED BY Invariance, MapUntilFault, <1>1, <1>2, <1>3, PTL DEF Spec

-----------------------------------------------------------------------------

(***************************************************************************)
(* SetComponent always finds or makes room: the entity has the component   *)
(* afterwards.                                                             *)
(***************************************************************************)
THEOREM SetAlwaysFound == Spec => SetIsFound
PROOF
  <1> DEFINE P == \A e \in Entity : stored'[e] # stored[e] /\ stored'[e] # NoData => HasEntity(e)'
  <1>1. IInv /\ [Next]_vars => [P]_vars
    <2> SUFFICES ASSUME IInv, Next,
                        NEW e \in Entity, stored'[e] # stored[e], stored'[e] # NoData
                 PROVE  HasEntity(e)'
      OBVIOUS
    <2>1. Holding(m_Pages', e) # {}
      BY SetStep, SetHolding
    <2> QED BY <2>1 DEF HasEntity, StorageHasEntity
  <1> HIDE DEF P
  <1>2. Spec => [][P]_vars
    BY <1>1, Invariance, PTL DEF Spec
  <1> QED BY <1>2 DEF P, SetIsFound

(***************************************************************************)
(* SetComponent disturbs no other entity, in any state removals have left  *)
(* the cells in.                                                           *)
(***************************************************************************)
THEOREM SetAlwaysLocal == Spec => SetIsLocal
PROOF
  <1> DEFINE P == \A e \in Entity :
                    stored'[e] # stored[e] /\ stored'[e] # NoData =>
                      \A x \in Entity \ {e} : GetComponent(x)' = GetComponent(x)
  <1>1. IInv /\ [Next]_vars => [P]_vars
    <2> SUFFICES ASSUME IInv, Next,
                        NEW e \in Entity, stored'[e] # stored[e], stored'[e] # NoData,
                        NEW x \in Entity \ {e}
                 PROVE  GetComponent(x)' = GetComponent(x)
      OBVIOUS
    <2>1. PICK d \in DataOf(e) : SetComponent(e, d)
      BY SetStep
    <2>2. /\ Holding(m_Pages', x) = Holding(m_Pages, x)
          /\ \A p \in Holding(m_Pages, x) :
               PageGetComponent(m_Pages'[p], x) = PageGetComponent(m_Pages[p], x)
      BY <2>1, SetHolding
    <2> QED BY <2>2, SameAnswersSameComponent
  <1> HIDE DEF P
  <1>2. Spec => [][P]_vars
    BY <1>1, Invariance, PTL DEF Spec
  <1> QED BY <1>2 DEF P, SetIsLocal

(***************************************************************************)
(* An entity with a single copy is not found after RemoveComponent, even   *)
(* though the removed entity's cell is linked elsewhere.                   *)
(***************************************************************************)
THEOREM RemovedAlwaysGone == Spec => RemovedIsGone
PROOF
  <1> DEFINE P == \A e \in Entity :
                    stored'[e] # stored[e] /\ stored'[e] = NoData
                    /\ Cardinality(Holding(m_Pages, e)) = 1 => ~ HasEntity(e)'
  <1>1. IInv /\ [Next]_vars => [P]_vars
    <2> SUFFICES ASSUME IInv, Next,
                        NEW e \in Entity, stored'[e] # stored[e], stored'[e] = NoData,
                        Cardinality(Holding(m_Pages, e)) = 1
                 PROVE  ~ HasEntity(e)'
      OBVIOUS
    <2> DEFINE p == Max(Removing(m_Pages, e))
    <2>1. p \in Holding(m_Pages, e) /\ Holding(m_Pages', e) = Holding(m_Pages, e) \ {p}
      BY RemoveStep, RemoveHolding
    <2>2. IsFiniteSet(Holding(m_Pages, e))
      <3>1. Len(m_Pages) \in Nat /\ Holding(m_Pages, e) \subseteq 1 .. Len(m_Pages)
        BY DEF IInv, TypeOK, Holding
      <3>2. IsFiniteSet(1 .. Len(m_Pages))
        BY <3>1, FS_Interval
      <3> QED BY <3>1, <3>2, FS_Subset
    <2>3. \E q : Holding(m_Pages, e) = {q}
      BY <2>2, FS_Singleton
    <2> HIDE DEF p
    <2>4. Holding(m_Pages', e) = {}
      BY <2>1, <2>3
    <2> QED BY <2>4 DEF HasEntity, StorageHasEntity
  <1> HIDE DEF P
  <1>2. Spec => [][P]_vars
    BY <1>1, Invariance, PTL DEF Spec
  <1> QED BY <1>2 DEF P, RemovedIsGone

=============================================================================
