--------------------------- MODULE SparseStorage ---------------------------
(***************************************************************************)
(* ThSparseStructuredStorage: the components of one type, as a growing     *)
(* sequence of pages.  Every operation walks the pages from the last to    *)
(* the first and stops at the first page that answers true.                *)
(***************************************************************************)
EXTENDS SparseStorageBuffer, Sequences, FiniteSetsExt

Holding(pages, e)   == {p \in DOMAIN pages : PageHasEntity(pages[p], e)}
Accepting(pages, e) == {p \in DOMAIN pages : PageAccepts(pages[p], e)}
Removing(pages, e)  == {p \in DOMAIN pages : PageRemoves(pages[p], e)}

StorageHasEntity(pages, e) == Holding(pages, e) # {}

(* Mutant: the oldest copy is found. *)
StorageGetOldest(pages, e) ==
  PageGetComponent(pages[CHOOSE p \in Holding(pages, e) : \A q \in Holding(pages, e) : p <= q], e)

(* The component GetComponent copies out, when StorageHasEntity(pages, e). *)
StorageGetComponent(pages, e) == PageGetComponent(pages[Max(Holding(pages, e))], e)

(* The page SetComponent writes: the first from the last that accepts, or a new one. *)
TargetPage(pages, e) ==
  IF Accepting(pages, e) # {} THEN Max(Accepting(pages, e)) ELSE Len(pages) + 1

StorageSetComponent(pages, e, d) ==
  IF TargetPage(pages, e) \in DOMAIN pages
  THEN [pages EXCEPT ![TargetPage(pages, e)] = PageSetComponent(@, e, d)]
  ELSE Append(pages, PageSetComponent(NewPage, e, d))

(* RemoveComponent answers Removing(pages, e) # {}. *)
StorageRemoveComponent(pages, e) ==
  IF Removing(pages, e) # {}
  THEN [pages EXCEPT ![Max(Removing(pages, e))] = PageRemoveComponent(@, e)]
  ELSE pages

(* The positions of all pages that count, m_Size on each: as many as the   *)
(* sum of m_Size over the pages.                                           *)
Counted(pages) == {at \in (DOMAIN pages) \X Cell : at[2] < pages[at[1]].size}

ComponentsCount(pages) == Cardinality(Counted(pages))

=============================================================================
