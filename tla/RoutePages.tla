----------------------------- MODULE RoutePages -----------------------------
(***************************************************************************)
(* internal/routepages: an immutable map from route IDs to values, cut     *)
(* into pages that successive versions share.  Pages live in a heap, a     *)
(* sequence of pages that only grows, and a version is a function from     *)
(* page numbers to heap addresses, with Nil for a page that was never      *)
(* allocated: what is shared and what is copied is visible.                *)
(***************************************************************************)
EXTENDS Naturals, Sequences, FiniteSets

CONSTANTS
    PageSize,   \* 256 in the code
    Zero        \* the zero value of V
ASSUME PageSizeAssumption == PageSize \in Nat \ {0}

Nil == 0
EmptyPage == [slot \in 0 .. PageSize - 1 |-> Zero]
PageOf(id) == id \div PageSize
SlotOf(id) == id % PageSize

\* Get: the two-level index; ids are live in the version, so the page is there.
Get(heap, pages, id) == heap[pages[PageOf(id)]][SlotOf(id)]

\* The pages that a set of ids lies in, and the address that the k-th page
\* allocated by a call gets.
Touched(ids) == {PageOf(id) : id \in ids}
Fresh(heap, touched, page) ==
    Len(heap) + 1 + Cardinality({q \in touched : q < page})

\* The heap after the call: one new page per touched page, holding what base
\* holds in that page overwritten by the updates.
Allocated(heap, updates, base) ==
    LET touched == Touched(DOMAIN updates)
        PageAt(k) == CHOOSE page \in touched : Fresh(<<>>, touched, page) = k
        Written(page) ==
            [slot \in 0 .. PageSize - 1 |->
                LET id == page * PageSize + slot
                IN  IF id \in DOMAIN updates THEN updates[id] ELSE base[page][slot]]
    IN  heap \o [k \in 1 .. Cardinality(touched) |-> Written(PageAt(k))]

\* New: pages up to maxID, allocated only where a value lies.
NewPages(heap, values, maxID) ==
    LET touched == Touched(DOMAIN values)
        blank == [page \in touched |-> EmptyPage]
    IN  [heap  |-> Allocated(heap, values, blank),
         pages |-> [page \in 0 .. PageOf(maxID) |->
                        IF page \in touched THEN Fresh(heap, touched, page) ELSE Nil]]

\* (Faulty variant: the pages are written in place.)
WithInPlace(heap, old, updates, maxID) ==
    [heap |-> [address \in DOMAIN heap |->
                  [slot \in 0 .. PageSize - 1 |->
                      LET here == {id \in DOMAIN updates :
                                      SlotOf(id) = slot /\ old[PageOf(id)] = address}
                      IN  IF here = {} THEN heap[address][slot]
                          ELSE updates[CHOOSE id \in here : TRUE]]],
     pages |-> old]

\* With: the page pointers are copied, each page that an update touches is
\* cloned once, and the others stay shared with the old version.
With(heap, old, updates, maxID) ==
    LET touched == Touched(DOMAIN updates)
        OldPointer(page) == IF page \in DOMAIN old THEN old[page] ELSE Nil
        cloned == [page \in touched |->
            IF OldPointer(page) = Nil THEN EmptyPage ELSE heap[OldPointer(page)]]
    IN  [heap  |-> Allocated(heap, updates, cloned),
         pages |-> [page \in 0 .. PageOf(maxID) |->
                        IF page \in touched
                        THEN Fresh(heap, touched, page)
                        ELSE OldPointer(page)]]
=============================================================================
