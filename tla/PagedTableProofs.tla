-------------------------- MODULE PagedTableProofs --------------------------
(***************************************************************************)
(* Proofs about PagedTable, for every set of prefixes, values, mutations   *)
(* and calls, every page size and every limit on the number of routes.     *)
(***************************************************************************)
EXTENDS PagedTable, WriterProtocolProofs, Foundations

-----------------------------------------------------------------------------
(* The pages of routepages: what New and With return, and what they leave. *)

\* The pages of a map to values of a set.
PagesOf(V) == [0 .. PageSize - 1 -> V]

\* A h that has only grown: every page is where it was, as it was.
Grown(old, new) == Len(old) <= Len(new) /\ \A i \in 1 .. Len(old) : new[i] = old[i]

-----------------------------------------------------------------------------
\* A route ID is its page and its slot.
LEMMA IDIsPageAndSlot ==
    ASSUME NEW id \in Nat
    PROVE  /\ PageOf(id) \in Nat
           /\ SlotOf(id) \in 0 .. PageSize - 1
           /\ id = PageOf(id) * PageSize + SlotOf(id)
BY PageSizeAssumption, DivisionWithRemainder DEF PageOf, SlotOf

\* IDs that do not exceed another lie in no later page.
LEMMA PagesAreMonotone ==
    ASSUME NEW maxID \in Nat, NEW id \in 0 .. maxID
    PROVE  PageOf(id) \in 0 .. PageOf(maxID)
<1>1. id \in Nat /\ PageOf(id) \in Nat /\ PageOf(maxID) \in Nat
  BY IDIsPageAndSlot
<1>2. id \div PageSize <= maxID \div PageSize
  BY <1>1, PageSizeAssumption
<1> QED BY <1>1, <1>2 DEF PageOf

\* The pages touched by a finite set of IDs.
LEMMA TouchedIsFinite ==
    ASSUME NEW ids \in SUBSET Nat, IsFiniteSet(ids)
    PROVE  /\ IsFiniteSet(Touched(ids))
           /\ Touched(ids) \in SUBSET Nat
<1> DEFINE page == [id \in ids |-> PageOf(id)]
<1>1. page \in Surjection(ids, Touched(ids))
  BY DEF Surjection, Touched
<1>2. IsFiniteSet(Touched(ids))
  BY <1>1, FS_Surjection
<1>3. Touched(ids) \in SUBSET Nat
  BY IDIsPageAndSlot DEF Touched
<1> QED BY <1>2, <1>3

\* The pages that a call allocates get the addresses after the h, each its
\* own, and none is skipped.
LEMMA FreshAddresses ==
    ASSUME NEW h, Len(h) \in Nat,
           NEW touched \in SUBSET Nat, IsFiniteSet(touched)
    PROVE  /\ Cardinality(touched) \in Nat
           /\ \A page \in touched :
                  Fresh(h, touched, page) \in Len(h) + 1 .. Len(h) + Cardinality(touched)
           /\ \A page, other \in touched :
                  Fresh(h, touched, page) = Fresh(h, touched, other) => page = other
           /\ \A k \in 1 .. Cardinality(touched) :
                  \E page \in touched : Fresh(h, touched, page) = Len(h) + k
<1> DEFINE R == {pair \in touched \X touched : pair[1] < pair[2]}
<1>1. StrictOrder(R, touched)
  BY DEF StrictOrder
<1>2. ASSUME NEW page \in touched
      PROVE  Fresh(h, touched, page) = Len(h) + 1 + Preceding(R, touched, page)
  <2>1. {q \in touched : q < page} = {q \in touched : <<q, page>> \in R}
    OBVIOUS
  <2> QED BY <2>1 DEF Fresh, Preceding
<1> HIDE DEF R
<1>3. Cardinality(touched) \in Nat /\ Enumerates(R, touched)
  BY <1>1, BelowIsPosition
<1> USE DEF Enumerates
<1>4. ASSUME NEW page \in touched
      PROVE  Fresh(h, touched, page) \in Len(h) + 1 .. Len(h) + Cardinality(touched)
  BY <1>2, <1>3
<1>5. ASSUME NEW page \in touched, NEW other \in touched,
             Fresh(h, touched, page) = Fresh(h, touched, other)
      PROVE  page = other
  <2>1. Preceding(R, touched, page) \in Nat /\ Preceding(R, touched, other) \in Nat
    BY <1>3
  <2>2. Preceding(R, touched, page) = Preceding(R, touched, other)
    BY <1>2, <1>3, <1>5, <2>1
  <2> QED BY <1>3, <2>2
<1>6. ASSUME NEW k \in 1 .. Cardinality(touched)
      PROVE  \E page \in touched : Fresh(h, touched, page) = Len(h) + k
  <2>1. k - 1 \in 0 .. Cardinality(touched) - 1
    BY <1>3
  <2>2. PICK page \in touched : Preceding(R, touched, page) = k - 1
    BY <1>3, <2>1
  <2>3. Fresh(h, touched, page) = Len(h) + k
    BY <1>2, <1>3, <2>2
  <2> QED BY <2>3
<1> QED BY <1>3, <1>4, <1>5, <1>6

-----------------------------------------------------------------------------
\* The page allocated for a touched page of the map holds the updates over what
\* base holds there.
WritesPages(h, updates, base) ==
    \A page \in Touched(DOMAIN updates) :
        LET address == Fresh(h, Touched(DOMAIN updates), page)
            new == Allocated(h, updates, base)
        IN  /\ address \in 1 .. Len(new)
            /\ \A slot \in 0 .. PageSize - 1 :
                  new[address][slot] =
                      IF page * PageSize + slot \in DOMAIN updates
                      THEN updates[page * PageSize + slot] ELSE base[page][slot]

\* Allocated leaves every existing page alone and writes the touched ones.
LEMMA AllocatedPages ==
    ASSUME NEW h \in Seq(PagesOf(Value)),
           NEW updates, updates \in [DOMAIN updates -> Value],
           DOMAIN updates \in SUBSET Nat, IsFiniteSet(DOMAIN updates),
           NEW base \in [Touched(DOMAIN updates) -> PagesOf(Value)]
    PROVE  /\ Allocated(h, updates, base) \in Seq(PagesOf(Value))
           /\ Grown(h, Allocated(h, updates, base))
           /\ WritesPages(h, updates, base)
<1> DEFINE touched == Touched(DOMAIN updates)
           n == Cardinality(touched)
           PageAt(k) == CHOOSE page \in touched : Fresh(<<>>, touched, page) = k
           Filled(page) ==
               [slot \in 0 .. PageSize - 1 |->
                   IF page * PageSize + slot \in DOMAIN updates
                   THEN updates[page * PageSize + slot] ELSE base[page][slot]]
           new == [k \in 1 .. n |-> Filled(PageAt(k))]
<1>1. touched \in SUBSET Nat /\ IsFiniteSet(touched)
  BY TouchedIsFinite
<1>2. Allocated(h, updates, base) = h \o new
  BY DEF Allocated
<1>3. Len(h) \in Nat /\ Len(<<>>) = 0
  BY LenProperties
<1> HIDE DEF touched
<1>4. /\ n \in Nat
      /\ \A page \in touched : Fresh(<<>>, touched, page) \in 1 .. n
      /\ \A page, other \in touched :
             Fresh(<<>>, touched, page) = Fresh(<<>>, touched, other) => page = other
      /\ \A k \in 1 .. n : \E page \in touched : Fresh(<<>>, touched, page) = k
  <2>1. /\ n \in Nat
        /\ \A page \in touched : Fresh(<<>>, touched, page) \in Len(<<>>) + 1 .. Len(<<>>) + n
        /\ \A page, other \in touched :
               Fresh(<<>>, touched, page) = Fresh(<<>>, touched, other) => page = other
        /\ \A k \in 1 .. n : \E page \in touched : Fresh(<<>>, touched, page) = Len(<<>>) + k
    BY <1>1, <1>3, FreshAddresses
  <2> QED BY <1>3, <2>1
<1>5. ASSUME NEW page \in touched
      PROVE  /\ Fresh(<<>>, touched, page) \in 1 .. n
             /\ PageAt(Fresh(<<>>, touched, page)) = page
             /\ Fresh(h, touched, page) = Len(h) + Fresh(<<>>, touched, page)
  <2>1. /\ PageAt(Fresh(<<>>, touched, page)) \in touched
        /\ Fresh(<<>>, touched, PageAt(Fresh(<<>>, touched, page))) = Fresh(<<>>, touched, page)
    OBVIOUS
  <2>2. PageAt(Fresh(<<>>, touched, page)) = page
    BY <2>1, <1>4
  <2>3. Cardinality({q \in touched : q < page}) \in Nat
    <3>1. {q \in touched : q < page} \in SUBSET touched
      OBVIOUS
    <3> QED BY <1>1, <3>1, FS_Subset, FS_CardinalityType
  <2>4. Fresh(h, touched, page) = Len(h) + Fresh(<<>>, touched, page)
    BY <1>3, <2>3 DEF Fresh
  <2> QED BY <1>4, <2>2, <2>4
<1>6. ASSUME NEW page \in touched
      PROVE  Filled(page) \in PagesOf(Value)
  BY DEF PagesOf, touched
<1>7. ASSUME NEW k \in 1 .. n
      PROVE  PageAt(k) \in touched
  <2>1. PICK page \in touched : Fresh(<<>>, touched, page) = k
    BY <1>4
  <2> QED BY <2>1, <1>5
<1>8. new \in Seq(PagesOf(Value)) /\ Len(new) = n
  <2> HIDE DEF PageAt, Filled
  <2>1. \A k \in 1 .. n : Filled(PageAt(k)) \in PagesOf(Value)
    BY <1>6, <1>7
  <2> QED BY <1>4, <2>1
<1> HIDE DEF new
<1>9. /\ h \o new \in Seq(PagesOf(Value))
      /\ Len(h \o new) = Len(h) + n
      /\ \A i \in 1 .. Len(h) : (h \o new)[i] = h[i]
      /\ \A k \in 1 .. n : (h \o new)[Len(h) + k] = new[k]
  <2>1. h \o new \in Seq(PagesOf(Value)) /\ Len(h \o new) = Len(h) + n
    BY <1>8, Concatenated
  <2>2. \A i \in 1 .. Len(h) : (h \o new)[i] = h[i]
    BY <1>8, Concatenated
  <2>3. \A k \in 1 .. Len(new) : (h \o new)[Len(h) + k] = new[k]
    BY <1>8, Concatenated
  <2> QED BY <1>8, <2>1, <2>2, <2>3
<1>10. Grown(h, h \o new)
  BY <1>3, <1>4, <1>9 DEF Grown
<1>11. ASSUME NEW page \in touched
       PROVE  /\ Fresh(h, touched, page) \in 1 .. Len(h \o new)
              /\ \A slot \in 0 .. PageSize - 1 :
                    (h \o new)[Fresh(h, touched, page)][slot] =
                        IF page * PageSize + slot \in DOMAIN updates
                        THEN updates[page * PageSize + slot] ELSE base[page][slot]
  <2>1. Fresh(h, touched, page) \in 1 .. Len(h \o new)
    BY <1>3, <1>4, <1>5, <1>9
  <2>2. (h \o new)[Fresh(h, touched, page)] = new[Fresh(<<>>, touched, page)]
    BY <1>5, <1>9
  <2>3. new[Fresh(<<>>, touched, page)] = Filled(page)
    BY <1>5 DEF new
  <2> QED BY <2>1, <2>2, <2>3
<1> QED BY <1>2, <1>9, <1>10, <1>11 DEF touched, WritesPages

-----------------------------------------------------------------------------
\* New: every ID of the values given can be looked up and has its value, and
\* no page that exists is touched.
LEMMA NewPagesHoldValues ==
    ASSUME NEW h \in Seq(PagesOf(Value)), NEW maxID \in Nat,
           NEW values \in [1 .. maxID -> Value], Zero \in Value
    PROVE  LET new == NewPages(h, values, maxID)
           IN  /\ new.heap \in Seq(PagesOf(Value))
               /\ Grown(h, new.heap)
               /\ new.pages \in [0 .. PageOf(maxID) -> 0 .. Len(new.heap)]
               /\ \A id \in 1 .. maxID :
                     /\ new.pages[PageOf(id)] # Nil
                     /\ Get(new.heap, new.pages, id) = values[id]
<1> DEFINE touched == Touched(DOMAIN values)
           blank == [page \in touched |-> EmptyPage]
           heap2 == Allocated(h, values, blank)
           pages == [page \in 0 .. PageOf(maxID) |->
                        IF page \in touched THEN Fresh(h, touched, page) ELSE Nil]
<1>1. /\ DOMAIN values = 1 .. maxID
      /\ values \in [DOMAIN values -> Value]
      /\ DOMAIN values \in SUBSET Nat
      /\ IsFiniteSet(DOMAIN values)
  BY FS_Interval
<1>2. blank \in [touched -> PagesOf(Value)]
  BY DEF EmptyPage, PagesOf
<1>3. /\ NewPages(h, values, maxID).heap = heap2
      /\ NewPages(h, values, maxID).pages = pages
  BY DEF NewPages
<1>4. /\ heap2 \in Seq(PagesOf(Value))
      /\ Grown(h, heap2)
  BY <1>1, <1>2, AllocatedPages
<1>5. \A page \in touched :
         LET address == Fresh(h, touched, page)
         IN  /\ address \in 1 .. Len(heap2)
             /\ \A slot \in 0 .. PageSize - 1 :
                   heap2[address][slot] =
                      IF page * PageSize + slot \in DOMAIN values
                      THEN values[page * PageSize + slot] ELSE blank[page][slot]
  <2>1. WritesPages(h, values, blank)
    BY <1>1, <1>2, AllocatedPages
  <2> QED BY <2>1 DEF WritesPages
<1> HIDE DEF heap2, touched, blank
<1>6. Len(heap2) \in Nat
  BY <1>4, LenProperties
<1>7. pages \in [0 .. PageOf(maxID) -> 0 .. Len(heap2)]
  BY <1>5, <1>6 DEF Nil
<1>8. ASSUME NEW id \in 1 .. maxID
      PROVE  pages[PageOf(id)] # Nil /\ Get(heap2, pages, id) = values[id]
  <2>1. /\ PageOf(id) \in touched
        /\ SlotOf(id) \in 0 .. PageSize - 1
        /\ PageOf(id) * PageSize + SlotOf(id) = id
    BY <1>1, IDIsPageAndSlot DEF touched, Touched
  <2>2. PageOf(id) \in 0 .. PageOf(maxID)
    BY PagesAreMonotone
  <2>3. pages[PageOf(id)] = Fresh(h, touched, PageOf(id))
    BY <2>1, <2>2
  <2>4. heap2[Fresh(h, touched, PageOf(id))][SlotOf(id)] = values[id]
    BY <1>1, <1>5, <2>1
  <2> QED BY <1>5, <2>1, <2>3, <2>4 DEF Get, Nil
<1> HIDE DEF pages
<1> QED BY <1>3, <1>4, <1>7, <1>8

\* What With makes of a version: the IDs that are updated have their new values,
\* all others what they had.
HoldsUpdates(values, h, old, maxID, ids, updates) ==
    LET new == With(h, old, updates, maxID)
    IN  /\ new.heap \in Seq(PagesOf(values))
        /\ Grown(h, new.heap)
        /\ new.pages \in [0 .. PageOf(maxID) -> 0 .. Len(new.heap)]
        /\ \A id \in 1 .. maxID :
              /\ new.pages[PageOf(id)] # Nil
              /\ Get(new.heap, new.pages, id) =
                    IF id \in ids THEN updates[id] ELSE Get(h, old, id)

\* With: the IDs that are updated have their new values, and no page that was in
\* the h is written.
LEMMA WithHoldsUpdates ==
    ASSUME NEW h \in Seq(PagesOf(Value)), NEW maxID \in Nat,
           NEW old \in [0 .. PageOf(maxID) -> 0 .. Len(h)],
           \A id \in 1 .. maxID : old[PageOf(id)] # Nil,
           NEW ids \in SUBSET (1 .. maxID), NEW updates \in [ids -> Value]
    PROVE  HoldsUpdates(Value, h, old, maxID, ids, updates)
<1> DEFINE touched == Touched(DOMAIN updates)
           OldPointer(page) == IF page \in DOMAIN old THEN old[page] ELSE Nil
           cloned == [page \in touched |->
               IF OldPointer(page) = Nil THEN EmptyPage ELSE h[OldPointer(page)]]
           heap2 == Allocated(h, updates, cloned)
           pages == [page \in 0 .. PageOf(maxID) |->
                        IF page \in touched THEN Fresh(h, touched, page)
                        ELSE OldPointer(page)]
<1>1. /\ DOMAIN updates = ids
      /\ updates \in [DOMAIN updates -> Value]
      /\ DOMAIN updates \in SUBSET Nat
      /\ IsFiniteSet(DOMAIN updates)
  <2>1. IsFiniteSet(1 .. maxID)
    BY FS_Interval
  <2>2. IsFiniteSet(ids)
    BY <2>1, FS_Subset
  <2> QED BY <2>2
<1>2. ASSUME NEW page \in touched
      PROVE  /\ page \in 0 .. PageOf(maxID)
             /\ old[page] \in 1 .. Len(h)
             /\ cloned[page] = h[old[page]]
             /\ cloned[page] \in PagesOf(Value)
  <2>1. PICK id \in 1 .. maxID : page = PageOf(id)
    BY <1>1 DEF Touched
  <2>2. page \in 0 .. PageOf(maxID)
    BY <2>1, PagesAreMonotone
  <2>3. old[page] \in 1 .. Len(h)
    BY <2>1, <2>2 DEF Nil
  <2>4. cloned[page] = h[old[page]]
    BY <2>2, <2>3 DEF Nil
  <2>5. h[old[page]] \in PagesOf(Value)
    BY <2>3, ElementOfSeq
  <2> QED BY <2>2, <2>3, <2>4, <2>5
<1>3. cloned \in [touched -> PagesOf(Value)]
  BY <1>2
<1>4. /\ With(h, old, updates, maxID).heap = heap2
      /\ With(h, old, updates, maxID).pages = pages
  BY DEF With
<1>5. /\ heap2 \in Seq(PagesOf(Value))
      /\ Grown(h, heap2)
  BY <1>1, <1>3, AllocatedPages
<1>6. \A page \in touched :
         LET address == Fresh(h, touched, page)
         IN  /\ address \in 1 .. Len(heap2)
             /\ \A slot \in 0 .. PageSize - 1 :
                   heap2[address][slot] =
                      IF page * PageSize + slot \in DOMAIN updates
                      THEN updates[page * PageSize + slot] ELSE cloned[page][slot]
  <2>1. WritesPages(h, updates, cloned)
    BY <1>1, <1>3, AllocatedPages
  <2> QED BY <2>1 DEF WritesPages
<1> HIDE DEF heap2, touched, cloned
<1>7. Len(heap2) \in Nat /\ Len(h) \in Nat /\ Len(h) <= Len(heap2)
  BY <1>5, LenProperties DEF Grown
<1>8. pages \in [0 .. PageOf(maxID) -> 0 .. Len(heap2)]
  BY <1>6, <1>7 DEF Nil
<1> HIDE DEF pages
<1>9. ASSUME NEW id \in 1 .. maxID
      PROVE  /\ pages[PageOf(id)] # Nil
             /\ Get(heap2, pages, id) =
                   IF id \in ids THEN updates[id] ELSE Get(h, old, id)
  <2>0. id \in Nat /\ id \in 0 .. maxID
    OBVIOUS
  <2>1. /\ SlotOf(id) \in 0 .. PageSize - 1
        /\ PageOf(id) * PageSize + SlotOf(id) = id
    BY <2>0, IDIsPageAndSlot
  <2>2. PageOf(id) \in 0 .. PageOf(maxID) /\ old[PageOf(id)] \in 1 .. Len(h)
    <3>1. PageOf(id) \in 0 .. PageOf(maxID)
      BY <2>0, PagesAreMonotone
    <3> QED BY <1>7, <3>1 DEF Nil
  <2>3. CASE PageOf(id) \in touched
    <3>1. pages[PageOf(id)] = Fresh(h, touched, PageOf(id))
      BY <2>2, <2>3 DEF pages
    <3>2. heap2[Fresh(h, touched, PageOf(id))][SlotOf(id)] =
              IF id \in ids THEN updates[id] ELSE cloned[PageOf(id)][SlotOf(id)]
      BY <1>1, <1>6, <2>1, <2>3
    <3>3. cloned[PageOf(id)] = h[old[PageOf(id)]]
      BY <1>2, <2>3
    <3>4. Fresh(h, touched, PageOf(id)) \in 1 .. Len(heap2)
      BY <1>6, <2>3
    <3> QED BY <3>1, <3>2, <3>3, <3>4 DEF Get, Nil
  <2>4. CASE PageOf(id) \notin touched
    <3>1. id \notin ids
      BY <1>1, <2>4 DEF touched, Touched
    <3>2. pages[PageOf(id)] = old[PageOf(id)]
      BY <2>2, <2>4 DEF pages
    <3>3. heap2[old[PageOf(id)]] = h[old[PageOf(id)]]
      BY <1>5, <2>2 DEF Grown
    <3> QED BY <2>2, <3>1, <3>2, <3>3 DEF Get, Nil
  <2> QED BY <2>3, <2>4
<1> QED BY <1>4, <1>5, <1>8, <1>9 DEF HoldsUpdates

-----------------------------------------------------------------------------
(* Applying mutations one by one, and coalescing them. *)

-----------------------------------------------------------------------------
(* Tables and generations. *)

\* Only mutations reach a batch.
LEMMA GatheredType ==
    ASSUME mutations \in [Request -> Seq(Mutation)], NEW requests \in Seq(Request)
    PROVE  Gathered(requests) \in Seq(Mutation)
<1> DEFINE asked == [i \in DOMAIN requests |-> mutations[requests[i]]]
<1>1. DOMAIN requests = 1 .. Len(requests) /\ Len(requests) \in Nat
  BY LenProperties
<1>2. asked \in Seq(Seq(Mutation))
  BY <1>1, IsASeq
<1> HIDE DEF asked
<1>3. FlattenSeq(asked) \in Seq(Mutation)
  BY <1>2, FlattenedType
<1> QED BY <1>3 DEF Gathered, asked

\* A table with mutations applied is a table.
LEMMA FinalIsTable ==
    ASSUME NEW all \in Seq(Mutation), NEW t, IsTable(t)
    PROVE  IsTable(Final(t, all, DOMAIN all))
<1> DEFINE places == DOMAIN all
           named == Named(all, places)
<1>1. places = 1 .. Len(all) /\ Len(all) \in Nat
  BY LenProperties
<1>2. \A i \in places : all[i] \in Mutation
  BY <1>1
<1>3. IsFiniteSet(places)
  <2> DEFINE n == Len(all)
  <2>1. n \in Int /\ 1 \in Int
    BY <1>1
  <2> HIDE DEF n, places
  <2>2. IsFiniteSet(1 .. n)
    BY <2>1, FS_Interval
  <2> QED BY <1>1, <2>2 DEF n
<1>4. IsFiniteSet(named) /\ named \subseteq Prefix
  <2> DEFINE prefix == [i \in places |-> all[i].prefix]
  <2>1. prefix \in Surjection(places, named)
    BY DEF Surjection, Named
  <2> HIDE DEF prefix, places, named
  <2>2. IsFiniteSet(named)
    BY <1>3, <2>1, FS_Surjection
  <2> QED BY <1>2, <2>2 DEF Named, Mutation, named
<1>5. IsFiniteSet(DOMAIN t \cup named)
  BY <1>4, FS_Union DEF IsTable
<1>6. ASSUME NEW p \in named
      PROVE  LastFor(all, places, p).value \in Value
  <2>1. \E i \in places : LastFor(all, places, p) = all[i] /\ all[i] \in Mutation
    BY LastForIsLast
  <2> QED BY <2>1 DEF Mutation
<1>7. DOMAIN Final(t, all, places) \in SUBSET (DOMAIN t \cup named)
  BY DEF Final
<1>8. IsFiniteSet(DOMAIN Final(t, all, places))
  BY <1>5, <1>7, FS_Subset
<1>9. DOMAIN Final(t, all, places) \subseteq Prefix
  BY <1>4, <1>7 DEF IsTable
<1>10. ASSUME NEW p \in DOMAIN Final(t, all, places)
       PROVE  Final(t, all, places)[p] \in Value
  <2>1. Final(t, all, places)[p] = IF p \in named THEN LastFor(all, places, p).value ELSE t[p]
    BY DEF Final
  <2>2. p \notin named => t[p] \in Value
    BY <1>7 DEF IsTable
  <2> QED BY <1>6, <2>1, <2>2
<1>11. Final(t, all, places) \in [DOMAIN Final(t, all, places) -> Value]
  BY <1>10 DEF Final
<1> QED BY <1>8, <1>9, <1>11 DEF IsTable

\* Every payload of a generation can be read.
LEMMA ContentIsTable ==
    ASSUME NEW h \in Seq(PagesOf(Value)), NEW g, WellFormed(h, g)
    PROVE  /\ IsTable(Content(h, g))
           /\ DOMAIN Content(h, g) = DOMAIN g.routes
<1>1. ASSUME NEW p \in DOMAIN g.routes
      PROVE  Get(h, g.pages, g.routes[p]) \in Value
  <2> DEFINE id == g.routes[p]
             size == Cardinality(DOMAIN g.routes)
  <2>1. size \in Nat
    BY FS_CardinalityType DEF WellFormed
  <2>2. id \in 1 .. size /\ id \in 0 .. size /\ id \in Nat
    BY <2>1 DEF WellFormed
  <2>3. PageOf(id) \in 0 .. PageOf(size) /\ SlotOf(id) \in 0 .. PageSize - 1
    <3> HIDE DEF id, size
    <3> QED BY <2>1, <2>2, PagesAreMonotone, IDIsPageAndSlot
  <2>4. g.pages[PageOf(id)] \in 0 .. Len(h) /\ g.pages[PageOf(id)] # 0
    BY <2>2, <2>3 DEF WellFormed, Nil
  <2>5. h[g.pages[PageOf(id)]] \in PagesOf(Value)
    BY <2>4
  <2> QED BY <2>3, <2>5 DEF Get, PagesOf
<1>2. DOMAIN Content(h, g) = DOMAIN g.routes
  BY DEF Content
<1>3. Content(h, g) \in [DOMAIN Content(h, g) -> Value]
  BY <1>1 DEF Content
<1> QED BY <1>2, <1>3 DEF IsTable, WellFormed

\* A generation stays what it is when pages are added to the heap.
LEMMA ContentStays ==
    ASSUME NEW h \in Seq(PagesOf(Value)), NEW h2 \in Seq(PagesOf(Value)), Grown(h, h2),
           NEW g, WellFormed(h, g)
    PROVE  WellFormed(h2, g) /\ Content(h2, g) = Content(h, g)
<1>1. Len(h) \in Nat /\ Len(h2) \in Nat /\ Len(h) <= Len(h2)
  BY LenProperties DEF Grown
<1>2. 0 .. Len(h) \subseteq 0 .. Len(h2)
  BY <1>1
<1>3. g.pages \in [0 .. PageOf(Cardinality(DOMAIN g.routes)) -> 0 .. Len(h2)]
  BY <1>2 DEF WellFormed
<1>4. WellFormed(h2, g)
  BY <1>3 DEF WellFormed
<1>5. ASSUME NEW p \in DOMAIN g.routes
      PROVE  Get(h2, g.pages, g.routes[p]) = Get(h, g.pages, g.routes[p])
  <2> DEFINE id == g.routes[p]
             size == Cardinality(DOMAIN g.routes)
  <2>1. size \in Nat
    BY FS_CardinalityType DEF WellFormed
  <2>2. id \in 1 .. size /\ id \in 0 .. size /\ id \in Nat
    BY <2>1 DEF WellFormed
  <2>3. PageOf(id) \in 0 .. PageOf(size)
    <3> HIDE DEF id, size
    <3> QED BY <2>1, <2>2, PagesAreMonotone
  <2>4. g.pages[PageOf(id)] \in 0 .. Len(h) /\ g.pages[PageOf(id)] # 0
    BY <2>2, <2>3 DEF WellFormed, Nil
  <2>5. g.pages[PageOf(id)] \in 1 .. Len(h)
    BY <1>1, <2>4
  <2>6. h2[g.pages[PageOf(id)]] = h[g.pages[PageOf(id)]]
    BY <2>5 DEF Grown
  <2> QED BY <2>6 DEF Get
<1>6. Content(h2, g) = Content(h, g)
  BY <1>5 DEF Content
<1> QED BY <1>4, <1>6

\* buildGeneration makes a generation that holds the table, on fresh pages.
LEMMA BuildHoldsTable ==
    ASSUME NEW h \in Seq(PagesOf(Value)), NEW cat, IsTable(cat)
    PROVE  LET built == buildGeneration(h, cat)
           IN  /\ built.heap \in Seq(PagesOf(Value))
               /\ Grown(h, built.heap)
               /\ WellFormed(built.heap, built.generation)
               /\ Content(built.heap, built.generation) = cat
<1> DEFINE prefixes == DOMAIN cat
           routes == [p \in prefixes |-> Rank(prefixes, p)]
           maxID == Cardinality(prefixes)
           values == [id \in 1 .. maxID |-> cat[CHOOSE p \in prefixes : routes[p] = id]]
           new == NewPages(h, values, maxID)
           generation == [index |-> BlockIndex(routes), routes |-> routes, pages |-> new.pages]
<1>1. maxID \in Nat /\ Ranked(prefixes)
  BY RanksAreDense DEF IsTable
<1>2. routes \in [prefixes -> 1 .. maxID] /\ IsInjective(routes)
  BY <1>1 DEF Ranked, IsInjective
<1>3. \A p \in prefixes : values[routes[p]] = cat[p]
  <2>1. ASSUME NEW p \in prefixes
        PROVE  values[routes[p]] = cat[p]
    <3>1. routes[p] \in 1 .. maxID
      BY <1>2
    <3>2. \A q \in prefixes : routes[q] = routes[p] => q = p
      BY <1>2 DEF IsInjective
    <3> HIDE DEF routes, maxID
    <3> QED BY <3>1, <3>2
  <2> QED BY <2>1
<1>4. values \in [1 .. maxID -> Value]
  <2>1. ASSUME NEW id \in 1 .. maxID
        PROVE  cat[CHOOSE p \in prefixes : routes[p] = id] \in Value
    <3>1. \E p \in prefixes : routes[p] = id
      BY <1>1 DEF Ranked
    <3> HIDE DEF routes, maxID
    <3> QED BY <3>1 DEF IsTable
  <2> HIDE DEF maxID, routes
  <2> QED BY <2>1
<1>5. /\ new.heap \in Seq(PagesOf(Value))
      /\ Grown(h, new.heap)
      /\ new.pages \in [0 .. PageOf(maxID) -> 0 .. Len(new.heap)]
      /\ \A id \in 1 .. maxID :
            /\ new.pages[PageOf(id)] # Nil
            /\ Get(new.heap, new.pages, id) = values[id]
  <2> HIDE DEF values, maxID
  <2> QED BY <1>1, <1>4, NewPagesHoldValues, TableAssumption DEF new
<1>6. buildGeneration(h, cat) = [heap |-> new.heap, generation |-> generation]
  BY DEF buildGeneration
<1> HIDE DEF new, values
<1>7. WellFormed(new.heap, generation)
  <2>1. DOMAIN routes = prefixes
    OBVIOUS
  <2> HIDE DEF routes, maxID
  <2> QED BY <1>2, <1>5, <2>1 DEF WellFormed, IsTable, maxID
<1>8. Content(new.heap, generation) = cat
  <2>1. \A p \in prefixes : Get(new.heap, new.pages, routes[p]) = cat[p]
    <3> HIDE DEF routes, maxID
    <3> QED BY <1>2, <1>3, <1>5
  <2>2. DOMAIN routes = prefixes
    OBVIOUS
  <2> HIDE DEF routes
  <2>3. Content(new.heap, generation) = [p \in prefixes |-> cat[p]]
    BY <2>1, <2>2 DEF Content
  <2> QED BY <2>3 DEF IsTable
<1> HIDE DEF generation
<1> QED BY <1>5, <1>6, <1>7, <1>8

\* The payload path makes a generation with the same prefixes and index, which
\* holds what was written and, for the rest, what current holds.
LEMMA RepayloadHoldsTable ==
    ASSUME heap \in Seq(PagesOf(Value)), WellFormed(heap, current),
           NEW requests, NEW names, Written(requests) \in [names -> Value],
           names \subseteq DOMAIN current.routes
    PROVE  LET new == repayload(requests)
           IN  /\ new.heap \in Seq(PagesOf(Value))
               /\ Grown(heap, new.heap)
               /\ WellFormed(new.heap, new.generation)
               /\ Content(new.heap, new.generation) =
                      Overwrite(Content(heap, current), Written(requests), {})
<1> DEFINE routes == current.routes
           size == Cardinality(DOMAIN routes)
           written == Written(requests)
           ids == {routes[p] : p \in names}
           updates == [id \in ids |-> written[CHOOSE p \in names : routes[p] = id]]
           new == With(heap, current.pages, updates, size)
           generation == [current EXCEPT !.pages = new.pages]
<1>1. /\ size \in Nat
      /\ routes \in [DOMAIN routes -> 1 .. size]
      /\ \A p, q \in DOMAIN routes : routes[p] = routes[q] => p = q
      /\ current.pages \in [0 .. PageOf(size) -> 0 .. Len(heap)]
      /\ \A id \in 1 .. size : current.pages[PageOf(id)] # Nil
  BY FS_CardinalityType DEF WellFormed, IsInjective
<1>2. ids \in SUBSET (1 .. size)
  BY <1>1
<1>3. \A p \in names : updates[routes[p]] = written[p]
  <2>1. ASSUME NEW p \in names
        PROVE  updates[routes[p]] = written[p]
    <3>1. routes[p] \in ids
      OBVIOUS
    <3>2. \A q \in names : routes[q] = routes[p] => q = p
      BY <1>1
    <3> HIDE DEF routes, ids, written
    <3> QED BY <3>1, <3>2
  <2> QED BY <2>1
<1>4. updates \in [ids -> Value]
  BY <1>3
<1>5. /\ new.heap \in Seq(PagesOf(Value))
      /\ Grown(heap, new.heap)
      /\ new.pages \in [0 .. PageOf(size) -> 0 .. Len(new.heap)]
      /\ \A id \in 1 .. size :
            /\ new.pages[PageOf(id)] # Nil
            /\ Get(new.heap, new.pages, id) =
                  IF id \in ids THEN updates[id] ELSE Get(heap, current.pages, id)
  <2> DEFINE old == current.pages
  <2>1. old \in [0 .. PageOf(size) -> 0 .. Len(heap)] /\ \A id \in 1 .. size : old[PageOf(id)] # Nil
    BY <1>1
  <2> HIDE DEF updates, ids, size, old, written, routes, generation
  <2>2. HoldsUpdates(Value, heap, old, size, ids, updates)
    <3> HIDE DEF new
    <3> QED BY <1>1, <1>2, <1>4, <2>1, WithHoldsUpdates
  <2> QED BY <2>2 DEF old, HoldsUpdates
<1>6. repayload(requests) = [heap |-> new.heap, generation |-> generation]
  <2>1. DOMAIN written = names
    OBVIOUS
  <2> QED BY <2>1 DEF repayload
<1> HIDE DEF new, updates
<1>7. /\ generation.routes = routes
      /\ generation.index = current.index
      /\ generation.pages = new.pages
      /\ generation = [index |-> current.index, routes |-> routes, pages |-> new.pages]
  BY DEF WellFormed
<1> HIDE DEF generation
<1>8. WellFormed(new.heap, generation)
  BY <1>1, <1>5, <1>7 DEF WellFormed
<1>9. Content(new.heap, generation) = Overwrite(Content(heap, current), written, {})
  <2>1. ASSUME NEW p \in DOMAIN routes
        PROVE  Get(new.heap, new.pages, routes[p]) =
                   IF p \in names THEN written[p] ELSE Get(heap, current.pages, routes[p])
    <3>1. routes[p] \in 1 .. size
      BY <1>1
    <3>2. routes[p] \in ids <=> p \in names
      BY <1>1
    <3> HIDE DEF routes, ids, written, size
    <3> QED BY <1>3, <1>5, <3>1, <3>2
  <2>2. DOMAIN written = names
    OBVIOUS
  <2>3. (DOMAIN routes \cup names) \ {} = DOMAIN routes
    OBVIOUS
  <2> HIDE DEF routes, written
  <2>4. Content(new.heap, generation) = [p \in DOMAIN routes |-> Get(new.heap, new.pages, routes[p])]
    BY <1>7 DEF Content
  <2>5. Content(heap, current) = [p \in DOMAIN routes |-> Get(heap, current.pages, routes[p])]
    BY DEF Content, routes
  <2> DEFINE before == Content(heap, current)
  <2>6. DOMAIN before = DOMAIN routes /\ \A p \in DOMAIN routes : before[p] = Get(heap, current.pages, routes[p])
    BY <2>5
  <2> HIDE DEF before
  <2>7. Overwrite(before, written, {}) =
            [p \in DOMAIN routes |-> IF p \in names THEN written[p] ELSE before[p]]
    BY <2>2, <2>3, <2>6 DEF Overwrite
  <2> QED BY <2>1, <2>4, <2>6, <2>7 DEF before
<1> QED BY <1>5, <1>6, <1>8, <1>9

-----------------------------------------------------------------------------
(* What a batch does to the table, on either path of publish. *)

\* splitribfib asks of each mutation at its place: when none adds or removes a
\* prefix there, none does in the published table either.
LEMMA PayloadDrain ==
    ASSUME NEW all \in Seq(Mutation), ~structuralInOrder(all), NEW i \in DOMAIN all
    PROVE  (all[i].prefix \in DOMAIN current.routes) = ~all[i].delete
<1> DEFINE places == DOMAIN all
           Live(q, n) ==
               IF q \in Named(all, 1 .. n - 1) THEN ~LastFor(all, 1 .. n - 1, q).delete
               ELSE q \in DOMAIN current.routes
           wrong == {n \in places : (all[n].prefix \in DOMAIN current.routes) = all[n].delete}
<1>1. places = 1 .. Len(all) /\ Len(all) \in Nat
  BY LenProperties
<1>2. \A n \in places : Live(all[n].prefix, n) # all[n].delete /\ all[n] \in Mutation
  BY <1>1 DEF structuralInOrder
<1>3. wrong = {}
  <2> SUFFICES ASSUME wrong # {} PROVE FALSE
    OBVIOUS
  <2>1. PICK n \in wrong : \A m \in wrong : n <= m
    <3>1. wrong \in SUBSET Nat
      BY <1>1
    <3> HIDE DEF wrong
    <3> QED BY <3>1, LeastElement
  <2> DEFINE q == all[n].prefix
  <2>2. Live(q, n) # all[n].delete /\ (q \in DOMAIN current.routes) = all[n].delete
    BY <1>2, <2>1
  <2>3. q \in Named(all, 1 .. n - 1)
    BY <2>2
  <2>4. 1 .. n - 1 \in SUBSET places
    BY <1>1, <2>1
  <2>5. PICK m \in 1 .. n - 1 : /\ LastFor(all, 1 .. n - 1, q) = all[m]
                                /\ all[m] \in Mutation
                                /\ all[m].prefix = q
    <3> HIDE DEF q
    <3> QED BY <2>3, <2>4, LastForIsLast
  <2>6. m \in places /\ ~(n <= m)
    BY <1>1, <2>1, <2>4, <2>5
  <2>7. m \notin wrong
    BY <2>1, <2>6
  <2>8. (q \in DOMAIN current.routes) # all[m].delete
    BY <2>5, <2>6, <2>7
  <2>9. Live(q, n) = ~all[m].delete
    BY <2>3, <2>5
  <2>10. all[m].delete \in BOOLEAN /\ all[n].delete \in BOOLEAN
    BY <1>2, <2>1, <2>5 DEF Mutation
  <2> QED BY <2>2, <2>8, <2>9, <2>10
<1>4. (all[i].prefix \in DOMAIN current.routes) # all[i].delete /\ all[i].delete \in BOOLEAN
  BY <1>2, <1>3 DEF Mutation
<1> QED BY <1>4

\* A batch that is not structural neither adds a prefix nor removes one: the test
\* in order and the test after coalescing agree on this.
LEMMA PayloadLast ==
    ASSUME mutations \in [Request -> Seq(Mutation)], NEW requests \in Seq(Request),
           ~structural(requests), NEW p \in Named(Gathered(requests), DOMAIN Gathered(requests))
    PROVE  LET all == Gathered(requests)
           IN  (p \in DOMAIN current.routes) = ~LastFor(all, DOMAIN all, p).delete
<1> DEFINE all == Gathered(requests)
           places == DOMAIN all
<1>1. all \in Seq(Mutation)
  BY GatheredType
<1> HIDE DEF all
<1>2. PICK i \in places : LastFor(all, places, p) = all[i] /\ all[i] \in Mutation /\ all[i].prefix = p
  BY <1>1, LastForIsLast DEF all
<1>3. CASE loop = "drain"
  <2>1. ~structuralInOrder(all)
    BY <1>3 DEF structural, all
  <2>2. (all[i].prefix \in DOMAIN current.routes) = ~all[i].delete
    BY <1>1, <2>1, PayloadDrain
  <2> QED BY <1>2, <2>2 DEF all
<1>4. CASE loop # "drain"
  <2>1. Coalesced(requests) = [q \in Named(all, places) |-> LastFor(all, places, q)]
    BY DEF Coalesced, LastOnes, all
  <2>2. ~structuralCoalesced(Coalesced(requests))
    BY <1>4 DEF structural
  <2>3. p \in Named(all, places)
    BY DEF all
  <2>4. (p \in DOMAIN current.routes) # LastFor(all, places, p).delete
    BY <2>1, <2>2, <2>3 DEF structuralCoalesced
  <2>5. LastFor(all, places, p).delete \in BOOLEAN
    BY <1>2 DEF Mutation
  <2> QED BY <2>4, <2>5 DEF all
<1> QED BY <1>3, <1>4

\* What such a batch writes are values of prefixes that have a route, and writing
\* them amounts to applying the mutations in order.
LEMMA PayloadIsFinal ==
    ASSUME mutations \in [Request -> Seq(Mutation)], NEW requests \in Seq(Request),
           ~structural(requests)
    PROVE  /\ Written(requests) \in [DOMAIN Written(requests) -> Value]
           /\ DOMAIN Written(requests) \subseteq DOMAIN current.routes
           /\ \A t : DOMAIN t = DOMAIN current.routes =>
                  Overwrite(t, Written(requests), {}) =
                      Final(t, Gathered(requests), DOMAIN Gathered(requests))
<1> DEFINE all == Gathered(requests)
           places == DOMAIN all
           adds == {i \in places : ~all[i].delete}
           named == Named(all, places)
           written == Written(requests)
<1>1. all \in Seq(Mutation)
  BY GatheredType
<1>2. \A p \in named : (p \in DOMAIN current.routes) = ~LastFor(all, places, p).delete
  BY PayloadLast
<1>3. \A i \in places : all[i] \in Mutation
  <2> HIDE DEF all
  <2> QED BY <1>1
<1> HIDE DEF all
<1>4. \A p \in named : LastFor(all, places, p) \in Mutation
  <2>1. ASSUME NEW p \in named
        PROVE  LastFor(all, places, p) \in Mutation
    <3>1. \E i \in places : LastFor(all, places, p) = all[i] /\ all[i] \in Mutation
      BY <1>1, LastForIsLast
    <3> QED BY <3>1
  <2> QED BY <2>1
<1>5. /\ DOMAIN written = {p \in named : ~LastFor(all, places, p).delete}
      /\ \A p \in DOMAIN written : written[p] = LastFor(all, places, p).value
      /\ written = [p \in DOMAIN written |-> written[p]]
  <2>1. CASE loop # "drain"
    <3> DEFINE changes == Coalesced(requests)
    <3>1. DOMAIN changes = named /\ \A p \in named : changes[p] = LastFor(all, places, p)
      BY DEF Coalesced, LastOnes, all
    <3>2. written = [p \in {q \in DOMAIN changes : ~changes[q].delete} |-> changes[p].value]
      BY <2>1 DEF Written
    <3> HIDE DEF changes, written
    <3> QED BY <3>1, <3>2
  <2>2. CASE loop = "drain"
    <3>1. written = [p \in Named(all, adds) |-> LastFor(all, adds, p).value]
      BY <2>2 DEF Written, all
    <3>2. ASSUME NEW p \in named, ~LastFor(all, places, p).delete
          PROVE  p \in Named(all, adds) /\ LastFor(all, adds, p) = LastFor(all, places, p)
      <4>1. PICK i \in places : /\ LastFor(all, places, p) = all[i]
                                /\ all[i].prefix = p
                                /\ \A j \in places : all[j].prefix = p => j <= i
        BY <1>1, LastForIsLast
      <4>2. i \in adds
        BY <3>2, <4>1
      <4>3. LastFor(all, adds, all[i].prefix) = all[i]
        BY <1>1, <4>1, <4>2, LastForUnique
      <4> QED BY <4>1, <4>2, <4>3 DEF Named
    <3>3. ASSUME NEW p \in Named(all, adds)
          PROVE  p \in named /\ ~LastFor(all, places, p).delete
      <4>1. PICK i \in adds : all[i].prefix = p
        BY <3>3 DEF Named
      <4>2. p \in named
        BY <4>1 DEF Named
      <4>3. p \in DOMAIN current.routes
        <5>1. ~structuralInOrder(all)
          BY <2>2 DEF structural, all
        <5>2. (all[i].prefix \in DOMAIN current.routes) = ~all[i].delete
          BY <1>1, <4>1, <5>1, PayloadDrain
        <5> QED BY <4>1, <5>2
      <4> QED BY <1>2, <1>4, <4>2, <4>3 DEF Mutation
    <3>4. Named(all, adds) = {p \in named : ~LastFor(all, places, p).delete}
      BY <3>2, <3>3 DEF Named
    <3> HIDE DEF adds, named, places, written
    <3> QED BY <3>1, <3>2, <3>4
  <2> QED BY <2>1, <2>2
<1> HIDE DEF written
<1>6. DOMAIN written \subseteq DOMAIN current.routes
  BY <1>2, <1>5
<1>7. written \in [DOMAIN written -> Value]
  BY <1>4, <1>5 DEF Mutation
<1>8. ASSUME NEW t, DOMAIN t = DOMAIN current.routes
      PROVE  Overwrite(t, written, {}) = Final(t, all, places)
  <2> DEFINE left == {q \in DOMAIN t \cup named : q \in named => ~LastFor(all, places, q).delete}
  <2>1. left = DOMAIN t
    BY <1>2, <1>4, <1>8 DEF Mutation
  <2>2. (DOMAIN t \cup DOMAIN written) \ {} = DOMAIN t
    BY <1>6, <1>8
  <2>3. \A p \in DOMAIN t : p \in DOMAIN written <=> p \in named
    BY <1>2, <1>5, <1>8
  <2>4. Overwrite(t, written, {}) = [p \in DOMAIN t |-> IF p \in DOMAIN written THEN written[p] ELSE t[p]]
    BY <2>2 DEF Overwrite
  <2>5. Final(t, all, places) = [p \in left |-> IF p \in named THEN LastFor(all, places, p).value ELSE t[p]]
    BY DEF Final
  <2> HIDE DEF left, named, places
  <2> QED BY <1>5, <2>1, <2>3, <2>4, <2>5
<1> QED BY <1>6, <1>7, <1>8 DEF all, written

-----------------------------------------------------------------------------
(* The control: a table follows WriterProtocol. *)

\* Every step of a table is a step of the protocol, or leaves it alone.
LEMMA TableStepsAreProtocolSteps == TableNext => [Next]_protocolVars
<1>1. ASSUME NEW r \in Request, Submit(r) PROVE Next
  BY <1>1 DEF Submit, Next
<1>2. ASSUME NEW c \in Closer, Close(c) PROVE Next
  BY <1>2 DEF Close, Next
<1>3. CASE Manage
  BY <1>3 DEF Manage, Next, Writer
<1>4. CASE PublishStructural
  <2> DEFINE built == Buildable(Wanted(batch))
  <2>1. Publish(built)
    BY <1>4 DEF PublishStructural
  <2>2. built \in BOOLEAN
    BY DEF Buildable
  <2> HIDE DEF built
  <2> QED BY <2>1, <2>2 DEF Next, Writer
<1>5. CASE PublishPayload
  BY <1>5 DEF PublishPayload, Next, Writer
<1>6. CASE CountStats
  BY <1>6 DEF CountStats, Next, Writer
<1>7. ASSUME NEW x \in Reader, Lookup(x) PROVE UNCHANGED protocolVars
  BY <1>7 DEF Lookup, Load, AskIndex, GetPayload, Return
<1> QED BY <1>1, <1>2, <1>3, <1>4, <1>5, <1>6, <1>7 DEF TableNext

\* A table keeps the protocol's inductive invariant: nothing that is proved of
\* Submit, Close and the writer depends on the data.
LEMMA TableProtocol == TableSpec => []Inv
<1>1. Init => Inv
  BY InitInv DEF Init
<1>2. Inv /\ [TableNext]_vars => Inv'
  <2>1. [TableNext]_vars => [Next]_protocolVars
    BY TableStepsAreProtocolSteps DEF vars, protocolVars, callVars, writerVars
  <2> QED BY <2>1, StepInv
<1> QED BY <1>1, <1>2, PTL DEF TableSpec

-----------------------------------------------------------------------------
(* The data. *)

\* New publishes what it was given.
LEMMA InitTable == Init => TableInv
<1> SUFFICES ASSUME Init PROVE TableInv
  OBVIOUS
<1>1. PICK given \in Catalogs :
         LET built == buildGeneration(<<>>, given)
         IN  /\ catalog = IF loop = "drain" THEN <<>> ELSE given
             /\ gens = <<built.generation>>
             /\ heap = built.heap
  BY DEF Init
<1> DEFINE built == buildGeneration(<<>>, given)
<1>2. /\ heap \in Seq(PagesOf(Value))
      /\ WellFormed(heap, built.generation)
      /\ Content(heap, built.generation) = given
  <2>1. IsTable(given)
    BY TableAssumption
  <2>2. <<>> \in Seq(PagesOf(Value))
    OBVIOUS
  <2> QED BY <1>1, <2>1, <2>2, BuildHoldsTable
<1>3. gens = <<built.generation>>
  BY <1>1
<1> HIDE DEF built
<1>4. Len(gens) = 1 /\ gens[1] = built.generation /\ gens \in Seq(Range(gens))
  <2>1. Len(gens) = 1 /\ gens[1] = built.generation /\ DOMAIN gens = 1 .. 1
    BY <1>3
  <2>2. built.generation \in Range(gens)
    BY <2>1 DEF Range
  <2> QED BY <1>3, <2>1, <2>2
<1>5. DataTypes
  <2>1. mutations = [r \in Request |-> <<>>] /\ <<>> \in Seq(Mutation)
    BY DEF Init
  <2> QED BY <1>2, <1>4, <2>1 DEF Init, DataTypes, PagesOf
<1>6. number = 1 /\ manage = "select"
  BY DEF Init, ProtocolInit
<1>7. GenerationsInv
  BY <1>2, <1>4, <1>6 DEF GenerationsInv
<1>8. CatalogIsPublished
  BY <1>1, <1>2, <1>4 DEF CatalogIsPublished, current
<1>9. StatsCountGenerations
  BY <1>6 DEF Init, StatsCountGenerations
<1> QED BY <1>5, <1>7, <1>8, <1>9 DEF TableInv

\* The steps of callers and readers, and those of the writer outside publish.
LEMMA OtherStepsLeaveTable ==
    ASSUME TableInv, UNCHANGED dataVars, mutations' \in [Request -> Seq(Mutation)],
           number' = number, loop' = loop, manage' = "count" <=> manage = "count"
    PROVE  TableInv' /\ GenerationsImmutableStep
<1> USE DEF dataVars, current
<1>1. DataTypes'
  BY DEF TableInv, DataTypes
<1>2. GenerationsInv'
  BY DEF TableInv, GenerationsInv
<1>3. CatalogIsPublished'
  BY DEF TableInv, CatalogIsPublished
<1>4. StatsCountGenerations'
  BY DEF TableInv, StatsCountGenerations
<1>5. GenerationsImmutableStep
  BY DEF GenerationsImmutableStep
<1> QED BY <1>1, <1>2, <1>3, <1>4, <1>5 DEF TableInv

\* A new generation leaves the earlier ones as they are.
LEMMA PublishAppends ==
    ASSUME TableInv, heap' \in Seq(PagesOf(Value)), Grown(heap, heap'),
           NEW g, WellFormed(heap', g), gens' = Append(gens, g), number' = number + 1
    PROVE  /\ GenerationsInv'
           /\ gens' \in Seq(Range(gens'))
           /\ current' = g
           /\ GenerationsImmutableStep
<1>1. heap \in Seq(PagesOf(Value)) /\ gens \in Seq(Range(gens))
  BY DEF TableInv, DataTypes, PagesOf
<1>2. /\ gens' \in Seq(Range(gens'))
      /\ Len(gens) \in Nat
      /\ Len(gens') = Len(gens) + 1
      /\ \A n \in 1 .. Len(gens) : gens'[n] = gens[n]
      /\ gens'[Len(gens) + 1] = g
  BY <1>1, Appended
<1>3. ASSUME NEW n \in 1 .. Len(gens)
      PROVE  /\ WellFormed(heap', gens'[n])
             /\ Content(heap', gens'[n]) = Content(heap, gens[n])
  <2>1. WellFormed(heap, gens[n]) /\ gens'[n] = gens[n]
    BY <1>2 DEF TableInv, GenerationsInv
  <2> QED BY <1>1, <2>1, ContentStays
<1>4. current' = g
  BY <1>2 DEF current
<1>5. \A n \in 1 .. Len(gens') : WellFormed(heap', gens'[n])
  BY <1>2, <1>3
<1>6. GenerationsInv'
  BY <1>2, <1>5 DEF TableInv, GenerationsInv
<1>7. DOMAIN gens = 1 .. Len(gens)
  BY <1>1
<1>8. GenerationsImmutableStep
  BY <1>2, <1>3, <1>7 DEF GenerationsImmutableStep
<1> QED BY <1>2, <1>4, <1>6, <1>8

\* The published generation can be read.
LEMMA CurrentIsTable ==
    ASSUME TableInv
    PROVE  /\ heap \in Seq(PagesOf(Value))
           /\ WellFormed(heap, current)
           /\ IsTable(Content(heap, current))
           /\ DOMAIN Content(heap, current) = DOMAIN current.routes
<1>1. heap \in Seq(PagesOf(Value)) /\ Len(gens) \in Nat
  BY DEF TableInv, DataTypes, PagesOf
<1>2. WellFormed(heap, current)
  BY <1>1 DEF TableInv, GenerationsInv, current
<1> QED BY <1>1, <1>2, ContentIsTable

\* The published table with the mutations of the batch applied in order.
Decided == Final(Content(heap, current), Gathered(batch), DOMAIN Gathered(batch))

\* Both ways to rebuild start from the published table and end in that one.
LEMMA WantedIsDecided ==
    ASSUME TypeOK, TableInv
    PROVE  Wanted(batch) = Decided /\ IsTable(Decided)
<1> DEFINE all == Gathered(batch)
           table == Content(heap, current)
<1>1. all \in Seq(Mutation)
  BY GatheredType DEF TypeOK, TableInv, DataTypes
<1>2. IsTable(table)
  BY CurrentIsTable
<1>3. IsTable(Decided)
  <2> HIDE DEF all, table
  <2>1. IsTable(Final(table, all, DOMAIN all))
    BY <1>1, <1>2, FinalIsTable
  <2> QED BY <2>1 DEF Decided, all, table
<1>4. CASE loop = "drain"
  <2>1. Wanted(batch) = FoldLeft(Applied, table, all)
    BY <1>4 DEF Wanted, recovered
  <2>2. table = [p \in DOMAIN table |-> table[p]]
    BY <1>2 DEF IsTable
  <2> HIDE DEF all, table
  <2>3. FoldLeft(Applied, table, all) = Final(table, all, DOMAIN all)
    BY <1>1, <2>2, FoldIsFinal
  <2> QED BY <1>3, <2>1, <2>3 DEF Decided, all, table
<1>5. CASE loop # "drain"
  <2>1. Wanted(batch) = Final(catalog, all, DOMAIN all)
    BY <1>5, AmendedIsFinal DEF Wanted, nextCatalog, Coalesced
  <2>2. catalog = table
    BY <1>5 DEF TableInv, CatalogIsPublished
  <2> QED BY <1>3, <2>1, <2>2 DEF Decided
<1> QED BY <1>4, <1>5

\* The Store leaves one publication to be counted.
LEMMA StoreIsCounted ==
    ASSUME TableInv, number \in Nat, manage = "publish", number' = number + 1, loop' = loop,
           stats' = stats, loop # "drain" => manage' = "count"
    PROVE  StatsCountGenerations'
<1>1. stats.payload \in Nat /\ stats.structural \in Nat
  BY DEF TableInv, DataTypes
<1>2. loop # "drain" => stats.payload + stats.structural + 0 = number - 1
  BY DEF TableInv, StatsCountGenerations
<1>3. loop # "drain" => stats.payload + stats.structural + 1 = number' - 1
  BY <1>1, <1>2
<1> QED BY <1>3 DEF StatsCountGenerations

\* publish with a rebuild.
LEMMA StructuralTable ==
    ASSUME TypeOK, TableInv, PublishStructural
    PROVE  /\ TableInv'
           /\ GenerationsImmutableStep
           /\ Content(heap', current') =
                  IF Buildable(Decided) THEN Decided ELSE Content(heap, current)
<1> DEFINE wanted == Wanted(batch)
           built == buildGeneration(heap, wanted)
<1>1. wanted = Decided /\ IsTable(wanted)
  BY WantedIsDecided
<1>2. /\ Publish(Buildable(wanted))
      /\ IF Buildable(wanted)
         THEN /\ gens' = Append(gens, built.generation)
              /\ heap' = built.heap
              /\ catalog' = IF loop = "drain" THEN catalog ELSE wanted
         ELSE UNCHANGED <<gens, heap, catalog>>
      /\ kind' = "structural"
      /\ UNCHANGED <<mutations, stats>>
  BY DEF PublishStructural
<1>3. heap \in Seq(PagesOf(Value))
  BY CurrentIsTable
<1>4. /\ built.heap \in Seq(PagesOf(Value))
      /\ Grown(heap, built.heap)
      /\ WellFormed(built.heap, built.generation)
      /\ Content(built.heap, built.generation) = wanted
  <2> HIDE DEF wanted
  <2> QED BY <1>1, <1>3, BuildHoldsTable
<1> HIDE DEF wanted, built
<1>5. manage = "publish" /\ loop' = loop /\ number \in Nat
  BY <1>2 DEF Publish, callVars, TypeOK
<1>6. CASE Buildable(wanted)
  <2>1. /\ gens' = Append(gens, built.generation)
        /\ heap' = built.heap
        /\ catalog' = IF loop = "drain" THEN catalog ELSE wanted
        /\ number' = number + 1
        /\ manage' = IF loop = "drain" THEN "notify" ELSE "count"
    BY <1>2, <1>6 DEF Publish
  <2>2. /\ GenerationsInv'
        /\ gens' \in Seq(Range(gens'))
        /\ current' = built.generation
        /\ GenerationsImmutableStep
    BY <1>4, <2>1, PublishAppends
  <2>3. DataTypes'
    BY <1>2, <1>4, <2>1, <2>2 DEF TableInv, DataTypes, PagesOf
  <2>4. Content(heap', current') = wanted
    BY <1>4, <2>1, <2>2
  <2>5. CatalogIsPublished'
    BY <1>5, <2>1, <2>4 DEF CatalogIsPublished
  <2>6. StatsCountGenerations'
    BY <1>2, <1>5, <2>1, StoreIsCounted
  <2> QED BY <1>1, <1>6, <2>2, <2>3, <2>4, <2>5, <2>6 DEF TableInv
<1>7. CASE ~Buildable(wanted)
  <2>1. /\ UNCHANGED <<gens, heap, catalog>>
        /\ number' = number
        /\ manage' = "notify"
    BY <1>2, <1>7 DEF Publish
  <2>2. current' = current /\ Content(heap', current') = Content(heap, current)
    BY <2>1 DEF current
  <2>3. DataTypes'
    BY <1>2, <2>1 DEF TableInv, DataTypes
  <2>4. GenerationsInv' /\ CatalogIsPublished'
    BY <1>5, <2>1, <2>2 DEF TableInv, GenerationsInv, CatalogIsPublished
  <2>5. StatsCountGenerations'
    BY <1>2, <1>5, <2>1 DEF TableInv, StatsCountGenerations
  <2>6. GenerationsImmutableStep
    BY <2>1 DEF GenerationsImmutableStep
  <2> QED BY <1>1, <1>7, <2>2, <2>3, <2>4, <2>5, <2>6 DEF TableInv
<1> QED BY <1>6, <1>7

\* publish without one.
LEMMA PayloadTable ==
    ASSUME TypeOK, TableInv, PublishPayload
    PROVE  /\ TableInv'
           /\ GenerationsImmutableStep
           /\ Content(heap', current') = Decided
           /\ DOMAIN Decided = DOMAIN current.routes
<1> DEFINE new == repayload(batch)
           table == Content(heap, current)
           names == DOMAIN Written(batch)
<1>1. /\ Publish(TRUE)
      /\ gens' = Append(gens, new.generation)
      /\ heap' = new.heap
      /\ catalog' = IF loop = "drain" THEN catalog ELSE Overwrite(catalog, Written(batch), {})
      /\ kind' = "payload"
      /\ UNCHANGED <<mutations, stats>>
  BY DEF PublishPayload
<1>2. /\ Written(batch) \in [names -> Value]
      /\ names \subseteq DOMAIN current.routes
      /\ \A t : DOMAIN t = DOMAIN current.routes =>
             Overwrite(t, Written(batch), {}) = Final(t, Gathered(batch), DOMAIN Gathered(batch))
  BY PayloadIsFinal DEF PublishPayload, TypeOK, TableInv, DataTypes
<1>3. /\ heap \in Seq(PagesOf(Value))
      /\ WellFormed(heap, current)
      /\ DOMAIN table = DOMAIN current.routes
  BY CurrentIsTable
<1> HIDE DEF names
<1>4. /\ new.heap \in Seq(PagesOf(Value))
      /\ Grown(heap, new.heap)
      /\ WellFormed(new.heap, new.generation)
      /\ Content(new.heap, new.generation) = Overwrite(table, Written(batch), {})
  BY <1>2, <1>3, RepayloadHoldsTable
<1> HIDE DEF new, table
<1>5. Overwrite(table, Written(batch), {}) = Decided
  BY <1>2, <1>3 DEF Decided, table
<1>6. /\ manage = "publish" /\ loop' = loop /\ number \in Nat
      /\ number' = number + 1
      /\ manage' = IF loop = "drain" THEN "notify" ELSE "count"
  BY <1>1 DEF Publish, callVars, TypeOK
<1>7. /\ GenerationsInv'
      /\ gens' \in Seq(Range(gens'))
      /\ current' = new.generation
      /\ GenerationsImmutableStep
  BY <1>1, <1>4, <1>6, PublishAppends
<1>8. DataTypes'
  BY <1>1, <1>4, <1>7 DEF TableInv, DataTypes, PagesOf
<1>9. Content(heap', current') = Decided
  BY <1>1, <1>4, <1>5, <1>7
<1>10. CatalogIsPublished'
  <2>1. loop # "drain" => catalog = table
    BY DEF TableInv, CatalogIsPublished, table
  <2> QED BY <1>1, <1>5, <1>6, <1>9, <2>1 DEF CatalogIsPublished
<1>11. StatsCountGenerations'
  BY <1>1, <1>6, StoreIsCounted
<1>12. DOMAIN Decided = DOMAIN current.routes
  <2>1. DOMAIN Overwrite(table, Written(batch), {}) = DOMAIN table \cup DOMAIN Written(batch)
    BY DEF Overwrite
  <2> QED BY <1>2, <1>3, <1>5, <2>1 DEF names
<1> QED BY <1>7, <1>8, <1>9, <1>10, <1>11, <1>12 DEF TableInv

\* One action after the other.
LEMMA StepTable ==
    TypeOK /\ TableInv /\ [TableNext]_vars => TableInv' /\ GenerationsImmutableStep
<1> SUFFICES ASSUME TypeOK, TableInv, [TableNext]_vars
             PROVE  TableInv' /\ GenerationsImmutableStep
  OBVIOUS
<1>0. mutations \in [Request -> Seq(Mutation)]
  BY DEF TableInv, DataTypes
<1>1. ASSUME NEW r \in Request, Submit(r) PROVE TableInv' /\ GenerationsImmutableStep
  <2>1. mutations' \in [Request -> Seq(Mutation)]
    <3>1. \A ms \in Mutations : ms \in Seq(Mutation)
      BY TableAssumption
    <3> QED BY <1>0, <1>1, <3>1 DEF Submit
  <2>2. UNCHANGED dataVars
    BY <1>1 DEF Submit
  <2>3. UNCHANGED writerVars
    BY <1>1 DEF Submit, SubmitInvalid, SubmitNormalized, SubmitStep, SubmitLock,
        SubmitUnlockClosed, SubmitErrClosed, SubmitSend, SubmitUnlock
  <2> QED BY <2>1, <2>2, <2>3, OtherStepsLeaveTable DEF writerVars
<1>2. ASSUME NEW c \in Closer, Close(c) PROVE TableInv' /\ GenerationsImmutableStep
  <2>1. UNCHANGED <<mutations, dataVars>>
    BY <1>2 DEF Close
  <2>2. UNCHANGED writerVars
    BY <1>2 DEF Close, CloseCall, CloseStep, CloseOnceFirst, CloseOnceLater, CloseLock,
        CloseStop, CloseUnlockLater, CloseReturn
  <2> QED BY <1>0, <2>1, <2>2, OtherStepsLeaveTable DEF writerVars
<1>3. CASE Manage
  BY <1>0, <1>3, CollectStoresNothing, OtherStepsLeaveTable DEF Manage
<1>4. CASE PublishStructural
  BY <1>4, StructuralTable
<1>5. CASE PublishPayload
  BY <1>5, PayloadTable
<1>6. CASE CountStats
  <2>1. /\ manage = "count" /\ manage' = "notify"
        /\ UNCHANGED <<number, loop, mutations, catalog, gens, heap, kind>>
        /\ stats' = [stats EXCEPT ![kind] = @ + 1]
    BY <1>6 DEF CountStats, CountPublication, callVars
  <2>2. stats \in [payload : Nat, structural : Nat] /\ kind \in {"payload", "structural"}
    BY DEF TableInv, DataTypes
  <2>3. /\ stats' \in [payload : Nat, structural : Nat]
        /\ stats'.payload + stats'.structural = stats.payload + stats.structural + 1
    <3>1. CASE kind = "payload"
      BY <2>1, <2>2, <3>1
    <3>2. CASE kind = "structural"
      BY <2>1, <2>2, <3>2
    <3> QED BY <2>2, <3>1, <3>2
  <2>4. StatsCountGenerations'
    BY <2>1, <2>3 DEF TableInv, StatsCountGenerations
  <2>5. DataTypes'
    BY <2>1, <2>2, <2>3 DEF TableInv, DataTypes
  <2>6. GenerationsInv' /\ CatalogIsPublished' /\ GenerationsImmutableStep
    BY <2>1 DEF TableInv, GenerationsInv, CatalogIsPublished, GenerationsImmutableStep, current
  <2> QED BY <2>4, <2>5, <2>6 DEF TableInv
<1>7. ASSUME NEW x \in Reader, Lookup(x) PROVE TableInv' /\ GenerationsImmutableStep
  <2>1. UNCHANGED <<protocolVars, mutations, dataVars>>
    BY <1>7 DEF Lookup, Load, AskIndex, GetPayload, Return
  <2> QED BY <1>0, <2>1, OtherStepsLeaveTable DEF protocolVars, writerVars
<1>8. CASE UNCHANGED vars
  BY <1>0, <1>8, OtherStepsLeaveTable DEF vars, protocolVars, writerVars
<1> QED BY <1>1, <1>2, <1>3, <1>4, <1>5, <1>6, <1>7, <1>8 DEF TableNext

-----------------------------------------------------------------------------
(* The theorems. *)

\* The inductive invariant of a managed table: every generation in memory has
\* dense IDs, the index of its prefixes and a page for each ID; the catalogue is
\* what the published generation holds; the counters lag the Store by one.
THEOREM TableInvariance == TableSpec => [](Inv /\ TableInv)
<1>1. Inv /\ TableInv /\ [TableNext]_vars => TableInv'
  BY StepTable DEF Inv
<1> QED BY <1>1, InitTable, TableProtocol, PTL DEF TableSpec

\* The catalogue that compiledfib's and preorder2's writers own and the published
\* generation never drift apart (CatalogIsPublished).
THEOREM CatalogsStayPublished == TableSpec => []CatalogIsPublished
<1>1. TableInv => CatalogIsPublished
  BY DEF TableInv
<1> QED BY <1>1, TableInvariance, PTL

\* Every publication is counted once, between its Store and its answers
\* (StatsCountGenerations).
THEOREM PublicationsAreCounted == TableSpec => []StatsCountGenerations
<1>1. TableInv => StatsCountGenerations
  BY DEF TableInv
<1> QED BY <1>1, TableInvariance, PTL

\* A generation that a reader holds never changes, whatever is published next,
\* although generations share pages (GenerationsImmutable).
THEOREM GenerationsNeverChange == TableSpec => GenerationsImmutable
<1>1. Inv /\ TableInv /\ [TableNext]_vars => [GenerationsImmutableStep]_vars
  BY StepTable DEF Inv
<1> QED BY <1>1, TableInvariance, PTL DEF TableSpec, GenerationsImmutable

-----------------------------------------------------------------------------
(* Lookup and WalkParents, while generations are published. *)

\* Matches, from the longest to the shortest.
SortedMatches(S, a) ==
    LET covering == Covering(S, a)
        n == Cardinality(Matches(S, a))
    IN  /\ n \in Nat
        /\ covering \in [1 .. n -> Matches(S, a)]
        /\ Len(covering) = n
        /\ \A i, j \in 1 .. n : i < j => covering[i].bits > covering[j].bits
        /\ \A p \in Matches(S, a) : \E i \in 1 .. n : covering[i] = p
        /\ Matches(S, a) = {} <=> covering = <<>>
        /\ Matches(S, a) # {} => n # 0 /\ covering[1] = LongestMatch(S, a)

\* A parent walk lists every match once, and starts with the longest.
LEMMA CoveringIsSorted ==
    ASSUME NEW S \in SUBSET Prefix, IsFiniteSet(S), NEW a \in Addr
    PROVE  SortedMatches(S, a)
<1> DEFINE M == Matches(S, a)
           n == Cardinality(M)
           R == {pair \in M \X M : pair[1].bits > pair[2].bits}
           Longer(p) == {q \in M : q.bits > p.bits}
           covering == Covering(S, a)
<1>1. M \in SUBSET S /\ \A p \in M : p \in Prefix /\ Covers(p, a)
  BY DEF Matches
<1>2. \A p \in M : p.bits \in Nat
  BY <1>1, PrefixType, WidthAssumption
<1>3. \A p, q \in M : p.bits = q.bits => p = q
  BY <1>1, MatchesDifferInLength
<1> HIDE DEF M
<1>4. StrictOrder(R, M)
  <2>1. \A p \in M : <<p, p>> \notin R
    BY <1>2
  <2>2. \A p, q, s \in M : <<p, q>> \in R /\ <<q, s>> \in R => <<p, s>> \in R
    BY <1>2
  <2>3. \A p, q \in M : p # q => <<p, q>> \in R \/ <<q, p>> \in R
    BY <1>2, <1>3
  <2> QED BY <2>1, <2>2, <2>3 DEF StrictOrder
<1>5. IsFiniteSet(M)
  BY <1>1, FS_Subset
<1>6. n \in Nat /\ Enumerates(R, M)
  <2> HIDE DEF R
  <2> QED BY <1>4, <1>5, BelowIsPosition
<1>7. \A p \in M : Preceding(R, M, p) = Cardinality(Longer(p))
  <2>1. ASSUME NEW p \in M
        PROVE  {q \in M : <<q, p>> \in R} = Longer(p)
    OBVIOUS
  <2> QED BY <2>1 DEF Preceding
<1>8. covering = [i \in 1 .. n |-> CHOOSE p \in M : Cardinality(Longer(p)) = i - 1]
  BY DEF Covering, M
<1>9. ASSUME NEW i \in 1 .. n
      PROVE  covering[i] \in M /\ Preceding(R, M, covering[i]) = i - 1
  <2>1. i - 1 \in 0 .. n - 1
    BY <1>6
  <2>2. \E p \in M : Preceding(R, M, p) = i - 1
    BY <1>6, <2>1 DEF Enumerates
  <2>3. \E p \in M : Cardinality(Longer(p)) = i - 1
    BY <1>7, <2>2
  <2> HIDE DEF Longer
  <2>4. covering[i] = CHOOSE p \in M : Cardinality(Longer(p)) = i - 1
    BY <1>8
  <2>5. covering[i] \in M /\ Cardinality(Longer(covering[i])) = i - 1
    BY <2>3, <2>4
  <2> QED BY <1>7, <2>5
<1> HIDE DEF covering
<1>10. covering \in [1 .. n -> M] /\ Len(covering) = n
  <2>1. covering \in [1 .. n -> M]
    BY <1>8, <1>9
  <2> QED BY <1>6, <2>1
<1>11. ASSUME NEW i \in 1 .. n, NEW j \in 1 .. n, i < j
       PROVE  covering[i].bits > covering[j].bits
  <2> DEFINE p == covering[i]
             q == covering[j]
  <2>1. p \in M /\ q \in M /\ Preceding(R, M, p) = i - 1 /\ Preceding(R, M, q) = j - 1
    BY <1>9
  <2>2. n \in Nat /\ i \in Nat /\ j \in Nat /\ ~(j - 1 < i - 1) /\ i - 1 # j - 1
    BY <1>6, <1>11
  <2> HIDE DEF p, q, R
  <2>3. <<q, p>> \notin R
    BY <1>6, <2>1, <2>2 DEF Enumerates
  <2>4. p # q
    BY <2>1, <2>2
  <2>5. <<p, q>> \in R
    BY <1>4, <2>1, <2>3, <2>4 DEF StrictOrder
  <2> QED BY <2>5 DEF R, p, q
<1>12. ASSUME NEW p \in M
       PROVE  \E i \in 1 .. n : covering[i] = p
  <2> DEFINE i == Preceding(R, M, p) + 1
  <2>1. Preceding(R, M, p) \in 0 .. n - 1
    BY <1>6 DEF Enumerates
  <2>2. i \in 1 .. n /\ i - 1 = Preceding(R, M, p)
    BY <1>6, <2>1
  <2>3. covering[i] \in M /\ Preceding(R, M, covering[i]) = i - 1
    BY <1>9, <2>2
  <2> HIDE DEF i, R
  <2>4. covering[i] = p
    BY <1>6, <2>2, <2>3 DEF Enumerates
  <2> QED BY <2>2, <2>4
<1>13. M = {} <=> covering = <<>>
  <2>1. M = {} => n = 0
    BY FS_EmptySet
  <2>2. M # {} => n # 0
    BY <1>6, <1>12
  <2>3. covering = <<>> <=> n = 0
    BY <1>6, <1>10
  <2> QED BY <2>1, <2>2, <2>3
<1>14. ASSUME M # {}
       PROVE  n # 0 /\ covering[1] = LongestMatch(S, a)
  <2>1. n # 0 /\ 1 \in 1 .. n
    BY <1>6, <1>12, <1>14
  <2>2. covering[1] \in M
    BY <1>9, <2>1
  <2>3. ASSUME NEW q \in M
        PROVE  q.bits <= covering[1].bits
    <3>1. PICK i \in 1 .. n : covering[i] = q
      BY <1>12
    <3>2. i = 1 \/ 1 < i
      BY <1>6, <3>1
    <3>3. i # 1 => covering[1].bits > q.bits
      BY <1>11, <2>1, <3>1, <3>2
    <3> QED BY <1>2, <2>2, <3>1, <3>3
  <2>4. \A p \in M : (\A q \in M : q.bits <= p.bits) => p = covering[1]
    BY <1>2, <1>3, <2>2, <2>3
  <2>5. LongestMatch(S, a) = CHOOSE p \in M : \A q \in M : q.bits <= p.bits
    BY DEF LongestMatch, M
  <2> QED BY <2>1, <2>2, <2>3, <2>4, <2>5
<1> QED BY <1>6, <1>10, <1>11, <1>12, <1>13, <1>14 DEF SortedMatches, M, covering

\* Whatever is published, what a reader has read and what is due stay right.
LEMMA PublishLeavesReaders ==
    ASSUME ReaderInv, reader' = reader, GenerationsImmutableStep,
           Len(gens) \in Nat, Len(gens') \in Nat, Len(gens) <= Len(gens'),
           DOMAIN gens = 1 .. Len(gens)
    PROVE  ReaderInv'
<1>1. \A n \in 1 .. Len(gens) :
         /\ n \in 1 .. Len(gens')
         /\ gens'[n] = gens[n]
         /\ Content(heap', gens'[n]) = Content(heap, gens[n])
  BY DEF GenerationsImmutableStep
<1>2. reader' \in [Reader -> ReaderState]
  BY DEF ReaderInv
<1>3. ASSUME NEW x \in Reader, reader[x].pc # "idle"
      PROVE  reader[x].gen \in 1 .. Len(gens')
  BY <1>1, <1>3 DEF ReaderInv
<1>4. ASSUME NEW x \in Reader, reader[x].pc = "found"
      PROVE  Reads(heap', gens'[reader[x].gen], reader[x])
  <2> DEFINE n == reader[x].gen
  <2>1. n \in 1 .. Len(gens) /\ Reads(heap, gens[n], reader[x])
    BY <1>4 DEF ReaderInv
  <2>2. gens'[n] = gens[n] /\ Content(heap', gens'[n]) = Content(heap, gens[n])
    BY <1>1, <2>1
  <2> QED BY <2>1, <2>2 DEF Reads
<1> QED BY <1>2, <1>3, <1>4 DEF ReaderInv

\* A step of one reader.
LEMMA OneReaderMoves ==
    ASSUME ReaderInv, UNCHANGED dataVars, NEW x \in Reader, NEW call \in ReaderState,
           reader' = [reader EXCEPT ![x] = call],
           call.pc # "idle" => call.gen \in 1 .. Len(gens),
           call.pc = "found" => Reads(heap, gens[call.gen], call)
    PROVE  ReaderInv'
<1>1. UNCHANGED <<gens, heap>>
  BY DEF dataVars
<1>2. reader' \in [Reader -> ReaderState]
  BY DEF ReaderInv
<1>3. reader'[x] = call /\ \A y \in Reader : y # x => reader'[y] = reader[y]
  BY DEF ReaderInv
<1> QED BY <1>1, <1>2, <1>3 DEF ReaderInv

\* The generation of a call in progress.
LEMMA LoadedGeneration ==
    ASSUME TableInv, ReaderInv, NEW x \in Reader, reader[x].pc # "idle"
    PROVE  LET g == gens[reader[x].gen]
           IN  /\ WellFormed(heap, g)
               /\ reader[x].gen \in 1 .. Len(gens)
               /\ reader[x].addr \in Addr
               /\ reader[x].call \in {"Lookup", "WalkParents"}
               /\ SortedMatches(DOMAIN g.routes, reader[x].addr)
               /\ DOMAIN Content(heap, g) = DOMAIN g.routes
               /\ \A p \in DOMAIN g.routes : /\ g.routes[p] \in Nat \ {0}
                                             /\ Content(heap, g)[p] \in Value
                                             /\ Content(heap, g)[p] = Get(heap, g.pages, g.routes[p])
<1> DEFINE g == gens[reader[x].gen]
<1>1. reader[x].gen \in 1 .. Len(gens) /\ reader[x] \in ReaderState
  BY DEF ReaderInv
<1>2. reader[x].addr \in Addr /\ reader[x].call \in {"Lookup", "WalkParents"}
  BY <1>1 DEF ReaderState
<1>3. WellFormed(heap, g) /\ heap \in Seq(PagesOf(Value))
  BY <1>1 DEF TableInv, GenerationsInv, DataTypes, PagesOf
<1> HIDE DEF g
<1>4. SortedMatches(DOMAIN g.routes, reader[x].addr)
  BY <1>2, <1>3, CoveringIsSorted DEF WellFormed
<1>5. IsTable(Content(heap, g)) /\ DOMAIN Content(heap, g) = DOMAIN g.routes
  BY <1>3, ContentIsTable
<1>6. \A p \in DOMAIN g.routes : g.routes[p] \in Nat \ {0}
  <2>1. Cardinality(DOMAIN g.routes) \in Nat /\ g.routes \in [DOMAIN g.routes -> 1 .. Cardinality(DOMAIN g.routes)]
    BY <1>3, FS_CardinalityType DEF WellFormed
  <2> QED BY <2>1
<1>7. \A p \in DOMAIN g.routes : Content(heap, g)[p] = Get(heap, g.pages, g.routes[p])
  BY DEF Content
<1> QED BY <1>1, <1>2, <1>3, <1>4, <1>5, <1>6, <1>7 DEF g, IsTable

\* The index is asked once, of the generation that was loaded.
LEMMA AskIndexReads ==
    ASSUME TableInv, ReaderInv, NEW x \in Reader, AskIndex(x)
    PROVE  ReaderInv'
<1> DEFINE g == gens[reader[x].gen]
           a == reader[x].addr
           c == reader[x].call
           covering == Covering(DOMAIN g.routes, a)
           matching == Matches(DOMAIN g.routes, a)
           n == Cardinality(matching)
           ids == CASE c = "WalkParents" -> ParentIDs(g.routes, a)
                    [] c = "Lookup" /\ g.index[a] = 0 -> <<>>
                    [] OTHER -> <<g.index[a]>>
           call == [pc |-> "found", call |-> c, addr |-> a, gen |-> reader[x].gen,
                    due |-> ids, values |-> <<>>]
<1>1. /\ reader[x].pc = "loaded"
      /\ reader' = [reader EXCEPT ![x] = call]
      /\ UNCHANGED dataVars
  BY DEF AskIndex
<1>2. /\ WellFormed(heap, g)
      /\ reader[x].gen \in 1 .. Len(gens)
      /\ a \in Addr
      /\ c \in {"Lookup", "WalkParents"}
      /\ SortedMatches(DOMAIN g.routes, a)
      /\ \A p \in DOMAIN g.routes : g.routes[p] \in Nat \ {0}
  BY <1>1, LoadedGeneration
<1>3. Len(gens) \in Nat
  BY DEF TableInv, DataTypes
<1> HIDE DEF g, a, c
<1>4. /\ n \in Nat
      /\ covering \in [1 .. n -> matching]
      /\ Len(covering) = n
      /\ matching = {} <=> covering = <<>>
      /\ matching # {} => n # 0 /\ covering[1] = LongestMatch(DOMAIN g.routes, a)
  BY <1>2 DEF SortedMatches
<1>5. \A i \in 1 .. n : covering[i] \in DOMAIN g.routes
  BY <1>4 DEF Matches
<1> DEFINE wanted == IF c = "Lookup" /\ covering # <<>> THEN 1 ELSE Len(covering)
<1>6. /\ ids \in Seq(Nat)
      /\ Len(ids) = wanted
      /\ \A i \in 1 .. Len(ids) : ids[i] = g.routes[covering[i]]
  <2>1. CASE c = "WalkParents"
    <3>1. ids = [i \in 1 .. n |-> g.routes[covering[i]]]
      BY <1>4, <2>1 DEF ParentIDs
    <3>2. \A i \in 1 .. n : g.routes[covering[i]] \in Nat
      BY <1>2, <1>5
    <3> HIDE DEF ids, covering, matching, n
    <3>3. ids \in [1 .. n -> Nat]
      BY <3>1, <3>2
    <3>4. ids \in Seq(Nat) /\ Len(ids) = n
      BY <1>4, <3>3
    <3> QED BY <1>4, <2>1, <3>1, <3>4
  <2>2. CASE c # "WalkParents"
    <3>1. c = "Lookup"
      BY <1>2, <2>2
    <3>2. g.index = BlockIndex(g.routes)
      BY <1>2 DEF WellFormed
    <3>3. g.index[a] = IF matching = {} THEN 0 ELSE g.routes[LongestMatch(DOMAIN g.routes, a)]
      BY <1>2, <3>2 DEF BlockIndex
    <3>4. CASE matching = {}
      <4>1. ids = <<>>
        BY <3>1, <3>3, <3>4
      <4>2. wanted = 0
        BY <1>4, <3>4
      <4> HIDE DEF ids, wanted
      <4> QED BY <4>1, <4>2
    <3>5. CASE matching # {}
      <4>1. g.index[a] = g.routes[covering[1]] /\ 1 \in 1 .. n
        BY <1>4, <3>3, <3>5
      <4>2. g.index[a] \in Nat \ {0}
        BY <1>2, <1>5, <4>1
      <4>3. ids = <<g.index[a]>>
        BY <3>1, <4>2
      <4>4. wanted = 1
        BY <1>4, <3>1, <3>5
      <4> HIDE DEF ids, wanted, covering, n
      <4> QED BY <4>1, <4>2, <4>3, <4>4
    <3> QED BY <3>4, <3>5
  <2> QED BY <2>1, <2>2
<1> HIDE DEF ids, covering, matching, n
<1>7. call \in ReaderState
  BY <1>2, <1>3, <1>6 DEF ReaderState
<1>8. Reads(heap, g, call)
  BY <1>6 DEF Reads, covering
<1>9. call.pc = "found" /\ call.gen \in 1 .. Len(gens) /\ gens[call.gen] = g
  BY <1>2 DEF g
<1> HIDE DEF call
<1> QED BY <1>1, <1>7, <1>8, <1>9, OneReaderMoves

\* A payload is read from the pages of the generation that was loaded.
LEMMA GetPayloadReads ==
    ASSUME TableInv, ReaderInv, NEW x \in Reader, GetPayload(x)
    PROVE  ReaderInv'
<1> DEFINE it == reader[x]
           g == gens[it.gen]
           covering == Covering(DOMAIN g.routes, it.addr)
           n == Cardinality(Matches(DOMAIN g.routes, it.addr))
           got == Len(it.values)
           value == Get(heap, g.pages, Head(it.due))
           call == [it EXCEPT !.values = Append(it.values, value), !.due = Tail(it.due)]
<1>1. /\ it.pc = "found" /\ it.due # <<>>
      /\ reader' = [reader EXCEPT ![x] = call]
      /\ UNCHANGED dataVars
  BY DEF GetPayload, ReaderInv
<1>2. /\ it.gen \in 1 .. Len(gens)
      /\ SortedMatches(DOMAIN g.routes, it.addr)
      /\ \A p \in DOMAIN g.routes : /\ Content(heap, g)[p] \in Value
                                    /\ Content(heap, g)[p] = Get(heap, g.pages, g.routes[p])
  BY <1>1, LoadedGeneration
<1>3. Reads(heap, g, it) /\ it \in ReaderState
  BY <1>1 DEF ReaderInv
<1>4. /\ it.due \in Seq(Nat)
      /\ it.values \in Seq(Value)
      /\ it = [pc |-> "found", call |-> it.call, addr |-> it.addr, gen |-> it.gen,
               due |-> it.due, values |-> it.values]
      /\ it.call \in {"Lookup", "WalkParents"} /\ it.addr \in Addr /\ it.gen \in Nat
  BY <1>1, <1>3 DEF ReaderState
<1> HIDE DEF it
<1> HIDE DEF g
<1>5. /\ n \in Nat
      /\ Len(covering) = n
      /\ \A i \in 1 .. n : covering[i] \in DOMAIN g.routes
      /\ covering = <<>> <=> n = 0
  <2>1. covering \in [1 .. n -> Matches(DOMAIN g.routes, it.addr)] /\ n \in Nat /\ Len(covering) = n
    BY <1>2 DEF SortedMatches
  <2>2. Matches(DOMAIN g.routes, it.addr) \subseteq DOMAIN g.routes
    BY DEF Matches
  <2> HIDE DEF covering, n
  <2> QED BY <2>1, <2>2
<1> HIDE DEF covering, n
<1> DEFINE wanted == IF it.call = "Lookup" /\ covering # <<>> THEN 1 ELSE Len(covering)
<1>6. /\ got + Len(it.due) = wanted
      /\ \A i \in 1 .. got : it.values[i] = Content(heap, g)[covering[i]]
      /\ \A i \in 1 .. Len(it.due) : it.due[i] = g.routes[covering[got + i]]
  BY <1>3 DEF Reads, covering
<1>7. /\ Len(it.due) \in Nat \ {0} /\ got \in Nat
      /\ Head(it.due) = it.due[1]
      /\ Tail(it.due) \in Seq(Nat)
      /\ Len(Tail(it.due)) = Len(it.due) - 1
      /\ \A i \in 1 .. Len(Tail(it.due)) : Tail(it.due)[i] = it.due[i + 1]
  <2>1. Len(it.due) \in Nat \ {0} /\ got \in Nat
    BY <1>1, <1>4, EmptySeq
  <2> QED BY <1>1, <1>4, <2>1, HeadTailProperties
<1>8. /\ got + Len(it.due) = wanted
      /\ wanted \in Nat
      /\ got + 1 \in 1 .. n
  <2>1. got + Len(it.due) = wanted
    BY <1>6
  <2>2. wanted \in Nat /\ wanted <= n
    BY <1>5
  <2>3. Len(it.due) \in Nat \ {0} /\ got \in Nat
    BY <1>7
  <2> HIDE DEF wanted, got
  <2> QED BY <1>5, <2>1, <2>2, <2>3
<1>9. value = Content(heap, g)[covering[got + 1]] /\ value \in Value
  <2>1. it.due[1] = g.routes[covering[got + 1]]
    BY <1>6, <1>7
  <2> QED BY <1>2, <1>5, <1>7, <1>8, <2>1
<1> HIDE DEF value
<1>10. /\ Append(it.values, value) \in Seq(Value)
       /\ Len(Append(it.values, value)) = got + 1
       /\ \A i \in 1 .. got : Append(it.values, value)[i] = it.values[i]
       /\ Append(it.values, value)[got + 1] = value
  BY <1>4, <1>9, AppendProperties
<1> DEFINE values2 == Append(it.values, value)
           due2 == Tail(it.due)
<1> HIDE DEF values2, due2
<1>11. call = [pc |-> "found", call |-> it.call, addr |-> it.addr, gen |-> it.gen,
               due |-> due2, values |-> values2]
  <2> DEFINE c == it.call
             a == it.addr
             m == it.gen
             d == it.due
             v == it.values
  <2>1. call = [it EXCEPT !.values = values2, !.due = due2]
    BY DEF values2, due2
  <2>2. it = [pc |-> "found", call |-> c, addr |-> a, gen |-> m, due |-> d, values |-> v]
    BY <1>4
  <2> HIDE DEF call, c, a, m, d, v
  <2>3. call = [pc |-> "found", call |-> c, addr |-> a, gen |-> m, due |-> due2, values |-> values2]
    BY <2>1, <2>2
  <2> QED BY <2>3 DEF c, a, m
<1>12. call \in ReaderState
  BY <1>4, <1>7, <1>10, <1>11 DEF ReaderState, values2, due2
<1>13. /\ Len(values2) + Len(due2) = wanted
       /\ \A i \in 1 .. Len(values2) : values2[i] = Content(heap, g)[covering[i]]
       /\ \A i \in 1 .. Len(due2) : due2[i] = g.routes[covering[Len(values2) + i]]
  <2>1. Len(values2) = got + 1 /\ Len(due2) = Len(it.due) - 1
    BY <1>7, <1>10 DEF values2, due2
  <2>0. Len(it.due) \in Nat \ {0} /\ got \in Nat
    BY <1>7
  <2>2. Len(values2) + Len(due2) = wanted
    <3>1. got + 1 + (Len(it.due) - 1) = wanted
      <4> DEFINE k == Len(it.due)
      <4>1. got + k = wanted /\ got \in Nat /\ k \in Nat
        BY <1>8, <2>0
      <4> HIDE DEF wanted, got, k
      <4>2. got + 1 + (k - 1) = wanted
        BY <4>1
      <4> QED BY <4>2 DEF k
    <3> HIDE DEF wanted, got
    <3> QED BY <2>1, <3>1
  <2>3. ASSUME NEW i \in 1 .. got + 1
        PROVE  values2[i] = Content(heap, g)[covering[i]]
    <3>1. CASE i = got + 1
      BY <1>9, <1>10, <3>1 DEF values2
    <3>2. CASE i # got + 1
      <4>1. i \in 1 .. got
        BY <1>7, <3>2
      <4> QED BY <1>6, <1>10, <4>1 DEF values2
    <3> QED BY <3>1, <3>2
  <2>4. ASSUME NEW i \in 1 .. Len(it.due) - 1
        PROVE  due2[i] = g.routes[covering[got + 1 + i]]
    <3>1. i \in 1 .. Len(due2) /\ i + 1 \in 1 .. Len(it.due) /\ got + (i + 1) = got + 1 + i
      <4> HIDE DEF got
      <4> QED BY <2>0, <2>1
    <3>2. due2[i] = it.due[i + 1]
      BY <1>7, <2>1, <3>1 DEF due2
    <3>3. it.due[i + 1] = g.routes[covering[got + (i + 1)]]
      BY <1>6, <3>1
    <3> HIDE DEF got, due2, covering, g
    <3> QED BY <3>1, <3>2, <3>3
  <2> QED BY <2>1, <2>2, <2>3, <2>4
<1>14. Reads(heap, g, call)
  <2>1. /\ call.call = it.call /\ call.addr = it.addr
        /\ call.values = values2 /\ call.due = due2
    <3> HIDE DEF values2, due2
    <3> QED BY <1>11
  <2> HIDE DEF call, values2, due2, g
  <2>2. /\ Len(call.values) + Len(call.due) =
               IF call.call = "Lookup" /\ Covering(DOMAIN g.routes, call.addr) # <<>>
               THEN 1 ELSE Len(Covering(DOMAIN g.routes, call.addr))
        /\ \A i \in 1 .. Len(call.values) :
              call.values[i] = Content(heap, g)[Covering(DOMAIN g.routes, call.addr)[i]]
        /\ \A i \in 1 .. Len(call.due) :
              call.due[i] = g.routes[Covering(DOMAIN g.routes, call.addr)[Len(call.values) + i]]
    BY <1>13, <2>1 DEF covering
  <2> QED BY <2>2 DEF Reads
<1>15. call.gen \in 1 .. Len(gens) /\ gens[call.gen] = g
  BY <1>2, <1>11 DEF g
<1> HIDE DEF call
<1> QED BY <1>1, <1>12, <1>14, <1>15, OneReaderMoves

\* One action after the other.
LEMMA StepReaders ==
    TypeOK /\ TableInv /\ ReaderInv /\ [TableNext]_vars => ReaderInv'
<1> SUFFICES ASSUME TypeOK, TableInv, ReaderInv, [TableNext]_vars
             PROVE  ReaderInv'
  OBVIOUS
<1>1. /\ Len(gens) \in Nat /\ DOMAIN gens = 1 .. Len(gens)
      /\ Len(gens) # 0
      /\ gens \in Seq(Range(gens))
  BY DEF TableInv, DataTypes, GenerationsInv
<1>2. GenerationsImmutableStep
  BY StepTable
<1>3. CASE UNCHANGED <<dataVars, reader>>
  BY <1>1, <1>2, <1>3, PublishLeavesReaders DEF dataVars
<1>4. CASE PublishStructural \/ PublishPayload
  <2>1. reader' = reader
    BY <1>4 DEF PublishStructural, PublishPayload
  <2>2. gens' = gens \/ \E g : gens' = Append(gens, g)
    BY <1>4 DEF PublishStructural, PublishPayload
  <2>3. Len(gens') \in Nat /\ Len(gens) <= Len(gens')
    <3>1. CASE gens' = gens
      BY <1>1, <3>1
    <3>2. ASSUME NEW g, gens' = Append(gens, g) PROVE Len(gens') = Len(gens) + 1
      BY <1>1, <3>2, Appended
    <3> QED BY <1>1, <2>2, <3>1, <3>2
  <2> QED BY <1>1, <1>2, <2>1, <2>3, PublishLeavesReaders
<1>5. CASE CountStats
  BY <1>1, <1>2, <1>5, PublishLeavesReaders DEF CountStats
<1>6. ASSUME NEW x \in Reader, Load(x) PROVE ReaderInv'
  <2>1. PICK a \in Addr, c \in {"Lookup", "WalkParents"} :
           reader' = [reader EXCEPT ![x] = [pc |-> "loaded", call |-> c, addr |-> a, gen |-> Len(gens)]]
    BY <1>6 DEF Load
  <2> DEFINE call == [pc |-> "loaded", call |-> c, addr |-> a, gen |-> Len(gens)]
  <2>2. call \in ReaderState /\ call.pc = "loaded" /\ call.gen \in 1 .. Len(gens)
    BY <1>1 DEF ReaderState
  <2>3. UNCHANGED dataVars /\ reader' = [reader EXCEPT ![x] = call]
    BY <1>6, <2>1 DEF Load
  <2> HIDE DEF call
  <2> QED BY <2>2, <2>3, OneReaderMoves
<1>7. ASSUME NEW x \in Reader, AskIndex(x) PROVE ReaderInv'
  BY <1>7, AskIndexReads
<1>8. ASSUME NEW x \in Reader, GetPayload(x) PROVE ReaderInv'
  BY <1>8, GetPayloadReads
<1>9. ASSUME NEW x \in Reader, Return(x) PROVE ReaderInv'
  <2> DEFINE call == [pc |-> "idle"]
  <2>1. call \in ReaderState /\ call.pc = "idle"
    BY DEF ReaderState
  <2>2. UNCHANGED dataVars /\ reader' = [reader EXCEPT ![x] = call]
    BY <1>9 DEF Return
  <2> HIDE DEF call
  <2> QED BY <2>1, <2>2, OneReaderMoves
<1>10. ASSUME NEW r \in Request, Submit(r) PROVE UNCHANGED <<dataVars, reader>>
  BY <1>10 DEF Submit
<1>11. ASSUME NEW c \in Closer, Close(c) PROVE UNCHANGED <<dataVars, reader>>
  BY <1>11 DEF Close
<1>12. Manage \/ UNCHANGED vars => UNCHANGED <<dataVars, reader>>
  BY DEF Manage, vars
<1> QED BY <1>3, <1>4, <1>5, <1>6, <1>7, <1>8, <1>9, <1>10, <1>11, <1>12 DEF TableNext, Lookup

\* At first no reader has loaded anything.
LEMMA InitReaders == Init => ReaderInv
<1>1. Init => reader \in [Reader -> ReaderState] /\ \A x \in Reader : reader[x].pc = "idle"
  BY DEF Init, ReaderState
<1> QED BY <1>1 DEF ReaderInv

\* A Lookup returns the value of the longest match, and a parent walk yields the
\* values of all matches, of the one generation that it loaded
\* (LookupIsLongestMatch).
THEOREM LookupsAreLongestMatches == TableSpec => []LookupIsLongestMatch
<1>1. ASSUME TableInv, ReaderInv, NEW x \in Reader, reader[x].pc = "found"
      PROVE  LET content == Content(heap, gens[reader[x].gen])
                 covering == Covering(DOMAIN content, reader[x].addr)
                 expected == [i \in DOMAIN covering |-> content[covering[i]]]
                 values == reader[x].values
             IN  /\ values = SubSeq(expected, 1, Len(values))
                 /\ reader[x].due = <<>> =>
                       Len(values) = IF reader[x].call = "Lookup" /\ covering # <<>> THEN 1
                                     ELSE Len(covering)
  <2> DEFINE it == reader[x]
             g == gens[it.gen]
             content == Content(heap, g)
             covering == Covering(DOMAIN content, it.addr)
             n == Cardinality(Matches(DOMAIN content, it.addr))
             expected == [i \in DOMAIN covering |-> content[covering[i]]]
             got == Len(it.values)
  <2>1. DOMAIN content = DOMAIN g.routes /\ SortedMatches(DOMAIN g.routes, it.addr)
    BY <1>1, LoadedGeneration
  <2>2. Reads(heap, g, it) /\ it \in ReaderState
    BY <1>1 DEF ReaderInv
  <2>3. it.due \in Seq(Nat) /\ it.values \in Seq(Value)
    BY <1>1, <2>2 DEF ReaderState
  <2> HIDE DEF it
  <2> HIDE DEF g, content
  <2>4. n \in Nat /\ DOMAIN covering = 1 .. n /\ Len(covering) = n /\ (covering = <<>> <=> n = 0)
    BY <2>1 DEF SortedMatches
  <2> HIDE DEF covering, n
  <2>5. /\ got + Len(it.due) = IF it.call = "Lookup" /\ covering # <<>> THEN 1 ELSE Len(covering)
        /\ \A i \in 1 .. got : it.values[i] = content[covering[i]]
    BY <2>1, <2>2 DEF Reads, covering, content
  <2>6. got \in Nat /\ Len(it.due) \in Nat
    BY <2>3
  <2> DEFINE wanted == IF it.call = "Lookup" /\ covering # <<>> THEN 1 ELSE Len(covering)
  <2>7. got <= n
    <3>1. wanted \in Nat /\ wanted <= n
      BY <2>4
    <3>2. got + Len(it.due) = wanted
      BY <2>5
    <3> HIDE DEF wanted, got
    <3> QED BY <2>4, <2>6, <3>1, <3>2
  <2>8. \A i \in 1 .. got : it.values[i] = expected[i]
    BY <2>4, <2>5, <2>6, <2>7
  <2>9. it.values = SubSeq(expected, 1, got)
    <3>1. SubSeq(expected, 1, got) = [i \in 1 .. got |-> expected[i]]
      <4>1. expected \in Seq(Range(expected)) /\ Len(expected) = n
        <5>1. DOMAIN expected = 1 .. n /\ expected = [i \in 1 .. n |-> expected[i]]
          BY <2>4
        <5> HIDE DEF expected
        <5>2. \A i \in 1 .. n : expected[i] \in Range(expected)
          BY <5>1 DEF Range
        <5>3. expected \in [1 .. n -> Range(expected)]
          BY <5>1, <5>2
        <5> QED BY <2>4, <5>3
      <4> HIDE DEF expected, got
      <4> QED BY <2>4, <2>6, <2>7, <4>1
    <3>2. it.values = [i \in 1 .. got |-> it.values[i]]
      BY <2>3
    <3> HIDE DEF expected
    <3> QED BY <2>8, <3>1, <3>2
  <2>10. it.due = <<>> => got = wanted
    <3>1. it.due = <<>> => Len(it.due) = 0
      OBVIOUS
    <3>2. got + Len(it.due) = wanted
      BY <2>5
    <3> HIDE DEF got, wanted
    <3> QED BY <2>6, <3>1, <3>2
  <2> QED BY <2>9, <2>10 DEF it, g, content, covering
<1>2. TableInv /\ ReaderInv => LookupIsLongestMatch
  BY <1>1 DEF LookupIsLongestMatch
<1>3. Inv /\ TableInv /\ ReaderInv /\ [TableNext]_vars => ReaderInv'
  BY StepReaders DEF Inv
<1> QED BY <1>2, <1>3, InitReaders, TableInvariance, PTL DEF TableSpec

-----------------------------------------------------------------------------
(***************************************************************************)
(* The table implements RouteTable: the steps of its callers, of its       *)
(* writer and of its readers are steps of the promise, or invisible.       *)
(***************************************************************************)

-----------------------------------------------------------------------------
(* What the mapping needs of the control. *)

\* Before the first call.
LEMMA InitFate == Init => FateInv
<1> SUFFICES ASSUME Init PROVE FateInv
  OBVIOUS
<1>1. PICK given \in Catalogs :
         LET built == buildGeneration(<<>>, given)
         IN  /\ Buildable(given)
             /\ gens = <<built.generation>>
             /\ heap = built.heap
  BY DEF Init
<1>2. Content(heap, current) = given
  <2> DEFINE built == buildGeneration(<<>>, given)
  <2>1. IsTable(given) /\ <<>> \in Seq(PagesOf(Value))
    BY TableAssumption
  <2>2. Content(built.heap, built.generation) = given
    BY <2>1, BuildHoldsTable
  <2>3. gens = <<built.generation>> /\ heap = built.heap
    BY <1>1
  <2> HIDE DEF built
  <2>4. current = built.generation
    BY <2>3 DEF current
  <2> QED BY <2>2, <2>3, <2>4
<1> QED BY <1>1, <1>2 DEF Init, ProtocolInit, FateInv, OpenInv, Published, Pending

\* What a step of the table does to the published table.
LEMMA StepPublished ==
    ASSUME TypeOK, TableInv, TableNext
    PROVE  /\ Published' = Published \/ PublishStructural \/ PublishPayload
           /\ IsTable(Published)
<1>1. IsTable(Published)
  BY CurrentIsTable DEF Published
<1>2. ASSUME UNCHANGED <<gens, heap>> PROVE Published' = Published
  BY <1>2 DEF Published, current
<1>3. ASSUME NEW r \in Request, Submit(r) PROVE UNCHANGED <<gens, heap>>
  BY <1>3 DEF Submit, dataVars
<1>4. ASSUME NEW c \in Closer, Close(c) PROVE UNCHANGED <<gens, heap>>
  BY <1>4 DEF Close, dataVars
<1>5. CASE Manage \/ CountStats
  BY <1>1, <1>2, <1>5 DEF Manage, CountStats, dataVars
<1>6. ASSUME NEW x \in Reader, Lookup(x) PROVE UNCHANGED <<gens, heap>>
  BY <1>6 DEF Lookup, Load, AskIndex, GetPayload, Return, dataVars
<1> QED BY <1>1, <1>2, <1>3, <1>4, <1>5, <1>6 DEF TableNext

\* Every step keeps what the mapping needs.
LEMMA StepFate ==
    TypeOK /\ TableInv /\ FateInv /\ [TableNext]_vars => FateInv'
<1> SUFFICES ASSUME TypeOK, TableInv, FateInv, [TableNext]_vars PROVE FateInv'
  OBVIOUS
<1>1. OpenInv'
  <2>1. [Next]_protocolVars
    BY TableStepsAreProtocolSteps DEF vars, protocolVars, callVars, writerVars
  <2> QED BY <2>1, StepOpen DEF FateInv
<1>2. OnTheWay(mutations, Mutations)'
  <2>1. ASSUME NEW r \in Request, submit'[r] \in {"lock", "sending"}
        PROVE  mutations'[r] \in Mutations
    <3>1. DOMAIN mutations = Request
      BY DEF TableInv, DataTypes
    <3>2. OnTheWay(mutations, Mutations)
      BY DEF FateInv, OnTheWay
    <3>3. \/ /\ mutations' = mutations
             /\ \/ \E q \in Request : SubmitInvalid(q) \/ SubmitStep(q)
                \/ \E c \in Closer : CloseCall(c) \/ CloseStep(c)
                \/ Writer
                \/ UNCHANGED protocolVars
          \/ \E q \in Request, m \in Mutations :
                SubmitNormalized(q) /\ mutations' = [mutations EXCEPT ![q] = m]
      <4>1. CASE \E q \in Request : Submit(q)
        BY <4>1 DEF Submit
      <4>2. CASE \E c \in Closer : Close(c)
        BY <4>2 DEF Close
      <4>3. CASE Manage \/ CountStats \/ PublishStructural \/ PublishPayload
        <5>1. UNCHANGED mutations
          BY <4>3 DEF Manage, CountStats, PublishStructural, PublishPayload
        <5>2. PublishStructural => Buildable(Wanted(batch)) \in BOOLEAN
          BY DEF Buildable
        <5>3. Writer
          BY <4>3, <5>2 DEF Manage, CountStats, PublishStructural, PublishPayload, Writer
        <5> QED BY <5>1, <5>3
      <4>4. CASE (\E x \in Reader : Lookup(x)) \/ UNCHANGED vars
        BY <4>4 DEF Lookup, Load, AskIndex, GetPayload, Return, vars
      <4> QED BY <4>1, <4>2, <4>3, <4>4 DEF TableNext
    <3> QED BY <2>1, <3>1, <3>2, <3>3, StepOnTheWay
  <2> QED BY <2>1 DEF OnTheWay
<1>3. Buildable(Published)'
  <2>0. Buildable(Published)
    BY DEF FateInv
  <2>1. CASE PublishStructural
    <3>1. Published' = IF Buildable(Decided) THEN Decided ELSE Published
      BY <2>1, StructuralTable DEF Published
    <3> QED BY <2>0, <3>1 DEF Buildable
  <2>2. CASE PublishPayload
    <3>1. Published' = Decided /\ DOMAIN Decided = DOMAIN current.routes
      BY <2>2, PayloadTable DEF Published
    <3>2. DOMAIN Published = DOMAIN current.routes
      BY CurrentIsTable DEF Published
    <3> QED BY <2>0, <3>1, <3>2 DEF Buildable
  <2>3. UNCHANGED vars => Published' = Published
    BY DEF vars, dataVars, Published, current
  <2>4. CASE Published' = Published
    BY <2>0, <2>4 DEF Buildable
  <2> QED BY <2>1, <2>2, <2>3, <2>4, StepPublished
<1> QED BY <1>1, <1>2, <1>3 DEF FateInv, OnTheWay

-----------------------------------------------------------------------------
(* The steps, with what is asked and what is published. *)

\* What the steps that publish nothing mean to the promise.
LEMMA UnseenIsInvisible ==
    ASSUME SeesNothing, UNCHANGED Published,
           \A r \in Request : Accepted(r) => mutations'[r] = mutations[r]
    PROVE  UNCHANGED Abstract!vars
<1>1. Asked' = Asked
  BY DEF SeesNothing, SameCalls, Asked
<1> QED BY <1>1 DEF Abstract!vars, SeesNothing

LEMMA RefusalIsRefuse ==
    ASSUME NEW r \in Request, SeesRefusal(r), UNCHANGED <<mutations, Published>>
    PROVE  Abstract!Refuse(r)
<1>1. Asked' = Asked
  BY DEF SeesRefusal, SameCalls, Asked
<1> QED BY <1>1 DEF SeesRefusal, Unseen, Abstract!Refuse, Abstract!Verdict, Abstract!Undecided, Pending

LEMMA SendIsAccept ==
    ASSUME FateInv, NEW r \in Request, SeesAcceptance(r), UNCHANGED <<mutations, Published>>
    PROVE  Abstract!Accept(r)
<1>1. Asked' = [Asked EXCEPT ![r] = mutations[r]]
  <2>1. Accepted(r)' /\ \A q \in Request : q # r => Accepted(q)' = Accepted(q)
    BY DEF SeesAcceptance
  <2> QED BY <2>1 DEF Asked
<1>2. mutations[r] \in Mutations
  BY DEF FateInv, SeesAcceptance
<1> QED BY <1>1, <1>2 DEF SeesAcceptance, Unseen, Abstract!Accept, Abstract!Undecided, Pending

LEMMA NotifyIsAnswer ==
    ASSUME NEW r \in Request, SeesAnswer(r), UNCHANGED <<mutations, Published>>
    PROVE  Abstract!Answer(r)
<1>1. Asked' = Asked
  BY DEF SeesAnswer, SameCalls, Asked
<1> QED BY <1>1 DEF SeesAnswer, Abstract!Answer, Abstract!Undecided, Pending

-----------------------------------------------------------------------------
(* The Store decides on the whole batch. *)

\* RouteTable's step of one mutation is apply's.
LEMMA ApplyIsApplied ==
    ASSUME NEW t, NEW m
    PROVE  Abstract!Apply(t, m) = Applied(t, m)
<1>1. DOMAIN <<>> = {}
  OBVIOUS
<1>2. CASE m.delete
  BY <1>1, <1>2 DEF Abstract!Apply, Applied, Overwrite
<1>3. CASE ~m.delete
  BY <1>3 DEF Abstract!Apply, Applied, Overwrite
<1> QED BY <1>2, <1>3

\* One mutation after the other is what publish does at once.
LEMMA OneByOneIsFinal ==
    ASSUME NEW S, NEW all \in Seq(S), NEW t, t = [p \in DOMAIN t |-> t[p]]
    PROVE  FoldLeft(Abstract!Apply, t, all) = Final(t, all, DOMAIN all)
<1> DEFINE places == DOMAIN all
           Equation(f) ==
               f = [s \in SUBSET places |->
                       IF s = {} THEN t ELSE Abstract!Apply(f[s \ {Max(s)}], all[Max(s)])]
           final == [s \in SUBSET places |-> Final(t, all, s)]
           fold == CHOOSE f : Equation(f)
<1>1. AppliesInOrder(final, t, all)
  BY FinalApplies
<1>2. Equation(final)
  <2>1. \A s \in SUBSET places :
           Final(t, all, s) =
               IF s = {} THEN t ELSE Abstract!Apply(final[s \ {Max(s)}], all[Max(s)])
    BY <1>1, ApplyIsApplied DEF AppliesInOrder
  <2> QED BY <2>1
<1>3. Equation(fold)
  <2> HIDE DEF Equation
  <2> QED BY <1>2
<1>4. FoldLeft(Abstract!Apply, t, all) = fold[places]
  BY DEF FoldLeft, MapThenFoldSet
<1> HIDE DEF fold, final
<1>5. AppliesInOrder(fold, t, all)
  BY <1>3, ApplyIsApplied DEF AppliesInOrder
<1>6. fold[places] = Final(t, all, places)
  BY <1>5, ApplyingIsFinal
<1> QED BY <1>4, <1>6

\* RouteTable sees the community modules' operators through its own instance.
LEMMA SameOperators ==
    ASSUME NEW t, NEW all
    PROVE  /\ Abstract!FlattenSeq(all) = FlattenSeq(all)
           /\ Abstract!FoldLeft(Abstract!Apply, t, all) = FoldLeft(Abstract!Apply, t, all)
<1>1. Abstract!FlattenSeq(all) = FlattenSeq(all)
  BY DEF Abstract!FlattenSeq, FlattenSeq
<1>2. \A S : Abstract!Max(S) = Max(S)
  BY DEF Abstract!Max, Max
<1>3. Abstract!FoldLeft(Abstract!Apply, t, all) = FoldLeft(Abstract!Apply, t, all)
  BY <1>2 DEF Abstract!FoldLeft, FoldLeft, Abstract!MapThenFoldSet, MapThenFoldSet
<1> QED BY <1>1, <1>3

\* What the batch asks for is what it gathers.
LEMMA BatchIsDecided ==
    ASSUME TypeOK, TableInv, \A i \in DOMAIN batch : batch[i] \in Request /\ Accepted(batch[i])
    PROVE  Abstract!Outcome(batch) = Decided
<1>1. Abstract!Joined(batch) = Gathered(batch)
  <2>1. ASSUME NEW i \in DOMAIN batch PROVE Asked[batch[i]] = mutations[batch[i]]
    BY DEF Asked
  <2>2. [i \in DOMAIN batch |-> Asked[batch[i]]] = [i \in DOMAIN batch |-> mutations[batch[i]]]
    BY <2>1
  <2> QED BY <2>2, SameOperators DEF Abstract!Joined, Gathered
<1> DEFINE all == Gathered(batch)
<1>2. all \in Seq(Mutation)
  BY GatheredType DEF TypeOK, TableInv, DataTypes
<1>3. Published = [p \in DOMAIN Published |-> Published[p]]
  BY CurrentIsTable DEF Published, IsTable
<1> HIDE DEF all
<1>4. FoldLeft(Abstract!Apply, Published, all) = Final(Published, all, DOMAIN all)
  BY <1>2, <1>3, OneByOneIsFinal
<1> QED BY <1>1, <1>4, SameOperators DEF Abstract!Outcome, Decided, Published, all

\* Both publication paths decide on the batch: all of it or none.
LEMMA PublishIsDecide ==
    ASSUME Inv, TableInv, FateInv, PublishStructural \/ PublishPayload
    PROVE  \E n \in DOMAIN Backlog : Abstract!Decide(n)
<1> DEFINE n == Len(batch)
           fits == Buildable(Decided)
<1>1. Publish(fits) /\ UNCHANGED mutations /\ Published' = IF fits THEN Decided ELSE Published
  <2>1. CASE PublishStructural
    <3>1. Wanted(batch) = Decided
      BY WantedIsDecided DEF Inv
    <3> QED BY <2>1, <3>1, StructuralTable DEF PublishStructural, Published, Inv
  <2>2. CASE PublishPayload
    <3>1. Published' = Decided /\ DOMAIN Decided = DOMAIN current.routes
      BY <2>2, PayloadTable DEF Published, Inv
    <3>2. DOMAIN Published = DOMAIN current.routes
      BY CurrentIsTable DEF Published
    <3>3. fits
      BY <3>1, <3>2 DEF FateInv, Buildable
    <3> QED BY <2>2, <3>1, <3>3 DEF PublishPayload
  <2> QED BY <2>1, <2>2
<1> HIDE DEF fits
<1>2. SeesDecision(fits)
  BY <1>1, PublishIsSeen DEF FateInv
<1>3. Abstract!Outcome(batch) = Decided
  BY <1>2, BatchIsDecided DEF SeesDecision, Inv
<1>4. fits = Buildable(Abstract!Outcome(batch))
  BY <1>3 DEF fits
<1>5. Asked' = Asked
  BY <1>1, <1>2 DEF SeesDecision, SameCalls, Asked
<1>6. n \in DOMAIN Backlog /\ Abstract!Decide(n)
  BY <1>1, <1>2, <1>3, <1>4, <1>5 DEF SeesDecision, Abstract!Decide
<1> QED BY <1>6

-----------------------------------------------------------------------------
(* Together. *)

\* New starts where RouteTable does.
LEMMA InitIsInit == Init => Abstract!Init
  BY DEF Init, ProtocolInit, Abstract!Init, Accepted, Stored, Abstract!Undecided, Pending,
      InBatch, Asked, Backlog, Fate

\* A step of Submit is a refusal, an acceptance or invisible.
LEMMA SubmitRefines ==
    ASSUME Inv, TableInv, FateInv, NEW r \in Request, Submit(r)
    PROVE  [Abstract!Next]_Abstract!vars
<1>1. submit \in [Request -> SubmitPC] /\ mutations \in [Request -> Seq(Mutation)]
  BY DEF Inv, TypeOK, TableInv, DataTypes
<1>2. UNCHANGED Published
  BY DEF Submit, dataVars, Published, current
<1>3. CASE SubmitInvalid(r) \/ SubmitErrClosed(r)
  <2>1. UNCHANGED mutations
    BY <1>1, <1>3 DEF Submit, SubmitInvalid, SubmitErrClosed, SubmitNormalized
  <2>2. SeesRefusal(r)
    BY <1>3, RefusalIsSeen DEF FateInv
  <2> QED BY <1>2, <2>1, <2>2, RefusalIsRefuse DEF Abstract!Next
<1>4. CASE SubmitSend(r)
  <2>1. UNCHANGED mutations
    BY <1>1, <1>4 DEF Submit, SubmitSend, SubmitInvalid, SubmitNormalized
  <2>2. SeesAcceptance(r)
    BY <1>4, SendIsSeen DEF FateInv
  <2> QED BY <1>2, <2>1, <2>2, SendIsAccept DEF Abstract!Next
<1>5. CASE SubmitNormalized(r) /\ \E ms \in Mutations : mutations' = [mutations EXCEPT ![r] = ms]
  <2>1. SeesNothing
    BY <1>5, OtherCallsAreUnseen DEF Inv
  <2>2. ~Accepted(r)
    BY <1>5 DEF SubmitNormalized, Accepted
  <2>3. \A q \in Request : Accepted(q) => mutations'[q] = mutations[q]
    BY <1>1, <1>5, <2>2
  <2> QED BY <1>2, <2>1, <2>3, UnseenIsInvisible
<1>6. CASE (SubmitLock(r) \/ SubmitUnlockClosed(r) \/ SubmitUnlock(r)) /\ UNCHANGED mutations
  <2>1. SeesNothing
    BY <1>6, OtherCallsAreUnseen DEF Inv
  <2> QED BY <1>2, <1>6, <2>1, UnseenIsInvisible
<1> QED BY <1>3, <1>4, <1>5, <1>6 DEF Submit, SubmitStep

\* Every step of the table is a step of RouteTable or invisible to it.
LEMMA StepRefines ==
    Inv /\ TableInv /\ FateInv /\ [TableNext]_vars => [Abstract!Next]_Abstract!vars
<1> SUFFICES ASSUME Inv, TableInv, FateInv, [TableNext]_vars
             PROVE  [Abstract!Next]_Abstract!vars
  OBVIOUS
<1>1. ASSUME SeesNothing, UNCHANGED <<mutations, Published>>
      PROVE  UNCHANGED Abstract!vars
  BY <1>1, UnseenIsInvisible
<1>2. ASSUME NEW r \in Request, Submit(r) PROVE [Abstract!Next]_Abstract!vars
  BY <1>2, SubmitRefines
<1>3. ASSUME NEW c \in Closer, Close(c) PROVE UNCHANGED Abstract!vars
  <2>1. SeesNothing
    BY <1>3, OtherCallsAreUnseen DEF Close, Inv
  <2>2. UNCHANGED <<mutations, Published>>
    BY <1>3 DEF Close, dataVars, Published, current
  <2> QED BY <1>1, <2>1, <2>2
<1>4. CASE Manage
  <2>0. UNCHANGED <<mutations, Published>>
    BY <1>4 DEF Manage, dataVars, Published, current
  <2>1. CASE Notify
    <3>1. PICK r \in Request : SeesAnswer(r)
      BY <2>1, NotifyIsSeen DEF FateInv
    <3> QED BY <2>0, <3>1, NotifyIsAnswer DEF Abstract!Next
  <2>2. CASE ~Notify
    <3>1. SeesNothing
      BY <1>4, <2>2, GatheringIsUnseen DEF Manage
    <3> QED BY <1>1, <2>0, <3>1
  <2> QED BY <2>1, <2>2
<1>5. CASE PublishStructural \/ PublishPayload
  BY <1>5, PublishIsDecide DEF Abstract!Next
<1>6. CASE CountStats
  <2>1. SeesNothing /\ UNCHANGED <<mutations, Published>>
    BY <1>6, CountIsUnseen DEF CountStats, Published, current
  <2> QED BY <1>1, <2>1
<1>7. CASE (\E x \in Reader : Lookup(x)) \/ UNCHANGED vars
  <2>1. UNCHANGED protocolVars /\ UNCHANGED <<mutations, Published>>
    BY <1>7 DEF Lookup, Load, AskIndex, GetPayload, Return, vars, dataVars, Published, current
  <2>2. SeesNothing
    BY <2>1, OtherCallsAreUnseen DEF Inv
  <2> QED BY <1>1, <2>1, <2>2
<1> QED BY <1>2, <1>3, <1>4, <1>5, <1>6, <1>7 DEF TableNext

\* Queueing, batching, coalescing, the two publication paths and the shared pages
\* of compiledfib, preorder2 and splitribfib amount to RouteTable: accepted calls
\* take effect in the order of their acceptance, all or none of a batch, and each
\* caller is told the fate of its own call (ImplementsRouteTable).
THEOREM TablesKeepTheirPromise == TableSpec => ImplementsRouteTable
<1>1. Inv /\ TableInv /\ FateInv /\ [TableNext]_vars => FateInv'
  BY StepFate DEF Inv
<1>2. TableSpec => []FateInv
  BY <1>1, InitFate, TableInvariance, PTL DEF TableSpec
<1> QED
  BY <1>2, InitIsInit, StepRefines, TableInvariance, PTL
      DEF TableSpec, ImplementsRouteTable, Abstract!Spec
=============================================================================
