------------------------- MODULE FreeSpaceMap_proofs -------------------------
(***************************************************************************)
(* Theorems about the free-space map, for every page size, number of        *)
(* categories, set of pages, width of page numbers and capacity of an FSM   *)
(* page. The index: the map and the buckets agree, and a page FindCandidate *)
(* returns has room for the tuple. The pages: the entries of valid FSM      *)
(* pages stand for the heap pages that map to them, and no heap page is     *)
(* left without one.                                                        *)
(***************************************************************************)
EXTENDS FsmCandidateIndex, FsmPage, TLAPS

-----------------------------------------------------------------------------
(* The candidate index. *)

(* Integer division by a positive number is between its neighbours. *)
LEMMA DivFacts ==
    ASSUME NEW a \in Nat, NEW c \in Nat \ {0}
    PROVE  /\ a \div c \in Nat
           /\ (a \div c) * c =< a
           /\ a < ((a \div c) + 1) * c
  OBVIOUS

(* Integer division is monotone in the dividend. *)
LEMMA DivMonotone ==
    ASSUME NEW a \in Nat, NEW b \in Nat, NEW c \in Nat \ {0}, a =< b
    PROVE  a \div c =< b \div c
  BY DivFacts, Z3

(* So is the product of naturals in either factor. *)
LEMMA TimesMonotone ==
    ASSUME NEW a \in Nat, NEW b \in Nat, NEW k \in Nat, a =< b
    PROVE  a * k \in Nat /\ b * k \in Nat /\ a * k =< b * k
  OBVIOUS

(* MaxTuple is positive and below MaxFree: the constants describe a page with room. *)
LEMMA Sizes == MaxTuple \in Nat \ {0} /\ MaxFree \in Nat /\ MaxFree = MaxTuple + SlotSize + 1
  BY CategoryAssumption DEF MaxTuple, MaxFree

(* The bytes of a gap an insertion can use are a natural number, at most MaxTuple. *)
LEMMA UsableBounds ==
    ASSUME NEW free \in 0..MaxFree, free > SlotSize
    PROVE  /\ Lesser(free, MaxFree) = free
           /\ Lesser(free - SlotSize, MaxTuple) \in 0..MaxTuple
  BY Sizes, CategoryAssumption DEF Lesser

(* Every gap has a category that fits in the byte the map stores. *)
LEMMA CategoryInRange ==
    ASSUME NEW free \in 0..MaxFree
    PROVE  FsmCategoryForFreeBytes(free) \in Category
<1>1. CASE free =< SlotSize
  <2>1. Lesser(free, MaxFree) = free
    BY Sizes DEF Lesser
  <2>. QED BY <1>1, <2>1, CategoryAssumption DEF FsmCategoryForFreeBytes, Category
<1>2. CASE free > SlotSize
  <2>. DEFINE u == Lesser(free - SlotSize, MaxTuple)
  <2>1. u \in Nat /\ u =< MaxTuple
    BY <1>2, UsableBounds, Sizes
  <2>2. FsmCategoryForFreeBytes(free) = (u * CategoryMax) \div MaxTuple
    BY <1>2, UsableBounds, Sizes, CategoryAssumption DEF FsmCategoryForFreeBytes
  <2>. HIDE DEF u
  <2>3. u * CategoryMax \in Nat /\ u * CategoryMax =< MaxTuple * CategoryMax
    BY <2>1, TimesMonotone, Sizes, CategoryAssumption
  <2>4. (MaxTuple * CategoryMax) \div MaxTuple = CategoryMax
    BY Sizes, CategoryAssumption, Z3
  <2>5. (u * CategoryMax) \div MaxTuple =< (MaxTuple * CategoryMax) \div MaxTuple
    BY <2>3, DivMonotone, Sizes, CategoryAssumption
  <2>6. (u * CategoryMax) \div MaxTuple \in Nat
    BY <2>3, DivFacts, Sizes
  <2>. QED BY <2>2, <2>4, <2>5, <2>6, CategoryAssumption DEF Category
<1>. QED BY <1>1, <1>2, Sizes, CategoryAssumption

(* Rounding the gap down and the request up never promises space that is not there. *)
LEMMA CategoryPromise ==
    ASSUME NEW free \in 0..MaxFree, NEW n \in 1..MaxTuple,
           FsmCategoryForFreeBytes(free) >= MinimumFsmCategoryForTupleBytes(n)
    PROVE  free >= n + SlotSize
<1>. DEFINE need == ((n - 1) * CategoryMax) \div MaxTuple
<1>0. n \in Nat /\ n - 1 \in Nat /\ SlotSize \in Nat /\ CategoryMax \in Nat
  BY Sizes, CategoryAssumption
<1>1. MinimumFsmCategoryForTupleBytes(n) = need + 1
  BY <1>0, Sizes DEF MinimumFsmCategoryForTupleBytes
<1>2. (n - 1) * CategoryMax \in Nat
  BY <1>0, TimesMonotone
<1>3. need \in Nat
  BY <1>2, DivFacts, Sizes
<1>. HIDE DEF need
<1>4. free > SlotSize
  <2>1. SUFFICES ASSUME free =< SlotSize PROVE FALSE
    BY <1>0, Sizes
  <2>2. FsmCategoryForFreeBytes(free) = 0
    BY <2>1, Sizes DEF FsmCategoryForFreeBytes, Lesser
  <2>. QED BY <2>2, <1>1, <1>3
<1>. DEFINE u == Lesser(free - SlotSize, MaxTuple)
<1>5. u \in Nat /\ u =< MaxTuple /\ u =< free - SlotSize
  BY <1>4, <1>0, Sizes DEF Lesser
<1>6. FsmCategoryForFreeBytes(free) = (u * CategoryMax) \div MaxTuple
  BY <1>4, <1>0, UsableBounds, Sizes DEF FsmCategoryForFreeBytes
<1>. HIDE DEF u
<1>7. u >= n
  <2>1. SUFFICES ASSUME u =< n - 1 PROVE FALSE
    BY <1>0, <1>5
  <2>2. u * CategoryMax \in Nat /\ u * CategoryMax =< (n - 1) * CategoryMax
    BY <2>1, <1>0, <1>5, TimesMonotone
  <2>3. (u * CategoryMax) \div MaxTuple =< need
    BY <2>2, <1>2, DivMonotone, Sizes DEF need
  <2>4. (u * CategoryMax) \div MaxTuple \in Nat
    BY <2>2, DivFacts, Sizes
  <2>. QED BY <2>3, <2>4, <1>1, <1>3, <1>6
<1>. QED BY <1>0, <1>5, <1>7

(* The request is rounded by less than one step: a page of a lower category than the one a  *)
(* request of n bytes asks for has less room than n bytes and a step.                       *)
LEMMA RoundingBound ==
    ASSUME NEW free \in 0..MaxFree, NEW n \in 1..MaxTuple,
           FsmCategoryForFreeBytes(free) < MinimumFsmCategoryForTupleBytes(n)
    PROVE  Lesser(free - SlotSize, MaxTuple) < n + FsmCategoryMinimumUsableBytes(1)
<1>. DEFINE need == ((n - 1) * CategoryMax) \div MaxTuple
            step == (MaxTuple + (CategoryMax - 1)) \div CategoryMax
            u == Lesser(free - SlotSize, MaxTuple)
            cat == (u * CategoryMax) \div MaxTuple
<1>0. /\ n \in Nat /\ n - 1 \in Nat /\ SlotSize \in Nat /\ CategoryMax \in Nat \ {0}
      /\ MaxTuple \in Nat \ {0} /\ CategoryMax - 1 \in Nat /\ MaxTuple + (CategoryMax - 1) \in Nat
  BY Sizes, CategoryAssumption
<1>1. FsmCategoryMinimumUsableBytes(1) = step
  <2>1. 1 * MaxTuple + CategoryMax - 1 = MaxTuple + (CategoryMax - 1)
    BY <1>0
  <2>. QED BY <2>1 DEF FsmCategoryMinimumUsableBytes
<1>2. step \in Nat /\ MaxTuple =< step * CategoryMax
  <2>1. step \in Nat /\ MaxTuple + (CategoryMax - 1) < (step + 1) * CategoryMax
    BY <1>0, DivFacts
  <2>. HIDE DEF step
  <2>2. (step + 1) * CategoryMax = step * CategoryMax + CategoryMax /\ step * CategoryMax \in Nat
    BY <1>0, <2>1
  <2>. QED BY <1>0, <2>1, <2>2
<1>3. (n - 1) * CategoryMax \in Nat
  BY <1>0, TimesMonotone
<1>4. need \in Nat /\ need * MaxTuple =< (n - 1) * CategoryMax
  BY <1>0, <1>3, DivFacts
<1>5. MinimumFsmCategoryForTupleBytes(n) = need + 1
  BY <1>0 DEF MinimumFsmCategoryForTupleBytes
<1>. HIDE DEF need, step
<1>6. CASE free =< SlotSize
  <2>1. u =< 0 /\ u \in Int
    BY <1>0, <1>6, Sizes DEF Lesser
  <2>. HIDE DEF u
  <2>2. u < n + step
    BY <1>0, <1>2, <2>1
  <2>. QED BY <1>1, <2>2 DEF u
<1>7. CASE free > SlotSize
  <2>1. u \in Nat
    BY <1>7, UsableBounds, Sizes
  <2>2. FsmCategoryForFreeBytes(free) = cat
    BY <1>7, <1>0, UsableBounds, Sizes DEF FsmCategoryForFreeBytes
  <2>. HIDE DEF u
  <2>3. u * CategoryMax \in Nat
    BY <1>0, <2>1, TimesMonotone
  <2>4. cat \in Nat /\ u * CategoryMax < (cat + 1) * MaxTuple
    BY <1>0, <2>3, DivFacts
  <2>. HIDE DEF cat
  <2>5. cat =< need
    BY <1>4, <1>5, <2>2, <2>4
  <2>6. (cat + 1) * MaxTuple =< (need + 1) * MaxTuple
    BY <1>0, <1>4, <2>4, <2>5, TimesMonotone
  <2>7. (need + 1) * MaxTuple = need * MaxTuple + MaxTuple /\ need * MaxTuple \in Nat
    BY <1>0, <1>4
  <2>8. (cat + 1) * MaxTuple \in Nat /\ step * CategoryMax \in Nat
    BY <1>0, <1>2, <2>4
  <2>9. u * CategoryMax < (n - 1) * CategoryMax + step * CategoryMax
    BY <1>0, <1>2, <1>3, <1>4, <2>3, <2>4, <2>6, <2>7, <2>8
  <2>10. ASSUME (n - 1) + step =< u PROVE FALSE
    <3>1. ((n - 1) + step) * CategoryMax =< u * CategoryMax
      BY <1>0, <1>2, <2>1, <2>10, TimesMonotone
    <3>2. ((n - 1) + step) * CategoryMax = (n - 1) * CategoryMax + step * CategoryMax
      BY <1>0, <1>2
    <3>. QED BY <1>3, <2>3, <2>8, <2>9, <3>1, <3>2
  <2>11. u < n + step
    BY <1>0, <1>2, <2>1, <2>10
  <2>. QED BY <1>1, <2>11 DEF u
<1>. QED BY <1>0, <1>6, <1>7, Sizes

-----------------------------------------------------------------------------
(* The category on record is the one of the gap that was reported last. *)
CategoriesCurrent ==
    \A p \in Pages : Tracked(p) => page_categories[p] = FsmCategoryForFreeBytes(gap[p])

GapsInRange == \A p \in Pages : gap[p] \in 0..MaxFree

(* The inductive invariant. *)
IndexInv == TypeOK /\ IndexAgrees /\ CategoriesCurrent /\ GapsInRange

LEMMA InitIndexInv == Init => IndexInv
  BY IndexAssumption, Sizes DEF Init, IndexInv, TypeOK, IndexAgrees, CategoriesCurrent,
     GapsInRange, Tracked

LEMMA NextIndexInv == IndexInv /\ [Next]_indexVars => IndexInv'
<1>. SUFFICES ASSUME IndexInv, [Next]_indexVars PROVE IndexInv'
  OBVIOUS
<1>. USE DEF IndexInv
<1>0. \A free \in Gaps : free \in 0..MaxFree /\ FsmCategoryForFreeBytes(free) \in Category
  BY IndexAssumption, CategoryInRange
<1>1. ASSUME NEW p \in Pages, NEW free \in Gaps, UpsertNew(p, free) PROVE IndexInv'
  <2>. DEFINE c == FsmCategoryForFreeBytes(free)
  <2>1. c \in Category /\ c # NoCategory /\ free \in 0..MaxFree
    BY <1>0, IndexAssumption
  <2>2. /\ page_categories[p] = NoCategory
        /\ page_categories' = [page_categories EXCEPT ![p] = c]
        /\ buckets' = [buckets EXCEPT ![c] = @ \cup {p}]
        /\ gap' = [gap EXCEPT ![p] = free]
    BY <1>1 DEF UpsertNew, Tracked
  <2>. HIDE DEF c
  <2>3. TypeOK'
    BY <2>1, <2>2 DEF TypeOK
  <2>4. IndexAgrees'
    BY <2>1, <2>2, IndexAssumption DEF TypeOK, IndexAgrees
  <2>5. CategoriesCurrent'
    BY <2>1, <2>2 DEF TypeOK, CategoriesCurrent, Tracked, c
  <2>6. GapsInRange'
    BY <2>1, <2>2 DEF TypeOK, GapsInRange
  <2>. QED BY <2>3, <2>4, <2>5, <2>6
<1>2. ASSUME NEW p \in Pages, NEW free \in Gaps, UpsertTracked(p, free) PROVE IndexInv'
  <2>. DEFINE c == FsmCategoryForFreeBytes(free)
              old == page_categories[p]
  <2>1. c \in Category /\ c # NoCategory /\ free \in 0..MaxFree
    BY <1>0, IndexAssumption
  <2>2. /\ old # NoCategory
        /\ page_categories' = [page_categories EXCEPT ![p] = c]
        /\ buckets' = [b \in Category |-> (buckets[b] \ (IF b = old THEN {p} ELSE {}))
                                          \cup (IF b = c THEN {p} ELSE {})]
        /\ gap' = [gap EXCEPT ![p] = free]
    BY <1>2 DEF UpsertTracked, Tracked
  <2>3. old \in Category
    BY <2>2 DEF TypeOK
  <2>4. CategoriesCurrent'
    BY <2>1, <2>2 DEF TypeOK, CategoriesCurrent, Tracked
  <2>. HIDE DEF c
  <2>5. TypeOK'
    BY <2>1, <2>2 DEF TypeOK
  <2>6. ASSUME NEW q \in Pages, NEW b \in Category
        PROVE  q \in buckets'[b] <=> page_categories'[q] = b
    <3>1. q \in buckets'[b] <=> (q \in buckets[b] /\ ~(b = old /\ q = p)) \/ (b = c /\ q = p)
      BY <2>2
    <3>2. q \in buckets[b] <=> page_categories[q] = b
      BY DEF IndexAgrees
    <3>3. page_categories'[q] = IF q = p THEN c ELSE page_categories[q]
      BY <2>2 DEF TypeOK
    <3>. QED BY <3>1, <3>2, <3>3
  <2>7. IndexAgrees'
    BY <2>6 DEF IndexAgrees
  <2>8. GapsInRange'
    BY <2>1, <2>2 DEF TypeOK, GapsInRange
  <2>. QED BY <2>4, <2>5, <2>7, <2>8
<1>3. ASSUME NEW p \in Pages, Remove(p) PROVE IndexInv'
  <2>1. page_categories[p] \in Category
    BY <1>3 DEF Remove, Tracked, TypeOK
  <2>2. TypeOK'
    BY <1>3, <2>1 DEF Remove, TypeOK
  <2>3. IndexAgrees'
    BY <1>3, <2>1, IndexAssumption DEF Remove, TypeOK, IndexAgrees
  <2>4. CategoriesCurrent' /\ GapsInRange'
    BY <1>3, Sizes DEF Remove, TypeOK, CategoriesCurrent, GapsInRange, Tracked
  <2>. QED BY <2>2, <2>3, <2>4
<1>4. CASE Clear
  BY <1>4, IndexAssumption, Sizes
     DEF Clear, TypeOK, IndexAgrees, CategoriesCurrent, GapsInRange, Tracked
<1>5. CASE UNCHANGED indexVars
  BY <1>5 DEF indexVars, TypeOK, IndexAgrees, CategoriesCurrent, GapsInRange, Tracked
<1>6. ASSUME NEW p \in Pages, NEW free \in Gaps, UpsertThrows(p, free) PROVE IndexInv'
  BY <1>5, <1>6 DEF UpsertThrows
<1>. QED BY <1>1, <1>2, <1>3, <1>4, <1>5, <1>6 DEF Next

LEMMA IndexInvHolds == Spec => []IndexInv
  BY InitIndexInv, NextIndexInv, PTL DEF Spec

(* For every page size, number of categories and set of pages, the map and the buckets of   *)
(* FsmCandidateIndex describe the same pages after any sequence of Upsert, Remove and Clear, *)
(* allocation failures in the middle of Upsert included.                                    *)
THEOREM IndexConsistent == Spec => []IndexAgrees
<1>1. IndexInv => IndexAgrees
  BY DEF IndexInv
<1>. QED BY <1>1, IndexInvHolds, PTL

(* For the same parameters, a page FindCandidate returns for n bytes has room for the tuple *)
(* and for the slot HeapPage::Insert appends.                                               *)
THEOREM CandidateHasRoom == Spec => []CandidateFits
<1>1. IndexInv => CandidateFits
  <2>. SUFFICES ASSUME IndexInv, NEW n \in 0..MaxTuple, NEW p \in Pages,
                       FindCandidate(n, p), n # 0
                PROVE  gap[p] >= n + SlotSize
    BY DEF CandidateFits
  <2>1. PICK c \in Sufficient(n) : p \in buckets[c]
    BY DEF FindCandidate
  <2>2. c \in Category /\ c >= MinimumFsmCategoryForTupleBytes(n)
    BY <2>1 DEF Sufficient
  <2>3. page_categories[p] = c
    BY <2>1, <2>2 DEF IndexInv, IndexAgrees
  <2>4. Tracked(p)
    BY <2>2, <2>3, IndexAssumption DEF Tracked
  <2>5. FsmCategoryForFreeBytes(gap[p]) = c
    BY <2>3, <2>4 DEF IndexInv, CategoriesCurrent
  <2>6. gap[p] \in 0..MaxFree /\ n \in 1..MaxTuple
    BY Sizes DEF IndexInv, GapsInRange
  <2>. QED BY <2>2, <2>5, <2>6, CategoryPromise
<1>. QED BY <1>1, IndexInvHolds, PTL

(* For the same parameters, when FindCandidate(n) returns nothing the search has overlooked  *)
(* no page by more than the rounding of one category: no tracked page has room for n bytes   *)
(* and FsmCategoryMinimumUsableBytes(1) more.                                                *)
THEOREM SearchOverlooksNothing == Spec => []NothingOverlooked
<1>1. IndexInv => NothingOverlooked
  <2>. SUFFICES ASSUME IndexInv, NEW n \in 0..MaxTuple, Sufficient(n) = {},
                       NEW p \in Pages, Tracked(p)
                PROVE  Lesser(gap[p] - SlotSize, MaxTuple) < n + FsmCategoryMinimumUsableBytes(1)
    BY DEF NothingOverlooked
  <2>. DEFINE c == page_categories[p]
  <2>1. c \in Category /\ p \in buckets[c]
    BY DEF IndexInv, TypeOK, IndexAgrees, Tracked
  <2>2. c = FsmCategoryForFreeBytes(gap[p]) /\ gap[p] \in 0..MaxFree
    BY DEF IndexInv, CategoriesCurrent, GapsInRange
  <2>. HIDE DEF c
  <2>3. ~(c >= MinimumFsmCategoryForTupleBytes(n))
    BY <2>1 DEF Sufficient
  <2>4. c \in Nat
    BY <2>1, CategoryAssumption DEF Category
  <2>5. n # 0
    BY <2>3, <2>4 DEF MinimumFsmCategoryForTupleBytes
  <2>6. n \in 1..MaxTuple
    BY <2>5, Sizes
  <2>7. MinimumFsmCategoryForTupleBytes(n) \in Nat
    <3>1. n - 1 \in Nat /\ (n - 1) * CategoryMax \in Nat
      BY <2>6, Sizes, CategoryAssumption, TimesMonotone
    <3>2. ((n - 1) * CategoryMax) \div MaxTuple \in Nat
      BY <3>1, Sizes, DivFacts
    <3>. QED BY <2>5, <3>2 DEF MinimumFsmCategoryForTupleBytes
  <2>8. c < MinimumFsmCategoryForTupleBytes(n)
    BY <2>3, <2>4, <2>7
  <2>. QED BY <2>2, <2>6, <2>8, RoundingBound
<1>. QED BY <1>1, IndexInvHolds, PTL

-----------------------------------------------------------------------------
(* FSM pages. *)

(* Division with remainder by a positive number. *)
LEMMA DivMod ==
    ASSUME NEW a \in Nat, NEW c \in Nat \ {0}
    PROVE  /\ a \div c \in Nat
           /\ a % c \in 0..(c - 1)
           /\ a = (a \div c) * c + (a % c)
  OBVIOUS

(* It is unique. *)
LEMMA DivModUnique ==
    ASSUME NEW c \in Nat \ {0}, NEW k \in Nat, NEW i \in 0..(c - 1)
    PROVE  (k * c + i) \div c = k /\ (k * c + i) % c = i
  BY Z3

(* A product of naturals grows with its first factor, and is no less than it. *)
LEMMA TimesGrows ==
    ASSUME NEW a \in Nat, NEW b \in Nat, NEW k \in Nat \ {0}, a =< b
    PROVE  a * k \in Nat /\ b * k \in Nat /\ a * k =< b * k /\ a =< a * k
  OBVIOUS

(* FirstHeapPageForFsmPage does not wrap: where it succeeds it is the exact product. *)
LEMMA FirstHeapPageExact ==
    ASSUME NEW no \in PageNos \ {0, INVALID_PAGE_NO},
           FirstHeapPageForFsmPage(no) # INVALID_PAGE_NO
    PROVE  FirstHeapPageForFsmPage(no) = 1 + (no - 1) * Capacity
  <1> DEFINE q == (INVALID_PAGE_NO - 1) \div Capacity
             m == (no - 1) * Capacity
  <1>1. no - 1 \in Nat /\ INVALID_PAGE_NO - 1 \in Nat /\ Capacity \in Nat \ {0} /\ Modulus \in Nat
    BY FsmPageAssumption DEF PageNos, INVALID_PAGE_NO
  <1>2. q \in Nat /\ q * Capacity =< INVALID_PAGE_NO - 1
    <2> DEFINE a == INVALID_PAGE_NO - 1
               r == a % Capacity
    <2>1. q \in Nat /\ r \in 0..(Capacity - 1) /\ a = q * Capacity + r
      BY <1>1, DivMod
    <2> HIDE DEF r, q
    <2>2. q * Capacity \in Nat
      BY <1>1, <2>1
    <2> QED BY <1>1, <2>1, <2>2
  <1>3. no - 1 =< q /\ FirstHeapPageForFsmPage(no) = (1 + m) % Modulus
    BY <1>1, <1>2 DEF FirstHeapPageForFsmPage
  <1>4. m \in Nat /\ m =< q * Capacity
    BY <1>1, <1>2, <1>3, TimesGrows
  <1> HIDE DEF m, q
  <1>5. 1 + m \in 0..(Modulus - 1)
    BY <1>1, <1>2, <1>4 DEF INVALID_PAGE_NO
  <1>6. (1 + m) % Modulus = 1 + m
    BY <1>1, <1>5
  <1> QED BY <1>3, <1>6 DEF m

LEMMA RangeExact ==
    ASSUME FsmTypeOK
    PROVE  RangeMatchesMapping
  <1> SUFFICES ASSUME Validate(page_no, page), NEW i \in 0..(page.entry_count - 1)
               PROVE  /\ page.first_heap_page_no + i \in HeapPages
                      /\ FsmLocationForHeapPage(page.first_heap_page_no + i)
                           = [fsm_page_no |-> page_no, entry_index |-> i]
    BY DEF RangeMatchesMapping
  <1> DEFINE k == page_no - 1
             first == page.first_heap_page_no
             count == page.entry_count
  <1>1. /\ page_no \in PageNos \ {0, INVALID_PAGE_NO}
        /\ FirstHeapPageForFsmPage(page_no) # INVALID_PAGE_NO
        /\ first = FirstHeapPageForFsmPage(page_no)
        /\ count =< Capacity /\ InitializedRangeFits(first, count)
    BY DEF Validate, FsmTypeOK
  <1>2. /\ k \in Nat /\ Capacity \in Nat \ {0} /\ Modulus \in Nat /\ count \in Nat
        /\ i \in Nat /\ i < count /\ i \in 0..(Capacity - 1) /\ count # 0
    BY <1>1, FsmPageAssumption DEF PageNos, INVALID_PAGE_NO, FsmTypeOK, FsmImage
  <1>3. first = 1 + k * Capacity
    BY <1>1, FirstHeapPageExact
  <1>4. k * Capacity \in Nat
    BY <1>2, TimesGrows
  <1>5. first + i >= 1 /\ first + i =< INVALID_PAGE_NO - 1 /\ first + i \in Nat
    BY <1>1, <1>2, <1>3, <1>4 DEF InitializedRangeFits, INVALID_PAGE_NO
  <1>6. (first + i) - 1 = k * Capacity + i
    BY <1>2, <1>3, <1>4
  <1>7. (k * Capacity + i) \div Capacity = k /\ (k * Capacity + i) % Capacity = i
    BY <1>2, DivModUnique
  <1>8. first + i \in HeapPages
    BY <1>2, <1>5 DEF HeapPages, PageNos, INVALID_PAGE_NO
  <1>9. 1 + k = page_no
    BY <1>1, FsmPageAssumption DEF PageNos, INVALID_PAGE_NO
  <1> HIDE DEF k, first, count
  <1>10. FsmLocationForHeapPage(first + i) = [fsm_page_no |-> page_no, entry_index |-> i]
    <2> DEFINE h == first + i
               n == k * Capacity + i
    <2>1. n \div Capacity = k /\ n % Capacity = i
      BY <1>7
    <2>2. h - 1 = n
      BY <1>6
    <2> HIDE DEF h, n
    <2>3. (h - 1) \div Capacity = k /\ (h - 1) % Capacity = i
      BY <2>1, <2>2, Zenon
    <2>4. FsmLocationForHeapPage(h)
            = [fsm_page_no |-> 1 + ((h - 1) \div Capacity), entry_index |-> (h - 1) % Capacity]
      BY DEF FsmLocationForHeapPage
    <2>5. FsmLocationForHeapPage(h) = [fsm_page_no |-> 1 + k, entry_index |-> i]
      BY <2>3, <2>4, Zenon
    <2> QED BY <1>9, <2>5, Zenon DEF h
  <1> QED BY <1>8, <1>10 DEF first

LEMMA EntryExists ==
    ASSUME FsmTypeOK
    PROVE  EveryHeapPageHasAnEntry
  <1> SUFFICES ASSUME NEW h \in HeapPages, FsmLocationForHeapPage(h).fsm_page_no = page_no
               PROVE  InitializeError(page_no, FsmLocationForHeapPage(h).entry_index + 1) = "OK"
    BY DEF EveryHeapPageHasAnEntry
  <1> DEFINE k == (h - 1) \div Capacity
             i == (h - 1) % Capacity
             m == k * Capacity
             q == (INVALID_PAGE_NO - 1) \div Capacity
  <1>1. /\ h \in Nat /\ h - 1 \in Nat /\ h =< INVALID_PAGE_NO - 1 /\ INVALID_PAGE_NO - 1 \in Nat
        /\ Capacity \in Nat \ {0} /\ Modulus \in Nat /\ INVALID_PAGE_NO = Modulus - 1
    BY FsmPageAssumption DEF HeapPages, PageNos, INVALID_PAGE_NO
  <1>2. k \in Nat /\ i \in 0..(Capacity - 1) /\ h - 1 = m + i
    BY <1>1, DivMod
  <1>3. m \in Nat /\ k =< m
    BY <1>1, <1>2, TimesGrows
  <1>4. page_no = 1 + k
    BY DEF FsmLocationForHeapPage
  <1>5. FsmLocationForHeapPage(h).entry_index = i
    BY DEF FsmLocationForHeapPage
  <1> HIDE DEF k, i
  <1>6. page_no \in PageNos \ {0, INVALID_PAGE_NO}
    BY <1>1, <1>2, <1>3, <1>4 DEF PageNos
  <1>7. q \in Nat /\ k =< q
    <2>1. /\ q \in Nat /\ (INVALID_PAGE_NO - 1) % Capacity \in 0..(Capacity - 1)
          /\ INVALID_PAGE_NO - 1 = q * Capacity + ((INVALID_PAGE_NO - 1) % Capacity)
      BY <1>1, DivMod
    <2> HIDE DEF q
    <2>2. SUFFICES ASSUME q + 1 =< k PROVE FALSE
      BY <1>2, <2>1
    <2>3. (q + 1) * Capacity =< k * Capacity
      BY <1>1, <1>2, <2>1, <2>2, TimesGrows
    <2>4. (q + 1) * Capacity = q * Capacity + Capacity /\ q * Capacity \in Nat
      BY <1>1, <2>1
    <2> QED BY <1>1, <1>2, <1>3, <2>1, <2>3, <2>4
  <1>8. FirstHeapPageForFsmPage(page_no) = 1 + m
    <2>1. page_no - 1 = k
      BY <1>2, <1>4
    <2>2. FirstHeapPageForFsmPage(page_no) = (1 + m) % Modulus
      BY <1>2, <1>6, <1>7, <2>1 DEF FirstHeapPageForFsmPage
    <2> HIDE DEF m
    <2>3. 1 + m \in 0..(Modulus - 1)
      BY <1>1, <1>2, <1>3
    <2> QED BY <1>1, <2>2, <2>3
  <1> HIDE DEF m, q
  <1>9. 1 + m # INVALID_PAGE_NO /\ i + 1 =< Capacity
    BY <1>1, <1>2, <1>3
  <1>10. InitializedRangeFits(1 + m, i + 1)
    BY <1>1, <1>2, <1>3 DEF InitializedRangeFits
  <1>11. ~(i + 1 > Capacity)
    BY <1>1, <1>2, <1>9
  <1>12. InitializeError(page_no, i + 1) = "OK"
    BY <1>6, <1>8, <1>9, <1>10, <1>11 DEF InitializeError
  <1> QED BY <1>5, <1>12

LEMMA FsmTypeCorrect == FsmSpec => []FsmTypeOK
  <1>1. FsmInit => FsmTypeOK
    BY DEF FsmInit, FsmTypeOK
  <1>2. FsmTypeOK /\ [FsmNext]_fsmVars => FsmTypeOK'
    <2> SUFFICES ASSUME FsmTypeOK, [FsmNext]_fsmVars PROVE FsmTypeOK'
      OBVIOUS
    <2>1. ASSUME NEW count \in 0..(Capacity + 1), Initialize(count) PROVE FsmTypeOK'
      <3> DEFINE first == FirstHeapPageForFsmPage(page_no)
      <3>1. page_no \in PageNos \ {0, INVALID_PAGE_NO} /\ first # INVALID_PAGE_NO
        BY <2>1 DEF FsmTypeOK, Initialize, InitializeError
      <3>2. \A n \in Nat : n % Modulus \in 0..(Modulus - 1)
        BY FsmPageAssumption
      <3>3. first = 1 + (page_no - 1) * Capacity /\ (page_no - 1) * Capacity \in Nat
        BY <3>1, FirstHeapPageExact, FsmPageAssumption, TimesGrows DEF PageNos, INVALID_PAGE_NO
      <3>4. first = (1 + (page_no - 1) * Capacity) % Modulus
        BY <3>1 DEF FirstHeapPageForFsmPage
      <3>5. first \in PageNos
        BY <3>2, <3>3, <3>4 DEF PageNos
      <3> HIDE DEF first
      <3>6. page' = [common |-> TRUE, first_heap_page_no |-> first, entry_count |-> count,
                     entries |-> [i \in EntryIndex |-> 0]]
        BY <2>1 DEF Initialize, first
      <3>7. page' \in FsmImage
        BY <3>5, <3>6, FsmPageAssumption DEF FsmImage
      <3> QED BY <2>1, <3>7 DEF FsmTypeOK, Initialize
    <2>2. ASSUME NEW i \in EntryIndex, NEW c \in Categories, SetCategory(i, c) PROVE FsmTypeOK'
      BY <2>2 DEF FsmTypeOK, SetCategory, FsmImage
    <2>3. CASE UNCHANGED fsmVars
      BY <2>3 DEF fsmVars, FsmTypeOK
    <2> QED BY <2>1, <2>2, <2>3 DEF FsmNext
  <1> QED BY <1>1, <1>2, PTL DEF FsmSpec

(* Whatever the width of page numbers and the capacity of a page, and whatever Initialize    *)
(* and SetCategory did: the entries of a page that passes Validate stand for valid heap     *)
(* pages that FsmLocationForHeapPage sends back to that very entry; the product in          *)
(* FirstHeapPageForFsmPage never wraps into another page's range.                           *)
THEOREM RangesAreExact == FsmSpec => []RangeMatchesMapping
  BY FsmTypeCorrect, RangeExact, PTL

(* For the same parameters no heap page is refused an entry: the FSM page it maps to can be  *)
(* initialised up to its entry, also at the end of the page-number range.                   *)
THEOREM EntriesCoverHeap == FsmSpec => []EveryHeapPageHasAnEntry
  BY FsmTypeCorrect, EntryExists, PTL
=============================================================================
