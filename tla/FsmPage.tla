------------------------------ MODULE FsmPage ------------------------------
(***************************************************************************)
(* One FSM_DATA page (src/src/storage/heap/fsm_page.cpp): one byte for each *)
(* heap page of the range its own page number stands for. Page numbers are  *)
(* unsigned integers of fixed width, the largest of which is the sentinel.  *)
(***************************************************************************)
EXTENDS Integers

CONSTANTS
    Modulus,      \* 2^64: page numbers are 0..Modulus - 1
    Capacity,     \* FSM_PAGE_ENTRY_CAPACITY
    Categories    \* the category bytes stored, 0 among them

ASSUME FsmPageAssumption ==
    /\ Modulus \in Nat /\ Modulus > 2
    /\ Capacity \in Nat \ {0}
    /\ 0 \in Categories /\ Categories \subseteq Nat

VARIABLES
    page_no,    \* the page's identity
    page        \* the decoded headers and the entries

fsmVars == <<page_no, page>>

PageNos == 0..(Modulus - 1)
INVALID_PAGE_NO == Modulus - 1
EntryIndex == 0..(Capacity - 1)

(* common: the common header decodes and carries the fields of this FSM page. *)
FsmImage == [common : BOOLEAN, first_heap_page_no : PageNos, entry_count : 0..(Capacity + 1),
             entries : [EntryIndex -> Categories]]

FsmTypeOK == page_no \in PageNos /\ page \in FsmImage

-----------------------------------------------------------------------------
(* The mapping. *)

(* Mutation: the multiplication may wrap around. *)
FirstHeapPageWraps(no) ==
    IF no \in {0, INVALID_PAGE_NO} THEN INVALID_PAGE_NO
    ELSE (1 + (no - 1) * Capacity) % Modulus

(* FirstHeapPageForFsmPage; INVALID_PAGE_NO stands for its result false. *)
FirstHeapPageForFsmPage(no) ==
    IF no \in {0, INVALID_PAGE_NO} \/ no - 1 > (INVALID_PAGE_NO - 1) \div Capacity
    THEN INVALID_PAGE_NO
    ELSE (1 + (no - 1) * Capacity) % Modulus

(* Mutation: the last heap page a page number can name is left out. *)
InitializedRangeFitsBelow(first, count) ==
    count = 0 \/ first < (INVALID_PAGE_NO - 1) - (count - 1)

(* No initialised entry stands for the sentinel or beyond. *)
InitializedRangeFits(first, count) ==
    count = 0 \/ first =< (INVALID_PAGE_NO - 1) - (count - 1)

(* FsmLocationForHeapPage of a valid heap page. *)
FsmLocationForHeapPage(heap) ==
    [fsm_page_no |-> 1 + ((heap - 1) \div Capacity), entry_index |-> (heap - 1) % Capacity]

HeapPages == PageNos \ {0, INVALID_PAGE_NO}

-----------------------------------------------------------------------------
InitializeError(no, count) ==
    IF no \in {0, INVALID_PAGE_NO} THEN "INVALID_FSM_PAGE_NUMBER"
    ELSE IF FirstHeapPageForFsmPage(no) = INVALID_PAGE_NO THEN "HEAP_PAGE_RANGE_OVERFLOW"
    ELSE IF count > Capacity THEN "ENTRY_COUNT_OUT_OF_RANGE"
    ELSE IF ~InitializedRangeFits(FirstHeapPageForFsmPage(no), count)
         THEN "HEAP_PAGE_RANGE_OVERFLOW"
    ELSE "OK"

Validate(no, pg) ==
    /\ pg.common
    /\ no \notin {0, INVALID_PAGE_NO}
    /\ FirstHeapPageForFsmPage(no) # INVALID_PAGE_NO
    /\ pg.first_heap_page_no = FirstHeapPageForFsmPage(no)
    /\ pg.entry_count =< Capacity
    /\ InitializedRangeFits(pg.first_heap_page_no, pg.entry_count)
    /\ \A i \in EntryIndex : i >= pg.entry_count => pg.entries[i] = 0

(* Any page number, and a frame that holds whatever was read into it. *)
FsmInit == page_no \in PageNos /\ page \in FsmImage

Initialize(count) ==
    /\ InitializeError(page_no, count) = "OK"
    /\ page' = [common |-> TRUE, first_heap_page_no |-> FirstHeapPageForFsmPage(page_no),
                entry_count |-> count, entries |-> [i \in EntryIndex |-> 0]]
    /\ UNCHANGED page_no

SetCategory(i, c) ==
    /\ Validate(page_no, page)
    /\ i < page.entry_count
    /\ page' = [page EXCEPT !.entries[i] = c]
    /\ UNCHANGED page_no

FsmNext ==
    \/ \E count \in 0..(Capacity + 1) : Initialize(count)
    \/ \E i \in EntryIndex, c \in Categories : SetCategory(i, c)

FsmSpec == FsmInit /\ [][FsmNext]_fsmVars

-----------------------------------------------------------------------------
(* A page that passes Validate() describes exactly its own heap pages: entry i stands for    *)
(* heap page first + i, a valid page number, and FsmLocationForHeapPage sends that page here *)
(* and nowhere else, up to the end of the page-number range.                                *)
RangeMatchesMapping ==
    Validate(page_no, page) =>
       \A i \in 0..(page.entry_count - 1) :
          /\ page.first_heap_page_no + i \in HeapPages
          /\ FsmLocationForHeapPage(page.first_heap_page_no + i)
               = [fsm_page_no |-> page_no, entry_index |-> i]

(* Every heap page has an entry: the FSM page it maps to can be initialised up to it.        *)
EveryHeapPageHasAnEntry ==
    \A h \in HeapPages :
       FsmLocationForHeapPage(h).fsm_page_no = page_no =>
          InitializeError(page_no, FsmLocationForHeapPage(h).entry_index + 1) = "OK"
=============================================================================
