----------------------------- MODULE FsmCategory -----------------------------
(***************************************************************************)
(* The free-space categories of src/src/storage/heap/fsm_page.cpp: the gap  *)
(* of a heap page is stored as one byte, and a tuple asks for a category.   *)
(***************************************************************************)
EXTENDS Integers

CONSTANTS
    PageSize,      \* PAGE_SIZE
    HeaderSize,    \* HEAP_PAGE_TOTAL_HEADER_SIZE
    SlotSize,      \* HEAP_PAGE_SLOT_ENTRY_ENCODED_SIZE
    CategoryMax    \* FSM_CATEGORY_MAX, the largest value of a byte

ASSUME CategoryAssumption ==
    /\ PageSize \in Nat /\ HeaderSize \in Nat /\ SlotSize \in Nat
    /\ PageSize > HeaderSize + SlotSize + 1
    /\ CategoryMax \in Nat \ {0}

Category == 0..CategoryMax

(* FSM_MAX_CONTIGUOUS_FREE_BYTES *)
MaxFree == PageSize - HeaderSize

(* FSM_MAX_USABLE_INSERTION_BYTES = HEAP_PAGE_MAX_RAW_TUPLE_SIZE *)
MaxTuple == PageSize - HeaderSize - SlotSize - 1

Lesser(a, b) == IF a =< b THEN a ELSE b

(* Mutation: neither the slot an insertion appends nor the largest tuple is accounted for. *)
FsmCategoryUnclamped(free) == (free * CategoryMax) \div MaxTuple

(* The category of a page with a gap of so many bytes, rounded down. *)
FsmCategoryForFreeBytes(free) ==
    LET bounded == Lesser(free, MaxFree) IN
    IF bounded =< SlotSize THEN 0
    ELSE (Lesser(bounded - SlotSize, MaxTuple) * CategoryMax) \div MaxTuple

(* The least number of tuple bytes a page of this category has room for. *)
FsmCategoryMinimumUsableBytes(category) ==
    (category * MaxTuple + CategoryMax - 1) \div CategoryMax

(* Mutation: the request is rounded down. *)
MinimumFsmCategoryRoundedDown(n) == (n * CategoryMax) \div MaxTuple

(* The least category that has room for n bytes, n =< MaxTuple, rounded up. *)
MinimumFsmCategoryForTupleBytes(n) ==
    IF n = 0 THEN 0 ELSE (((n - 1) * CategoryMax) \div MaxTuple) + 1
=============================================================================
