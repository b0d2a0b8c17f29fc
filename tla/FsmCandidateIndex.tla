-------------------------- MODULE FsmCandidateIndex --------------------------
(***************************************************************************)
(* The in-memory index over the free-space categories of a relation's heap  *)
(* pages: a map from page to category and one ordered set of pages for      *)
(* every category. Allocation may fail inside every insertion.              *)
(***************************************************************************)
EXTENDS FsmCategory

CONSTANTS
    Pages,     \* the valid heap page numbers
    Gaps,      \* the gaps a heap page may report
    NoCategory \* a page that is not in page_categories_

ASSUME IndexAssumption ==
    Pages \subseteq Nat /\ Gaps \subseteq 0..MaxFree /\ NoCategory \notin Category

VARIABLES
    page_categories,  \* page_categories_
    buckets,          \* buckets_
    gap               \* the gap each tracked page had when its category was computed

indexVars == <<page_categories, buckets, gap>>

TypeOK ==
    /\ page_categories \in [Pages -> Category \cup {NoCategory}]
    /\ buckets \in [Category -> SUBSET Pages]
    /\ gap \in [Pages -> Gaps \cup {0}]

Init ==
    /\ page_categories = [p \in Pages |-> NoCategory]
    /\ buckets = [c \in Category |-> {}]
    /\ gap = [p \in Pages |-> 0]

Tracked(p) == page_categories[p] # NoCategory

(* Upsert of a page that is not tracked. *)
UpsertNew(p, free) ==
    LET c == FsmCategoryForFreeBytes(free) IN
    /\ ~Tracked(p)
    /\ page_categories' = [page_categories EXCEPT ![p] = c]
    /\ buckets' = [buckets EXCEPT ![c] = @ \cup {p}]
    /\ gap' = [gap EXCEPT ![p] = free]

(* Mutation: the bucket's insertion throws and the map keeps its new entry. *)
UpsertThrowsHalfway(p, free) ==
    /\ ~Tracked(p)
    /\ page_categories' = [page_categories EXCEPT ![p] = FsmCategoryForFreeBytes(free)]
    /\ UNCHANGED <<buckets, gap>>

(* An insertion throws bad_alloc: the map's own, or the bucket's after which the map's is   *)
(* taken back.                                                                              *)
UpsertThrows(p, free) ==
    /\ page_categories[p] # FsmCategoryForFreeBytes(free)
    /\ UNCHANGED indexVars

(* Upsert of a tracked page: into the new bucket, out of the old one. *)
UpsertTracked(p, free) ==
    LET c == FsmCategoryForFreeBytes(free)
        old == page_categories[p]
    IN /\ Tracked(p)
       /\ page_categories' = [page_categories EXCEPT ![p] = c]
       /\ buckets' = [b \in Category |-> (buckets[b] \ (IF b = old THEN {p} ELSE {}))
                                         \cup (IF b = c THEN {p} ELSE {})]
       /\ gap' = [gap EXCEPT ![p] = free]

(* Remove; of an untracked page it does nothing. *)
Remove(p) ==
    /\ Tracked(p)
    /\ page_categories' = [page_categories EXCEPT ![p] = NoCategory]
    /\ buckets' = [buckets EXCEPT ![page_categories[p]] = @ \ {p}]
    /\ gap' = [gap EXCEPT ![p] = 0]

Clear ==
    /\ page_categories' = [p \in Pages |-> NoCategory]
    /\ buckets' = [c \in Category |-> {}]
    /\ gap' = [p \in Pages |-> 0]

(* Mutation: the search starts one bucket too late. *)
SufficientAbove(n) == {c \in Category : c > MinimumFsmCategoryForTupleBytes(n) /\ buckets[c] # {}}

(* The categories FindCandidate(n) may take a page from. *)
Sufficient(n) == {c \in Category : c >= MinimumFsmCategoryForTupleBytes(n) /\ buckets[c] # {}}

(* FindCandidate(n) returns page p: the first of the first sufficient bucket. *)
FindCandidate(n, p) ==
    \E c \in Sufficient(n) :
       /\ \A b \in Sufficient(n) : c =< b
       /\ p \in buckets[c]
       /\ \A q \in buckets[c] : p =< q

Next ==
    \/ \E p \in Pages, free \in Gaps :
          UpsertNew(p, free) \/ UpsertTracked(p, free) \/ UpsertThrows(p, free)
    \/ \E p \in Pages : Remove(p)
    \/ Clear

Spec == Init /\ [][Next]_indexVars

-----------------------------------------------------------------------------
(* The map and the buckets agree: every tracked page is in the bucket of its category and  *)
(* in no other, whatever Upsert, Remove and allocation failures went before.               *)
IndexAgrees ==
    \A p \in Pages, c \in Category : p \in buckets[c] <=> page_categories[p] = c

(* A page FindCandidate returns for n bytes has room for the tuple and the slot Insert      *)
(* appends, although both its gap and the request were rounded to a category.               *)
CandidateFits ==
    \A n \in 0..MaxTuple, p \in Pages : FindCandidate(n, p) => gap[p] >= n + SlotSize \/ n = 0

(* FindCandidate overlooks no page by more than the rounding of one category: if it finds  *)
(* nothing for n bytes, no tracked page has room for n bytes and another step.             *)
NothingOverlooked ==
    \A n \in 0..MaxTuple :
       Sufficient(n) = {} =>
          \A p \in Pages : Tracked(p) =>
             Lesser(gap[p] - SlotSize, MaxTuple) < n + FsmCategoryMinimumUsableBytes(1)
=============================================================================
