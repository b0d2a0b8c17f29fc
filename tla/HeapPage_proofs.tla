-------------------------- MODULE HeapPage_proofs ---------------------------
(***************************************************************************)
(* Theorems about heap pages, for every page size, every number of slots    *)
(* and every image read from the file: the shortcuts of the validator are   *)
(* exact, every mutation keeps a valid page valid, and compaction moves the *)
(* tuples without losing a byte and without leaving a hole.                 *)
(*                                                                          *)
(* What the sort, the walk of the chain and the loops of compaction compute *)
(* is shown by induction on the number of their steps (InductionTo), which  *)
(* rests on the order of the natural numbers being well-founded.            *)
(***************************************************************************)
EXTENDS HeapPage, FiniteSetTheorems, WellFoundedInduction, TLAPS

(* A set of natural numbers with an element has a least one. *)
LEMMA LeastElement ==
    ASSUME NEW T \in SUBSET Nat, T # {}
    PROVE  \E m \in T : \A k \in T : m =< k
<1>1. PICK R : IsWellFoundedOn(R, Nat) /\ \A x, y \in Nat : <<y, x>> \in R <=> y < x
  <2> DEFINE R == OpToRel(<, Nat)
  <2>1. IsWellFoundedOn(R, Nat)
    BY NatLessThanWellFounded
  <2>2. \A x, y \in Nat : <<y, x>> \in R <=> y < x
    BY DEF OpToRel
  <2> QED
    BY <2>1, <2>2, Zenon
<1>2. PICK m \in T : \A k \in T : ~(<<k, m>> \in R)
  BY <1>1, WFMin, Zenon
<1>3. ASSUME NEW k \in T PROVE m =< k
  <2>1. k \in Nat /\ m \in Nat
    OBVIOUS
  <2>2. ~(k < m)
    BY <1>1, <1>2, <2>1
  <2> QED
    BY <2>1, <2>2
<1> QED
  BY <1>3

(* Induction up to n: a set that has 0, and i if it has i - 1, has all up to n. *)
LEMMA InductionTo ==
    ASSUME NEW n \in Nat, NEW T, 0 \in T, \A i \in 1..n : i - 1 \in T => i \in T
    PROVE  0..n \subseteq T
<1> SUFFICES ASSUME NEW j \in 0..n, j \notin T PROVE FALSE
  OBVIOUS
<1>1. PICK m \in (0..n) \ T : \A k \in (0..n) \ T : m =< k
  <2>1. (0..n) \ T \in SUBSET Nat /\ (0..n) \ T # {}
    OBVIOUS
  <2> QED
    BY <2>1, LeastElement
<1>2. m \in 1..n /\ m - 1 \in 0..n
  OBVIOUS
<1>3. m - 1 \in T
  BY <1>1, <1>2
<1> QED
  BY <1>2, <1>3

(* f[0] is base, and f[i] what step i makes of the value before. *)
Iterates(f, n, X, base, step) ==
    f \in [0..n -> X] /\ f[0] = base /\ \A i \in 1..n : f[i] = step[i][f[i - 1]]

(* A function defined by recursion on 0..n exists if its values stay in a set. *)
LEMMA RecursiveFunction ==
    ASSUME NEW n \in Nat, NEW X, NEW base \in X, NEW step \in [1..n -> [X -> X]]
    PROVE  \E f : Iterates(f, n, X, base, step)
<1> DEFINE T == {m \in 0..n : \E f \in [0..m -> X] :
                    f[0] = base /\ \A i \in 1..m : f[i] = step[i][f[i - 1]]}
<1>1. 0 \in T
  <2> DEFINE f == [i \in 0..0 |-> base]
  <2>1. f \in [0..0 -> X] /\ f[0] = base /\ \A i \in 1..0 : f[i] = step[i][f[i - 1]]
    OBVIOUS
  <2>2. 0 \in 0..n
    OBVIOUS
  <2> HIDE DEF f
  <2> QED
    BY <2>1, <2>2
<1>2. ASSUME NEW m \in 1..n, m - 1 \in T PROVE m \in T
  <2>1. PICK f \in [0..(m - 1) -> X] :
           f[0] = base /\ \A i \in 1..(m - 1) : f[i] = step[i][f[i - 1]]
    BY <1>2
  <2> DEFINE g == [i \in 0..m |-> IF i = m THEN step[m][f[m - 1]] ELSE f[i]]
  <2>2. m - 1 \in 0..(m - 1) /\ f[m - 1] \in X /\ step[m] \in [X -> X]
    BY <2>1
  <2>3. g \in [0..m -> X] /\ g[0] = base
    BY <2>1, <2>2
  <2>4. ASSUME NEW i \in 1..m PROVE g[i] = step[i][g[i - 1]]
    BY <2>1
  <2>5. m \in 0..n
    OBVIOUS
  <2> HIDE DEF g
  <2> QED
    BY <2>3, <2>4, <2>5
<1> HIDE DEF T
<1>3. n \in T
  <2>1. 0..n \subseteq T
    BY <1>1, <1>2, InductionTo
  <2> QED
    BY <2>1
<1> QED
  BY <1>3 DEF T, Iterates

-----------------------------------------------------------------------------
(* A finite set in a strict total order, given as a set of pairs. *)

StrictOrder(R, S) ==
    /\ \A a \in S : <<a, a>> \notin R
    /\ \A a, b, c \in S : <<a, b>> \in R /\ <<b, c>> \in R => <<a, c>> \in R
    /\ \A a, b \in S : a = b \/ <<a, b>> \in R \/ <<b, a>> \in R

Below(R, S, s) == {r \in S : <<r, s>> \in R}

(* The number of elements below an element is its place in the order. *)
LEMMA PlaceIncreases ==
    ASSUME NEW S, IsFiniteSet(S), NEW R, StrictOrder(R, S)
    PROVE  /\ \A s \in S : Cardinality(Below(R, S, s)) \in 0..(Cardinality(S) - 1)
           /\ \A a, b \in S : <<a, b>> \in R =>
                 Cardinality(Below(R, S, a)) < Cardinality(Below(R, S, b))
<1>1. \A s \in S : /\ IsFiniteSet(Below(R, S, s))
                   /\ Cardinality(Below(R, S, s)) \in Nat
  BY FS_Subset, FS_CardinalityType DEF Below
<1>2. ASSUME NEW a \in S, NEW b \in S, <<a, b>> \in R
      PROVE  Cardinality(Below(R, S, a)) < Cardinality(Below(R, S, b))
  <2>1. Below(R, S, a) \in SUBSET Below(R, S, b) /\ Below(R, S, a) # Below(R, S, b)
    BY <1>2 DEF Below, StrictOrder
  <2> QED
    BY <1>1, <2>1, FS_Subset
<1>3. ASSUME NEW s \in S PROVE Cardinality(Below(R, S, s)) \in 0..(Cardinality(S) - 1)
  <2>1. Below(R, S, s) \in SUBSET S /\ Below(R, S, s) # S
    BY DEF Below, StrictOrder
  <2>2. Cardinality(Below(R, S, s)) =< Cardinality(S) /\ Cardinality(Below(R, S, s)) # Cardinality(S)
    BY <2>1, FS_Subset
  <2> QED
    BY <1>1, <2>2, FS_CardinalityType
<1> QED
  BY <1>2, <1>3

(* Every place is taken. *)
LEMMA EveryPlaceIsTaken ==
    ASSUME NEW S, IsFiniteSet(S), NEW R, StrictOrder(R, S),
           NEW i \in 1..Cardinality(S)
    PROVE  \E s \in S : Cardinality(Below(R, S, s)) = i - 1
<1> DEFINE n == Cardinality(S)
           place == [s \in S |-> Cardinality(Below(R, S, s))]
<1>1. n \in Nat
  BY FS_CardinalityType
<1>2. place \in [S -> 0..(n - 1)]
  BY PlaceIncreases
<1>3. ASSUME NEW a \in S, NEW b \in S, place[a] = place[b] PROVE a = b
  <2>1. <<a, b>> \notin R /\ <<b, a>> \notin R
    <3>1. n \in Nat /\ place[a] \in 0..(n - 1)
      BY <1>1, <1>2
    <3>2. ~(place[a] < place[b]) /\ ~(place[b] < place[a])
      BY <3>1, <1>3
    <3> QED
      BY <3>2, PlaceIncreases
  <2> QED
    BY <2>1 DEF StrictOrder
<1> HIDE DEF n, place
<1>4. IsFiniteSet(0..(n - 1)) /\ Cardinality(0..(n - 1)) = n
  <2>1. 0 \in Int /\ n - 1 \in Int
    BY <1>1
  <2>2. /\ IsFiniteSet(0..(n - 1))
        /\ Cardinality(0..(n - 1)) = IF 0 > n - 1 THEN 0 ELSE n - 1 - 0 + 1
    BY <2>1, FS_Interval
  <2> QED
    BY <1>1, <2>2
<1>5. place \in Injection(S, 0..(n - 1))
  BY <1>2, <1>3 DEF Injection, IsInjective
<1>6. place \in Surjection(S, 0..(n - 1))
  BY <1>4, <1>5, FS_Injection DEF n
<1>7. i - 1 \in 0..(n - 1)
  BY <1>1 DEF n
<1> QED
  BY <1>6, <1>7 DEF Surjection, place

(* An order is sorted if it lists every element and a lower one first. *)
Sorted(order, S, R) ==
    /\ order \in [1..Cardinality(S) -> S]
    /\ \A s \in S : \E i \in 1..Cardinality(S) : order[i] = s
    /\ \A i, j \in 1..Cardinality(S) : i < j => <<order[i], order[j]>> \in R

(* Putting each element at its place sorts. *)
LEMMA OrderByPlaceIsSorted ==
    ASSUME NEW S, IsFiniteSet(S), NEW R, StrictOrder(R, S),
           NEW order \in [1..Cardinality(S) -> S],
           \A i \in 1..Cardinality(S) : Cardinality(Below(R, S, order[i])) = i - 1
    PROVE  Sorted(order, S, R)
<1>1. Cardinality(S) \in Nat
  BY FS_CardinalityType
<1>2. ASSUME NEW i \in 1..Cardinality(S), NEW j \in 1..Cardinality(S), i < j
      PROVE  <<order[i], order[j]>> \in R
  <2>1. order[i] # order[j]
    BY <1>1, <1>2
  <2>2. ~(Cardinality(Below(R, S, order[j])) < Cardinality(Below(R, S, order[i])))
    BY <1>1, <1>2
  <2>3. <<order[j], order[i]>> \notin R
    BY <2>2, PlaceIncreases
  <2> QED
    BY <2>1, <2>3 DEF StrictOrder
<1>3. ASSUME NEW s \in S PROVE \E i \in 1..Cardinality(S) : order[i] = s
  <2> DEFINE i == Cardinality(Below(R, S, s)) + 1
  <2>1. Cardinality(Below(R, S, s)) \in 0..(Cardinality(S) - 1)
    BY PlaceIncreases
  <2>2. i \in 1..Cardinality(S)
    BY <1>1, <2>1
  <2>3. Cardinality(Below(R, S, order[i])) = Cardinality(Below(R, S, s))
    BY <2>1, <2>2
  <2>4. <<order[i], s>> \notin R /\ <<s, order[i]>> \notin R
    <3>1. /\ ~(Cardinality(Below(R, S, order[i])) < Cardinality(Below(R, S, s)))
          /\ ~(Cardinality(Below(R, S, s)) < Cardinality(Below(R, S, order[i])))
      BY <2>1, <2>3
    <3> QED
      BY <2>2, <3>1, PlaceIncreases
  <2> QED
    BY <2>2, <2>4 DEF StrictOrder
<1> QED
  BY <1>2, <1>3 DEF Sorted

(* The two orders that heap pages sort by. *)
RetainedBefore(pg) ==
    {p \in Retained(pg) \X Retained(pg) :
        LET l == pg.slots[p[1]]  r == pg.slots[p[2]] IN
        \/ l.tuple_offset < r.tuple_offset
        \/ l.tuple_offset = r.tuple_offset /\ l.tuple_length < r.tuple_length
        \/ l.tuple_offset = r.tuple_offset /\ l.tuple_length = r.tuple_length /\ p[1] < p[2]}

LiveBefore(pg) ==
    {p \in Live(pg) \X Live(pg) :
        \/ pg.slots[p[1]].tuple_offset > pg.slots[p[2]].tuple_offset
        \/ pg.slots[p[1]].tuple_offset = pg.slots[p[2]].tuple_offset /\ p[1] < p[2]}

(* The slots of a page, whatever its bytes. *)
LEMMA SlotTypes ==
    ASSUME NEW pg, IsPage(pg)
    PROVE  /\ pg.slot_count \in Nat
           /\ SlotIds(pg) \subseteq Nat
           /\ IsFiniteSet(SlotIds(pg)) /\ IsFiniteSet(Retained(pg)) /\ IsFiniteSet(Live(pg))
           /\ IsFiniteSet(Unused(pg))
           /\ Retained(pg) \subseteq SlotIds(pg) /\ Live(pg) \subseteq SlotIds(pg)
           /\ Unused(pg) \subseteq SlotIds(pg)
           /\ pg.slots \in [SlotIds(pg) -> HeapSlotEntry]
           /\ \A s \in SlotIds(pg) : /\ pg.slots[s].tuple_offset \in Nat
                                     /\ pg.slots[s].tuple_length \in Nat
<1>1. /\ pg.slot_count \in Nat /\ pg.slots \in [SlotIds(pg) -> HeapSlotEntry]
  BY HeapAssumption DEF IsPage
<1>2. /\ SlotIds(pg) \subseteq Nat
      /\ Retained(pg) \in SUBSET SlotIds(pg) /\ Live(pg) \in SUBSET SlotIds(pg)
      /\ Unused(pg) \in SUBSET SlotIds(pg)
  BY <1>1 DEF SlotIds, Retained, Live, Unused
<1>3. IsFiniteSet(SlotIds(pg))
  <2>1. 0 \in Int /\ pg.slot_count - 1 \in Int
    BY <1>1
  <2> QED
    BY <2>1, FS_Interval DEF SlotIds
<1>4. IsFiniteSet(Retained(pg)) /\ IsFiniteSet(Live(pg)) /\ IsFiniteSet(Unused(pg))
  BY <1>2, <1>3, FS_Subset
<1>5. \A s \in SlotIds(pg) : pg.slots[s].tuple_offset \in Nat /\ pg.slots[s].tuple_length \in Nat
  BY <1>1 DEF HeapSlotEntry
<1> QED
  BY <1>1, <1>2, <1>3, <1>4, <1>5

(* The order of pass 2 is sorted. *)
LEMMA RetainedOrderSorts ==
    ASSUME NEW pg, IsPage(pg)
    PROVE  Sorted(RetainedOrder(pg), Retained(pg), RetainedBefore(pg))
<1> DEFINE S == Retained(pg)
           R == RetainedBefore(pg)
           order == RetainedOrder(pg)
<1>1. IsFiniteSet(S) /\ Cardinality(S) \in Nat
  BY SlotTypes, FS_CardinalityType
<1>2. \A s \in S : s \in Nat /\ pg.slots[s].tuple_offset \in Nat /\ pg.slots[s].tuple_length \in Nat
  BY SlotTypes
<1>3. StrictOrder(R, S)
  BY <1>2 DEF StrictOrder, RetainedBefore
<1>4. \A s \in S : Below(R, S, s) = {r \in S :
         LET left == pg.slots[r]  right == pg.slots[s] IN
         \/ left.tuple_offset < right.tuple_offset
         \/ left.tuple_offset = right.tuple_offset /\ left.tuple_length < right.tuple_length
         \/ /\ left.tuple_offset = right.tuple_offset /\ left.tuple_length = right.tuple_length
            /\ r < s}
  BY DEF Below, RetainedBefore
<1>5. order = [i \in 1..Cardinality(S) |->
                 CHOOSE s \in S : Cardinality({r \in S :
         LET left == pg.slots[r]  right == pg.slots[s] IN
         \/ left.tuple_offset < right.tuple_offset
         \/ left.tuple_offset = right.tuple_offset /\ left.tuple_length < right.tuple_length
         \/ /\ left.tuple_offset = right.tuple_offset /\ left.tuple_length = right.tuple_length
            /\ r < s}) = i - 1]
  BY DEF RetainedOrder, SortedBy
<1>6. ASSUME NEW i \in 1..Cardinality(S)
      PROVE  order[i] \in S /\ Cardinality(Below(R, S, order[i])) = i - 1
  <2>1. \E s \in S : Cardinality(Below(R, S, s)) = i - 1
    BY <1>1, <1>3, EveryPlaceIsTaken
  <2> HIDE DEF S, R, order
  <2> QED
    BY <1>4, <1>5, <2>1
<1> HIDE DEF S, R, order
<1>7. order \in [1..Cardinality(S) -> S]
  BY <1>5, <1>6
<1>8. Sorted(order, S, R)
  BY <1>1, <1>3, <1>6, <1>7, OrderByPlaceIsSorted
<1> QED
  BY <1>8 DEF S, R, order

(* The order of a compaction is sorted. *)
LEMMA LiveOrderSorts ==
    ASSUME NEW pg, IsPage(pg)
    PROVE  Sorted(LiveOrder(pg), Live(pg), LiveBefore(pg))
<1> DEFINE S == Live(pg)
           R == LiveBefore(pg)
           order == LiveOrder(pg)
<1>1. IsFiniteSet(S) /\ Cardinality(S) \in Nat
  BY SlotTypes, FS_CardinalityType
<1>2. \A s \in S : s \in Nat /\ pg.slots[s].tuple_offset \in Nat
  BY SlotTypes
<1>3. StrictOrder(R, S)
  BY <1>2 DEF StrictOrder, LiveBefore
<1>4. \A s \in S : Below(R, S, s) = {r \in S :
         \/ pg.slots[r].tuple_offset > pg.slots[s].tuple_offset
         \/ pg.slots[r].tuple_offset = pg.slots[s].tuple_offset /\ r < s}
  BY DEF Below, LiveBefore
<1>5. order = [i \in 1..Cardinality(S) |->
                 CHOOSE s \in S : Cardinality({r \in S :
         \/ pg.slots[r].tuple_offset > pg.slots[s].tuple_offset
         \/ pg.slots[r].tuple_offset = pg.slots[s].tuple_offset /\ r < s}) = i - 1]
  BY DEF LiveOrder, SortedBy
<1>6. ASSUME NEW i \in 1..Cardinality(S)
      PROVE  order[i] \in S /\ Cardinality(Below(R, S, order[i])) = i - 1
  <2>1. \E s \in S : Cardinality(Below(R, S, s)) = i - 1
    BY <1>1, <1>3, EveryPlaceIsTaken
  <2> HIDE DEF S, R, order
  <2> QED
    BY <1>4, <1>5, <2>1
<1> HIDE DEF S, R, order
<1>7. order \in [1..Cardinality(S) -> S]
  BY <1>5, <1>6
<1>8. Sorted(order, S, R)
  BY <1>1, <1>3, <1>6, <1>7, OrderByPlaceIsSorted
<1> QED
  BY <1>8 DEF S, R, order

-----------------------------------------------------------------------------
(* The overlap check. *)

Disjoint(pg, a, b) ==
    \/ End(pg.slots[a]) =< pg.slots[b].tuple_offset
    \/ End(pg.slots[b]) =< pg.slots[a].tuple_offset

(* Neighbours in the order that do not overlap leave no overlap anywhere: between two slots  *)
(* of the order the next one begins where the first has ended, and the others not before.    *)
LEMMA OverlapCheck ==
    ASSUME NEW pg, IsPage(pg)
    PROVE  CheckRetainedRangesDisjoint(pg)
              <=> \A a, b \in Retained(pg) : a # b => Disjoint(pg, a, b)
<1> DEFINE S == Retained(pg)
           n == Cardinality(S)
           order == RetainedOrder(pg)
<1>1. n \in Nat
  BY SlotTypes, FS_CardinalityType
<1>2. \A s \in S : /\ s \in Nat /\ pg.slots[s].tuple_offset \in Nat
                   /\ pg.slots[s].tuple_length \in Nat \ {0}
  BY SlotTypes DEF Retained
<1>3. /\ \A i \in 1..n : order[i] \in S
      /\ \A s \in S : \E i \in 1..n : order[i] = s
  BY RetainedOrderSorts DEF Sorted
<1>4. \A i, j \in 1..n : i < j =>
         /\ pg.slots[order[i]].tuple_offset =< pg.slots[order[j]].tuple_offset
         /\ order[i] # order[j]
  <2> SUFFICES ASSUME NEW i \in 1..n, NEW j \in 1..n, i < j
               PROVE  /\ pg.slots[order[i]].tuple_offset =< pg.slots[order[j]].tuple_offset
                      /\ order[i] # order[j]
    OBVIOUS
  <2>1. <<order[i], order[j]>> \in RetainedBefore(pg)
    BY RetainedOrderSorts DEF Sorted
  <2>2. order[i] \in S /\ order[j] \in S
    BY <1>3
  <2> QED
    BY <1>2, <2>1, <2>2 DEF RetainedBefore
<1>5. CheckRetainedRangesDisjoint(pg) <=>
         \A i \in 2..n : pg.slots[order[i]].tuple_offset >= End(pg.slots[order[i - 1]])
  BY DEF CheckRetainedRangesDisjoint
<1> HIDE DEF n, S, order
<1>6. ASSUME CheckRetainedRangesDisjoint(pg), NEW a \in S, NEW b \in S, a # b
      PROVE  Disjoint(pg, a, b)
  <2>1. ASSUME NEW i \in 1..n, NEW j \in 1..n, i < j
        PROVE  End(pg.slots[order[i]]) =< pg.slots[order[j]].tuple_offset
    <3>1. i + 1 \in 2..n /\ i + 1 \in 1..n /\ (i + 1) - 1 = i
      BY <1>1, <2>1
    <3>2. End(pg.slots[order[i]]) =< pg.slots[order[i + 1]].tuple_offset
      <4>1. pg.slots[order[i + 1]].tuple_offset >= End(pg.slots[order[(i + 1) - 1]])
        BY <1>5, <1>6, <3>1
      <4>2. /\ order[i] \in S /\ order[i + 1] \in S
            /\ End(pg.slots[order[i]]) \in Nat /\ pg.slots[order[i + 1]].tuple_offset \in Nat
        BY <1>2, <1>3, <3>1 DEF End
      <4> QED
        BY <3>1, <4>1, <4>2
    <3>3. pg.slots[order[i + 1]].tuple_offset =< pg.slots[order[j]].tuple_offset
      <4>1. CASE i + 1 = j
        BY <1>2, <1>3, <4>1
      <4>2. CASE i + 1 < j
        BY <1>4, <3>1, <4>2
      <4> QED
        BY <1>1, <2>1, <4>1, <4>2
    <3>4. /\ order[i] \in S /\ order[i + 1] \in S /\ order[j] \in S
      BY <1>3, <3>1
    <3>5. /\ End(pg.slots[order[i]]) \in Nat /\ pg.slots[order[i + 1]].tuple_offset \in Nat
          /\ pg.slots[order[j]].tuple_offset \in Nat
      BY <1>2, <3>4 DEF End
    <3> QED
      BY <3>2, <3>3, <3>5
  <2>2. PICK i \in 1..n : order[i] = a
    BY <1>3
  <2>3. PICK j \in 1..n : order[j] = b
    BY <1>3
  <2>4. i < j \/ j < i
    BY <1>1, <1>6, <2>2, <2>3
  <2> QED
    BY <2>1, <2>2, <2>3, <2>4 DEF Disjoint
<1>7. ASSUME \A a, b \in S : a # b => Disjoint(pg, a, b), NEW i \in 2..n
      PROVE  pg.slots[order[i]].tuple_offset >= End(pg.slots[order[i - 1]])
  <2>1. i \in 1..n /\ i - 1 \in 1..n /\ i - 1 < i
    BY <1>1
  <2>2. /\ order[i] \in S /\ order[i - 1] \in S /\ order[i - 1] # order[i]
        /\ pg.slots[order[i - 1]].tuple_offset =< pg.slots[order[i]].tuple_offset
    BY <1>3, <1>4, <2>1
  <2>3. Disjoint(pg, order[i - 1], order[i])
    BY <1>7, <2>2
  <2> QED
    BY <1>2, <2>2, <2>3 DEF Disjoint, End
<1> QED
  BY <1>5, <1>6, <1>7 DEF S

-----------------------------------------------------------------------------
(* The free-slot chain. *)

(* The walk of pass 4, link by link. *)
LEMMA WalkSteps ==
    ASSUME NEW pg, IsPage(pg)
    PROVE  /\ DOMAIN Walk(pg) = 0..pg.slot_count
           /\ Walk(pg)[0] = pg.free_slot_head
           /\ \A i \in 1..pg.slot_count : Walk(pg)[i] =
                 IF Walk(pg)[i - 1] \in Unused(pg) THEN pg.slots[Walk(pg)[i - 1]].aux ELSE NoSlot
<1> DEFINE n == pg.slot_count
           X == Nat \cup {NoSlot}
           head == pg.free_slot_head
           U == Unused(pg)
           step == [i \in 1..n |-> [x \in X |-> IF x \in U THEN pg.slots[x].aux ELSE NoSlot]]
<1>1. n \in Nat /\ head \in X
  BY SlotTypes DEF IsPage
<1>2. \A x \in U : pg.slots[x].aux \in X
  BY SlotTypes DEF HeapSlotEntry
<1>3. step \in [1..n -> [X -> X]]
  BY <1>2
<1> HIDE DEF step, n, head, X
<1>4. PICK f : f \in [0..n -> X] /\ f[0] = head /\ \A i \in 1..n : f[i] = step[i][f[i - 1]]
  <2>1. PICK f : Iterates(f, n, X, head, step)
    BY <1>1, <1>3, RecursiveFunction
  <2> QED
    BY <2>1 DEF Iterates
<1>5. \A i \in 1..n : f[i] = IF f[i - 1] \in U THEN pg.slots[f[i - 1]].aux ELSE NoSlot
  <2> SUFFICES ASSUME NEW i \in 1..n
               PROVE f[i] = IF f[i - 1] \in U THEN pg.slots[f[i - 1]].aux ELSE NoSlot
    OBVIOUS
  <2>1. i - 1 \in 0..n /\ f[i - 1] \in X
    BY <1>1, <1>4
  <2> QED
    BY <1>4, <2>1 DEF step
<1>6. f = [i \in 0..n |-> IF i = 0 THEN head
                          ELSE IF f[i - 1] \in U THEN pg.slots[f[i - 1]].aux ELSE NoSlot]
  BY <1>1, <1>4, <1>5
<1>7. \E at : at = [i \in 0..n |-> IF i = 0 THEN head
                          ELSE IF at[i - 1] \in U THEN pg.slots[at[i - 1]].aux ELSE NoSlot]
  BY <1>6
<1>8. Walk(pg) = [i \in 0..n |-> IF i = 0 THEN head
                    ELSE IF Walk(pg)[i - 1] \in U THEN pg.slots[Walk(pg)[i - 1]].aux ELSE NoSlot]
  BY <1>7 DEF Walk, n, head
<1> HIDE DEF U
<1>9. /\ DOMAIN Walk(pg) = 0..n
      /\ Walk(pg)[0] = head
      /\ \A i \in 1..n : Walk(pg)[i] =
            IF Walk(pg)[i - 1] \in U THEN pg.slots[Walk(pg)[i - 1]].aux ELSE NoSlot
  BY <1>1, <1>8
<1> QED
  BY <1>9 DEF n, head, U

(* A chain that lists every UNUSED slot once. *)
IsChain(pg, chain) ==
    /\ pg.free_slot_head = IF chain = <<>> THEN NoSlot ELSE chain[1]
    /\ \A i \in DOMAIN chain :
          pg.slots[chain[i]].aux = IF i = Len(chain) THEN NoSlot ELSE chain[i + 1]

(* The slots that an accepted walk visits before its end are a chain of all UNUSED slots. *)
LEMMA ChainOfWalk ==
    ASSUME NEW pg, IsPage(pg), ValidateFreeSlotChain(pg)
    PROVE  \E chain \in SetToSeqs(Unused(pg)) : IsChain(pg, chain)
<1> DEFINE n == pg.slot_count
           U == Unused(pg)
           at == Walk(pg)
<1>1. /\ n \in Nat /\ U \subseteq 0..(n - 1) /\ IsFiniteSet(U)
  BY SlotTypes DEF SlotIds
<1>2. /\ \A s \in U : pg.slots[s].aux \in U \cup {NoSlot}
      /\ at[0] = pg.free_slot_head
      /\ at[0] \in U \cup {NoSlot}
      /\ DOMAIN at = 0..n
      /\ \A i \in 1..n : at[i] = IF at[i - 1] \in U THEN pg.slots[at[i - 1]].aux ELSE NoSlot
      /\ \A i, j \in 0..n : i < j /\ at[i] = at[j] => at[i] = NoSlot
      /\ {at[i] : i \in DOMAIN at} \ {NoSlot} = U
  BY WalkSteps DEF ValidateFreeSlotChain
<1>3. NoSlot \notin U
  BY <1>1, HeapAssumption
<1> HIDE DEF n, U, at
<1>4. \A i \in 0..n : at[i] \in U \cup {NoSlot}
  BY <1>1, <1>2
<1>5. PICK m \in 0..n : at[m] = NoSlot /\ \A k \in 0..n : at[k] = NoSlot => m =< k
  <2> DEFINE Ends == {k \in 0..n : at[k] = NoSlot}
  <2>1. Ends # {}
    <3> SUFFICES ASSUME Ends = {} PROVE FALSE
      OBVIOUS
    <3> DEFINE g == [i \in 0..n |-> at[i]]
    <3>1. g \in [0..n -> U] /\ \A i, j \in 0..n : i # j => g[i] # g[j]
      <4>1. \A i \in 0..n : at[i] # NoSlot /\ at[i] \in U
        BY <1>4
      <4>2. \A i, j \in 0..n : i < j => at[i] # at[j]
        BY <1>2, <4>1
      <4>3. \A i, j \in 0..n : i # j => i < j \/ j < i
        BY <1>1
      <4> QED
        BY <4>1, <4>2, <4>3
    <3>2. IsFiniteSet(0..n) /\ Cardinality(0..n) = n + 1
      <4>1. 0 \in Int /\ n \in Int
        BY <1>1
      <4>2. IsFiniteSet(0..n) /\ Cardinality(0..n) = IF 0 > n THEN 0 ELSE n - 0 + 1
        BY <4>1, FS_Interval
      <4> QED
        BY <1>1, <4>2
    <3>3. IsFiniteSet(0..(n - 1)) /\ Cardinality(0..(n - 1)) = n
      <4>1. 0 \in Int /\ n - 1 \in Int
        BY <1>1
      <4>2. IsFiniteSet(0..(n - 1))
            /\ Cardinality(0..(n - 1)) = IF 0 > n - 1 THEN 0 ELSE n - 1 - 0 + 1
        BY <4>1, FS_Interval
      <4> QED
        BY <1>1, <4>2
    <3>4. Cardinality(U) \in Nat /\ Cardinality(U) =< n
      <4>1. U \in SUBSET (0..(n - 1))
        BY <1>1
      <4> QED
        BY <1>1, <3>3, <4>1, FS_Subset, FS_CardinalityType
    <3>5. Cardinality(U) < Cardinality(0..n)
      BY <1>1, <3>2, <3>4
    <3> HIDE DEF g
    <3>6. \E x, y \in 0..n : x # y /\ g[x] = g[y]
      BY <1>1, <3>1, <3>2, <3>5, FS_PigeonHole
    <3> QED
      BY <3>1, <3>6
  <2>2. Ends \in SUBSET Nat
    BY <1>1
  <2>3. PICK m \in Ends : \A k \in Ends : m =< k
    BY <2>1, <2>2, LeastElement
  <2> QED
    BY <2>3
<1>6. \A i \in 0..n : i < m => at[i] \in U
  <2> SUFFICES ASSUME NEW i \in 0..n, i < m PROVE at[i] \in U
    OBVIOUS
  <2>1. at[i] # NoSlot
    BY <1>1, <1>5
  <2> QED
    BY <1>4, <2>1
<1>7. \A i \in 0..n : m =< i => at[i] = NoSlot
  <2> DEFINE T == {i \in 0..n : m =< i => at[i] = NoSlot}
  <2>1. 0 \in T
    BY <1>1, <1>5
  <2>2. ASSUME NEW i \in 1..n, i - 1 \in T PROVE i \in T
    <3>1. CASE i = m
      BY <1>5, <3>1
    <3>2. CASE m =< i /\ i # m
      BY <1>1, <1>2, <1>3, <2>2, <3>2
    <3>3. CASE ~(m =< i)
      BY <3>3
    <3> QED
      BY <3>1, <3>2, <3>3
  <2> HIDE DEF T
  <2>3. 0..n \subseteq T
    BY <1>1, <2>1, <2>2, InductionTo
  <2> QED
    BY <2>3 DEF T
<1> DEFINE chain == [i \in 1..m |-> at[i - 1]]
<1>8. chain \in [1..m -> U]
  BY <1>1, <1>6
<1>9. \A i, j \in 1..m : i # j => chain[i] # chain[j]
  <2> SUFFICES ASSUME NEW i \in 1..m, NEW j \in 1..m, i < j PROVE chain[i] # chain[j]
    BY <1>1
  <2>1. i - 1 \in 0..n /\ j - 1 \in 0..n /\ i - 1 < j - 1 /\ i - 1 < m
    BY <1>1
  <2> QED
    BY <1>2, <1>3, <1>6, <2>1
<1>10. \A s \in U : \E i \in 1..m : chain[i] = s
  <2> SUFFICES ASSUME NEW s \in U PROVE \E i \in 1..m : chain[i] = s
    OBVIOUS
  <2>1. PICK k \in 0..n : at[k] = s
    BY <1>2
  <2>2. k < m
    BY <1>1, <1>3, <1>7, <2>1
  <2>3. k + 1 \in 1..m /\ chain[k + 1] = s
    BY <1>1, <2>1, <2>2
  <2> QED
    BY <2>3
<1>11. Cardinality(U) = m
  <2>1. chain \in Bijection(1..m, U)
    BY <1>8, <1>9, <1>10 DEF Bijection, Injection, Surjection, IsInjective
  <2>2. ExistsBijection(1..m, U) /\ m \in Nat
    BY <2>1, <1>1 DEF ExistsBijection
  <2> QED
    BY <2>2, FS_CountingElements
<1>12. chain \in SetToSeqs(U)
  BY <1>8, <1>9, <1>11 DEF SetToSeqs
<1>13. IsChain(pg, chain)
  <2>1. DOMAIN chain = 1..m /\ Len(chain) = m /\ (chain = <<>> <=> m = 0)
    BY <1>1
  <2>2. pg.free_slot_head = IF m = 0 THEN NoSlot ELSE chain[1]
    BY <1>1, <1>2, <1>5
  <2>3. ASSUME NEW i \in 1..m PROVE pg.slots[chain[i]].aux = IF i = m THEN NoSlot ELSE chain[i + 1]
    <3>1. i - 1 \in 0..n /\ i \in 1..n /\ at[i - 1] \in U
      BY <1>1, <1>6
    <3>2. pg.slots[chain[i]].aux = at[i]
      BY <1>2, <3>1
    <3> QED
      BY <1>1, <1>5, <3>2
  <2> HIDE DEF chain
  <2> QED
    BY <2>1, <2>2, <2>3 DEF IsChain
<1> HIDE DEF chain
<1> QED
  BY <1>12, <1>13 DEF U

(* A chain of all UNUSED slots is walked to its end within slot_count steps, and accepted. *)
LEMMA WalkOfChain ==
    ASSUME NEW pg, IsPage(pg), NEW chain \in SetToSeqs(Unused(pg)), IsChain(pg, chain)
    PROVE  ValidateFreeSlotChain(pg)
<1> DEFINE n == pg.slot_count
           U == Unused(pg)
           m == Cardinality(U)
           at == Walk(pg)
           aux(s) == pg.slots[s].aux
<1>1. n \in Nat /\ U \subseteq 0..(n - 1) /\ IsFiniteSet(U) /\ m \in Nat
  BY SlotTypes, FS_CardinalityType DEF SlotIds
<1>2. NoSlot \notin U
  BY <1>1, HeapAssumption
<1>3. m =< n
  <2>1. 0 \in Int /\ n - 1 \in Int
    BY <1>1
  <2>2. IsFiniteSet(0..(n - 1))
        /\ Cardinality(0..(n - 1)) = IF 0 > n - 1 THEN 0 ELSE n - 1 - 0 + 1
    BY <2>1, FS_Interval
  <2>3. U \in SUBSET (0..(n - 1))
    BY <1>1
  <2>4. m =< Cardinality(0..(n - 1))
    BY <2>2, <2>3, FS_Subset
  <2> QED
    BY <1>1, <2>2, <2>4
<1>4. chain \in [1..m -> U] /\ \A i, j \in 1..m : i # j => chain[i] # chain[j]
  BY DEF SetToSeqs
<1>5. \A s \in U : \E i \in 1..m : chain[i] = s
  <2>1. chain \in Injection(1..m, U)
    BY <1>4 DEF Injection, IsInjective
  <2>2. IsFiniteSet(1..m) /\ Cardinality(1..m) = m
    <3>1. 1 \in Int /\ m \in Int
      BY <1>1
    <3> HIDE DEF m
    <3>2. IsFiniteSet(1..m) /\ Cardinality(1..m) = IF 1 > m THEN 0 ELSE m - 1 + 1
      BY <3>1, FS_Interval
    <3> QED
      BY <1>1, <3>2
  <2>3. chain \in Surjection(1..m, U)
    BY <1>1, <2>1, <2>2, FS_Injection
  <2> QED
    BY <2>3 DEF Surjection
<1>6. /\ pg.free_slot_head = IF m = 0 THEN NoSlot ELSE chain[1]
      /\ \A i \in 1..m : aux(chain[i]) = IF i = m THEN NoSlot ELSE chain[i + 1]
  <2> HIDE DEF U, m
  <2>1. DOMAIN chain = 1..m /\ Len(chain) = m /\ (chain = <<>> <=> m = 0)
    BY <1>1, <1>4
  <2> QED
    BY <2>1 DEF IsChain
<1>7. /\ DOMAIN at = 0..n /\ at[0] = pg.free_slot_head
      /\ \A i \in 1..n : at[i] = IF at[i - 1] \in U THEN aux(at[i - 1]) ELSE NoSlot
  BY WalkSteps
<1> HIDE DEF n, U, m, at, aux
<1>8. \A i \in 0..n : at[i] = IF i < m THEN chain[i + 1] ELSE NoSlot
  <2> DEFINE T == {i \in 0..n : at[i] = IF i < m THEN chain[i + 1] ELSE NoSlot}
  <2>1. 0 \in T
    BY <1>1, <1>6, <1>7
  <2>2. ASSUME NEW i \in 1..n, i - 1 \in T PROVE i \in T
    <3>1. at[i - 1] = IF i - 1 < m THEN chain[i] ELSE NoSlot
      BY <2>2
    <3>2. CASE i - 1 < m
      <4>1. i \in 1..m /\ at[i - 1] = chain[i] /\ chain[i] \in U
        BY <1>1, <1>4, <3>1, <3>2
      <4>2. at[i] = aux(chain[i])
        BY <1>7, <4>1
      <4>3. i < m <=> i # m
        BY <1>1, <4>1
      <4> QED
        BY <1>6, <4>1, <4>2, <4>3
    <3>3. CASE ~(i - 1 < m)
      <4>1. at[i] = NoSlot
        BY <1>2, <1>7, <3>1, <3>3
      <4> QED
        BY <1>1, <3>3, <4>1
    <3> QED
      BY <3>2, <3>3
  <2> HIDE DEF T
  <2>3. 0..n \subseteq T
    BY <1>1, <2>1, <2>2, InductionTo
  <2> QED
    BY <2>3 DEF T
<1>9. ASSUME NEW s \in U PROVE aux(s) \in U \cup {NoSlot}
  <2>1. PICK i \in 1..m : chain[i] = s
    BY <1>5
  <2>2. i = m \/ i + 1 \in 1..m
    BY <1>1
  <2> QED
    BY <1>4, <1>6, <2>1, <2>2
<1>10. pg.free_slot_head \in U \cup {NoSlot}
  <2>1. m = 0 \/ 1 \in 1..m
    BY <1>1
  <2> QED
    BY <1>4, <1>6, <2>1
<1>11. ASSUME NEW i \in 0..n, NEW j \in 0..n, i < j, at[i] = at[j], at[i] # NoSlot
       PROVE  FALSE
  <2>1. i < m /\ j < m
    BY <1>8, <1>11
  <2>2. i + 1 \in 1..m /\ j + 1 \in 1..m /\ i + 1 # j + 1
    BY <1>1, <1>11, <2>1
  <2>3. chain[i + 1] = chain[j + 1]
    BY <1>8, <1>11, <2>1
  <2> QED
    BY <1>4, <2>2, <2>3
<1>12. {at[i] : i \in 0..n} \ {NoSlot} = U
  <2>1. ASSUME NEW s \in U PROVE \E i \in 0..n : at[i] = s
    <3>1. PICK i \in 1..m : chain[i] = s
      BY <1>5
    <3>2. i - 1 \in 0..n /\ i - 1 < m /\ (i - 1) + 1 = i
      BY <1>1, <1>3
    <3>3. at[i - 1] = chain[i]
      BY <1>8, <3>2
    <3> QED
      BY <3>1, <3>2, <3>3
  <2>2. ASSUME NEW i \in 0..n, at[i] # NoSlot PROVE at[i] \in U
    <3>1. i < m /\ at[i] = chain[i + 1]
      BY <1>8, <2>2
    <3>2. i + 1 \in 1..m
      BY <1>1, <3>1
    <3> QED
      BY <1>4, <3>1, <3>2
  <2> QED
    BY <1>2, <2>1, <2>2
<1>13. \A i, j \in DOMAIN at : i < j /\ at[i] = at[j] => at[i] = NoSlot
  BY <1>7, <1>11
<1>14. {at[i] : i \in DOMAIN at} \ {NoSlot} = U
  BY <1>7, <1>12
<1> QED
  BY <1>9, <1>10, <1>13, <1>14 DEF ValidateFreeSlotChain, U, at, aux

(* Pass 4 accepts exactly the chains that list every UNUSED slot once. *)
LEMMA ChainCheck ==
    ASSUME NEW pg, IsPage(pg)
    PROVE  ValidateFreeSlotChain(pg) <=> \E chain \in SetToSeqs(Unused(pg)) : IsChain(pg, chain)
BY ChainOfWalk, WalkOfChain

-----------------------------------------------------------------------------
(* Categories. *)

(* Rounding down and up by the same factor. *)
LEMMA RoundingKeepsOrder ==
    ASSUME NEW c \in Nat \ {0}, NEW m \in Nat \ {0}, NEW a \in Nat, NEW b \in Nat \ {0},
           (a * c) \div m >= (((b - 1) * c) \div m) + 1
    PROVE  b =< a
<1> SUFFICES ASSUME a =< b - 1 PROVE FALSE
  OBVIOUS
<1>1. a * c \in Nat /\ (b - 1) * c \in Nat /\ a * c =< (b - 1) * c
  OBVIOUS
<1>2. (a * c) \div m =< ((b - 1) * c) \div m
  BY <1>1
<1> QED
  BY <1>1, <1>2

(* A page whose category reaches the one of a tuple has room for the tuple and its slot. *)
LEMMA CategorySuffices ==
    ASSUME NEW free \in Nat, NEW n \in 1..MaxTuple,
           FsmCategoryForFreeBytes(free) >= MinimumFsmCategoryForTupleBytes(n)
    PROVE  n + SlotSize =< free
<1> DEFINE bounded == Lesser(free, MaxFree)
           usable == Lesser(bounded - SlotSize, MaxTuple)
<1>1. /\ PageSize \in Nat /\ HeaderSize \in Nat /\ SlotSize \in Nat /\ CategoryMax \in Nat \ {0}
      /\ MaxTuple \in Nat \ {0} /\ MaxFree \in Nat
  BY CategoryAssumption DEF MaxTuple, MaxFree
<1>2. bounded \in Nat /\ bounded =< free
  BY <1>1 DEF Lesser
<1>3. n \in Nat \ {0} /\ n - 1 \in Nat
  BY <1>1
<1>4. MinimumFsmCategoryForTupleBytes(n) = (((n - 1) * CategoryMax) \div MaxTuple) + 1
  BY <1>3 DEF MinimumFsmCategoryForTupleBytes
<1>5. ((n - 1) * CategoryMax) \div MaxTuple \in Nat
  <2>1. (n - 1) * CategoryMax \in Nat
    BY <1>1, <1>3
  <2> HIDE DEF bounded, usable
  <2> QED
    BY <1>1, <2>1
<1>6. bounded > SlotSize
  BY <1>1, <1>2, <1>4, <1>5 DEF FsmCategoryForFreeBytes
<1>7. usable \in Nat /\ usable =< bounded - SlotSize
  BY <1>1, <1>2, <1>6 DEF Lesser
<1>8. FsmCategoryForFreeBytes(free) = (usable * CategoryMax) \div MaxTuple
  BY <1>1, <1>2, <1>6 DEF FsmCategoryForFreeBytes
<1>9. (usable * CategoryMax) \div MaxTuple >= (((n - 1) * CategoryMax) \div MaxTuple) + 1
  BY <1>4, <1>8
<1> HIDE DEF bounded, usable
<1>10. n =< usable
  BY <1>1, <1>3, <1>7, <1>9, RoundingKeepsOrder
<1> QED
  BY <1>1, <1>2, <1>3, <1>7, <1>10

-----------------------------------------------------------------------------
(* What a page that passes the structural checks has. *)

(* Geometry, retained ranges and their disjointness. *)
LEMMA StructureFacts ==
    ASSUME NEW pg, IsPage(pg), ValidateStructure(pg)
    PROVE  /\ pg.lower \in Nat /\ pg.upper \in Nat /\ PageSize \in Nat
           /\ HeaderSize =< pg.lower /\ pg.lower =< pg.upper /\ pg.upper =< PageSize
           /\ \A s \in Retained(pg) :
                 /\ pg.slots[s].tuple_length \in Nat \ {0}
                 /\ pg.slots[s].tuple_offset \in Nat
                 /\ pg.slots[s].state \in {"NORMAL", "DEAD"} /\ pg.slots[s].aux = 0
                 /\ pg.slots[s].tuple_offset >= pg.upper
                 /\ End(pg.slots[s]) =< PageSize
           /\ Live(pg) \subseteq Retained(pg)
           /\ \A a, b \in Retained(pg) : a # b => Disjoint(pg, a, b)
<1>1. /\ pg.lower \in Nat /\ pg.upper \in Nat /\ PageSize \in Nat
      /\ HeaderSize \in Nat
  BY CategoryAssumption DEF IsPage
<1>2. HeaderSize =< pg.lower /\ pg.lower =< pg.upper /\ pg.upper =< PageSize
  BY <1>1 DEF ValidateStructure, ValidateHeapHeaderGeometry
<1>3. \A s \in SlotIds(pg) : ValidateSlotDescriptor(pg.slots[s], pg.upper)
  BY DEF ValidateStructure
<1>4. ASSUME NEW s \in Retained(pg)
      PROVE  /\ pg.slots[s].tuple_length \in Nat \ {0}
             /\ pg.slots[s].tuple_offset \in Nat
             /\ pg.slots[s].state \in {"NORMAL", "DEAD"} /\ pg.slots[s].aux = 0
             /\ pg.slots[s].tuple_offset >= pg.upper
             /\ End(pg.slots[s]) =< PageSize
  BY <1>3, SlotTypes DEF Retained, ValidateSlotDescriptor
<1>5. Live(pg) \subseteq Retained(pg)
  BY <1>3 DEF Live, Retained, ValidateSlotDescriptor
<1>6. \A a, b \in Retained(pg) : a # b => Disjoint(pg, a, b)
  BY OverlapCheck DEF ValidateStructure
<1> QED
  BY <1>1, <1>2, <1>4, <1>5, <1>6

-----------------------------------------------------------------------------
(* The plan of a compaction. *)

(* new_upper after each step of the plan. *)
LEMMA UpperSteps ==
    ASSUME NEW pg, IsPage(pg)
    PROVE  /\ LiveCount(pg) \in Nat
           /\ \A i \in 1..LiveCount(pg) : LiveOrder(pg)[i] \in Live(pg)
           /\ \A s \in Live(pg) : \E i \in 1..LiveCount(pg) : LiveOrder(pg)[i] = s
           /\ PlannedUpper(pg) \in [0..LiveCount(pg) -> Int]
           /\ PlannedUpper(pg)[0] = PageSize
           /\ \A i \in 1..LiveCount(pg) : PlannedUpper(pg)[i] =
                 PlannedUpper(pg)[i - 1] - pg.slots[LiveOrder(pg)[i]].tuple_length
<1> DEFINE n == LiveCount(pg)
           length(i) == pg.slots[LiveOrder(pg)[i]].tuple_length
           step == [i \in 1..n |-> [x \in Int |-> x - length(i)]]
<1>1. n \in Nat
  BY SlotTypes, FS_CardinalityType DEF LiveCount
<1>2. /\ \A i \in 1..n : LiveOrder(pg)[i] \in Live(pg)
      /\ \A s \in Live(pg) : \E i \in 1..n : LiveOrder(pg)[i] = s
  BY LiveOrderSorts DEF Sorted, LiveCount
<1>3. \A i \in 1..n : length(i) \in Nat
  BY <1>2, SlotTypes
<1> HIDE DEF n, length
<1>4. step \in [1..n -> [Int -> Int]]
  BY <1>3
<1>5. PageSize \in Int
  BY CategoryAssumption
<1> HIDE DEF step
<1>6. PICK f : Iterates(f, n, Int, PageSize, step)
  BY <1>1, <1>4, <1>5, RecursiveFunction
<1>7. f \in [0..n -> Int] /\ f[0] = PageSize /\ \A i \in 1..n : f[i] = f[i - 1] - length(i)
  <2>1. f \in [0..n -> Int] /\ f[0] = PageSize /\ \A i \in 1..n : f[i] = step[i][f[i - 1]]
    BY <1>6 DEF Iterates
  <2>2. ASSUME NEW i \in 1..n PROVE f[i] = f[i - 1] - length(i)
    <3>1. i - 1 \in 0..n /\ f[i - 1] \in Int
      BY <1>1, <2>1
    <3> QED
      BY <2>1, <3>1 DEF step
  <2> QED
    BY <2>1, <2>2
<1>8. f = [i \in 0..n |-> IF i = 0 THEN PageSize ELSE f[i - 1] - length(i)]
  BY <1>1, <1>7
<1>9. \E upper : upper = [i \in 0..n |-> IF i = 0 THEN PageSize ELSE upper[i - 1] - length(i)]
  BY <1>8
<1>10. PlannedUpper(pg) = [i \in 0..n |-> IF i = 0 THEN PageSize
                                          ELSE PlannedUpper(pg)[i - 1] - length(i)]
  BY <1>9 DEF PlannedUpper, n, length
<1> DEFINE upper == PlannedUpper(pg)
<1> HIDE DEF upper
<1>11. upper = [i \in 0..n |-> IF i = 0 THEN PageSize ELSE upper[i - 1] - length(i)]
  BY <1>10 DEF upper
<1>12. upper[0] = PageSize /\ \A i \in 1..n : upper[i] = upper[i - 1] - length(i)
  <2>1. \A i \in 0..n : upper[i] = IF i = 0 THEN PageSize ELSE upper[i - 1] - length(i)
    BY <1>11, Zenon
  <2>2. 0 \in 0..n /\ \A i \in 1..n : i \in 0..n /\ i # 0
    BY <1>1
  <2> QED
    BY <2>1, <2>2, Zenon
<1>13. \A i \in 0..n : upper[i] \in Int
  <2> DEFINE T == {i \in 0..n : upper[i] \in Int}
  <2>1. 0 \in T
    BY <1>1, <1>5, <1>12
  <2>2. ASSUME NEW i \in 1..n, i - 1 \in T PROVE i \in T
    BY <1>3, <1>12, <2>2
  <2> HIDE DEF T
  <2>3. 0..n \subseteq T
    BY <1>1, <2>1, <2>2, InductionTo
  <2> QED
    BY <2>3 DEF T
<1>14. upper \in [0..n -> Int]
  BY <1>11, <1>13
<1> QED
  BY <1>1, <1>2, <1>12, <1>14 DEF upper, n, length

(* The plan of a page that passes the structural checks: tuples only move towards the page   *)
(* end, below what is already placed and above what is still to come.                        *)
LEMMA PlanFits ==
    ASSUME NEW pg, IsPage(pg), ValidateStructure(pg),
           NEW upper, upper = PlannedUpper(pg), NEW order, order = LiveOrder(pg)
    PROVE  /\ \A i, j \in 0..LiveCount(pg) : i =< j => upper[j] =< upper[i]
           /\ \A i \in 1..LiveCount(pg) :
                 /\ upper[i] >= pg.slots[order[i]].tuple_offset
                 /\ upper[i] + pg.slots[order[i]].tuple_length = upper[i - 1]
           /\ \A i, j \in 1..LiveCount(pg) : i < j => End(pg.slots[order[j]]) =< upper[i]
<1> DEFINE n == LiveCount(pg)
           offset(i) == pg.slots[order[i]].tuple_offset
           length(i) == pg.slots[order[i]].tuple_length
           end(i) == End(pg.slots[order[i]])
<1>1. /\ n \in Nat /\ PageSize \in Nat /\ upper[0] = PageSize
      /\ \A i \in 0..n : upper[i] \in Int
      /\ \A i \in 1..n : upper[i] = upper[i - 1] - length(i)
      /\ \A i \in 1..n : order[i] \in Live(pg)
  BY UpperSteps, StructureFacts
<1>2. \A i \in 1..n : /\ offset(i) \in Nat /\ length(i) \in Nat \ {0} /\ end(i) \in Nat
                      /\ end(i) = offset(i) + length(i) /\ end(i) =< PageSize
  BY <1>1, StructureFacts DEF End
<1>3. \A i, j \in 1..n : i < j => end(j) =< offset(i)
  <2> SUFFICES ASSUME NEW i \in 1..n, NEW j \in 1..n, i < j PROVE end(j) =< offset(i)
    OBVIOUS
  <2>1. <<order[i], order[j]>> \in LiveBefore(pg)
    BY LiveOrderSorts DEF Sorted, LiveCount
  <2>2. /\ order[i] \in Live(pg) /\ order[j] \in Live(pg)
        /\ order[i] \in Nat /\ order[j] \in Nat
    BY <1>1, SlotTypes
  <2>3. order[i] # order[j] /\ offset(j) =< offset(i)
    BY <1>2, <2>1, <2>2 DEF LiveBefore
  <2>4. Disjoint(pg, order[i], order[j])
    BY <2>2, <2>3, StructureFacts
  <2> QED
    BY <1>2, <2>3, <2>4 DEF Disjoint
<1> HIDE DEF n, offset, length, end
<1>4. \A i \in 1..n : upper[i] >= offset(i)
  <2> DEFINE T == {i \in 0..n : i = 0 \/ upper[i] >= offset(i)}
  <2>1. 0 \in T
    BY <1>1
  <2>2. ASSUME NEW i \in 1..n, i - 1 \in T PROVE i \in T
    <3>1. i - 1 \in 0..n /\ upper[i - 1] \in Int /\ upper[i] \in Int
      BY <1>1
    <3>2. upper[i - 1] >= end(i)
      <4>1. CASE i = 1
        BY <1>1, <1>2, <4>1
      <4>2. CASE i # 1
        <5>1. i - 1 \in 1..n /\ i - 1 < i
          BY <1>1, <4>2
        <5>2. upper[i - 1] >= offset(i - 1)
          BY <1>1, <2>2, <5>1
        <5> QED
          BY <1>2, <1>3, <3>1, <5>1, <5>2
      <4> QED
        BY <4>1, <4>2
    <3> QED
      BY <1>1, <1>2, <3>1, <3>2
  <2> HIDE DEF T
  <2>3. 0..n \subseteq T
    BY <1>1, <2>1, <2>2, InductionTo
  <2> QED
    BY <1>1, <2>3 DEF T
<1>5. \A i, j \in 0..n : i =< j => upper[j] =< upper[i]
  <2> SUFFICES ASSUME NEW i \in 0..n PROVE \A j \in 0..n : i =< j => upper[j] =< upper[i]
    OBVIOUS
  <2> DEFINE T == {j \in 0..n : i =< j => upper[j] =< upper[i]}
  <2>1. 0 \in T
    BY <1>1
  <2>2. ASSUME NEW j \in 1..n, j - 1 \in T PROVE j \in T
    BY <1>1, <1>2, <2>2
  <2> HIDE DEF T
  <2>3. 0..n \subseteq T
    BY <1>1, <2>1, <2>2, InductionTo
  <2> QED
    BY <2>3 DEF T
<1>6. ASSUME NEW i \in 1..n, NEW j \in 1..n, i < j PROVE end(j) =< upper[i]
  BY <1>1, <1>2, <1>3, <1>4, <1>6
<1>7. \A i \in 1..n : upper[i] + length(i) = upper[i - 1]
  BY <1>1, <1>2
<1> QED
  BY <1>4, <1>5, <1>6, <1>7 DEF n, offset, length, end

ByteArrays == [0..(PageSize - 1) -> {Zero} \cup (Tuple \X (0..(PageSize - 1)))]

(* A move within the page, of bytes of the page, gives bytes of a page. *)
LEMMA MemmoveStays ==
    ASSUME NEW b \in ByteArrays, NEW d \in Nat, NEW o \in Nat, NEW len \in Nat,
           o + len =< PageSize, PageSize \in Nat
    PROVE  Memmove(b, d, o, len) \in ByteArrays
<1>1. DOMAIN b = 0..(PageSize - 1)
  BY DEF ByteArrays
<1>2. ASSUME NEW k \in d..(d + len - 1) PROVE o + k - d \in 0..(PageSize - 1)
  OBVIOUS
<1> DEFINE B == {Zero} \cup (Tuple \X (0..(PageSize - 1)))
<1> HIDE DEF B
<1>3. b \in [0..(PageSize - 1) -> B]
  BY DEF B, ByteArrays
<1>4. Memmove(b, d, o, len) \in [0..(PageSize - 1) -> B]
  BY <1>1, <1>2, <1>3 DEF Memmove
<1> QED
  BY <1>4 DEF B, ByteArrays

(* The bytes of the page after each move. *)
LEMMA MoveSteps ==
    ASSUME NEW pg, IsPage(pg), ValidateStructure(pg),
           NEW upper, upper = PlannedUpper(pg), NEW order, order = LiveOrder(pg),
           NEW moved, moved = MovedBytes(pg)
    PROVE  /\ moved[0] = pg.bytes
           /\ \A i \in 0..LiveCount(pg) : moved[i] \in ByteArrays
           /\ \A i \in 1..LiveCount(pg) :
                 moved[i] = Memmove(moved[i - 1], upper[i], pg.slots[order[i]].tuple_offset,
                                    pg.slots[order[i]].tuple_length)
<1> DEFINE n == LiveCount(pg)
           offset(i) == pg.slots[order[i]].tuple_offset
           length(i) == pg.slots[order[i]].tuple_length
           step == [i \in 1..n |-> [x \in ByteArrays |-> Memmove(x, upper[i], offset(i), length(i))]]
<1>1. /\ n \in Nat /\ PageSize \in Nat
      /\ \A i \in 0..n : upper[i] \in Int
      /\ \A i \in 1..n : order[i] \in Live(pg)
  BY UpperSteps, StructureFacts
<1>2. \A i \in 1..n : /\ offset(i) \in Nat /\ length(i) \in Nat
                      /\ offset(i) + length(i) =< PageSize /\ upper[i] >= offset(i)
  BY <1>1, StructureFacts, PlanFits DEF End
<1>3. pg.bytes \in ByteArrays
  BY DEF IsPage, ByteArrays
<1>4. \A i \in 1..n : upper[i] \in Nat
  BY <1>1, <1>2
<1> HIDE DEF n, offset, length
<1>5. \A i \in 1..n, x \in ByteArrays : Memmove(x, upper[i], offset(i), length(i)) \in ByteArrays
  BY <1>1, <1>2, <1>4, MemmoveStays
<1>6. step \in [1..n -> [ByteArrays -> ByteArrays]]
  BY <1>5
<1> HIDE DEF step
<1>7. PICK f : Iterates(f, n, ByteArrays, pg.bytes, step)
  BY <1>1, <1>3, <1>6, RecursiveFunction
<1>8. f \in [0..n -> ByteArrays] /\ f[0] = pg.bytes /\ \A i \in 1..n : f[i] = step[i][f[i - 1]]
  BY <1>7 DEF Iterates
<1>9. \A i \in 1..n : f[i] = Memmove(f[i - 1], upper[i], offset(i), length(i))
  <2> SUFFICES ASSUME NEW i \in 1..n
               PROVE  f[i] = Memmove(f[i - 1], upper[i], offset(i), length(i))
    OBVIOUS
  <2>1. i - 1 \in 0..n
    BY <1>1
  <2>2. f[i - 1] \in ByteArrays
    BY <1>8, <2>1
  <2> QED
    BY <1>8, <2>2 DEF step
<1>10. f = [i \in 0..n |-> IF i = 0 THEN pg.bytes
                           ELSE Memmove(f[i - 1], upper[i], offset(i), length(i))]
  BY <1>1, <1>8, <1>9
<1>11. \E g : g = [i \in 0..n |-> IF i = 0 THEN pg.bytes
                           ELSE Memmove(g[i - 1], upper[i], offset(i), length(i))]
  BY <1>10
<1>12. moved = [i \in 0..n |-> IF i = 0 THEN pg.bytes
                           ELSE Memmove(moved[i - 1], upper[i], offset(i), length(i))]
  BY <1>11, Zenon DEF MovedBytes, n, offset, length
<1>13. moved[0] = pg.bytes
       /\ \A i \in 1..n : moved[i] = Memmove(moved[i - 1], upper[i], offset(i), length(i))
  <2>1. \A i \in 0..n : moved[i] = IF i = 0 THEN pg.bytes
                           ELSE Memmove(moved[i - 1], upper[i], offset(i), length(i))
    BY <1>12, Zenon
  <2>2. 0 \in 0..n /\ \A i \in 1..n : i \in 0..n /\ i # 0
    BY <1>1
  <2> QED
    BY <2>1, <2>2, Zenon
<1>14. \A i \in 0..n : moved[i] \in ByteArrays
  <2> DEFINE T == {i \in 0..n : moved[i] \in ByteArrays}
  <2>1. 0 \in T
    BY <1>1, <1>3, <1>13
  <2>2. ASSUME NEW i \in 1..n, i - 1 \in T PROVE i \in T
    BY <1>5, <1>13, <2>2
  <2> HIDE DEF T
  <2>3. 0..n \subseteq T
    BY <1>1, <2>1, <2>2, InductionTo
  <2> QED
    BY <2>3 DEF T
<1> QED
  BY <1>13, <1>14 DEF n, offset, length

(* After i moves the first i tuples are in place and the others untouched. *)
LEMMA MovesAreExact ==
    ASSUME NEW pg, IsPage(pg), ValidateStructure(pg),
           NEW upper, upper = PlannedUpper(pg), NEW order, order = LiveOrder(pg),
           NEW moved, moved = MovedBytes(pg), NEW j \in 1..LiveCount(pg),
           NEW k \in 0..(pg.slots[order[j]].tuple_length - 1)
    PROVE  moved[LiveCount(pg)][upper[j] + k] = pg.bytes[pg.slots[order[j]].tuple_offset + k]
<1> DEFINE n == LiveCount(pg)
           offset(i) == pg.slots[order[i]].tuple_offset
           length(i) == pg.slots[order[i]].tuple_length
           source == offset(j) + k
           target == upper[j] + k
           byte == pg.bytes[source]
           T == {i \in 0..n : /\ j =< i => moved[i][target] = byte
                              /\ i < j => moved[i][source] = byte}
<1>1. /\ n \in Nat /\ PageSize \in Nat
      /\ upper[0] = PageSize
      /\ \A i \in 0..n : upper[i] \in Int
      /\ \A i \in 1..n : order[i] \in Live(pg)
  BY UpperSteps, StructureFacts
<1>2. \A i \in 1..n : /\ offset(i) \in Nat /\ length(i) \in Nat \ {0}
                      /\ offset(i) + length(i) =< PageSize
  BY <1>1, StructureFacts DEF End
<1>3. /\ \A a, b \in 0..n : a =< b => upper[b] =< upper[a]
      /\ \A i \in 1..n : upper[i] >= offset(i) /\ upper[i] + length(i) = upper[i - 1]
      /\ \A a, b \in 1..n : a < b => offset(b) + length(b) =< upper[a]
  BY PlanFits DEF End
<1>4. /\ moved[0] = pg.bytes
      /\ \A i \in 0..n : moved[i] \in ByteArrays
      /\ \A i \in 1..n : moved[i] = Memmove(moved[i - 1], upper[i], offset(i), length(i))
  BY MoveSteps
<1>5. j \in 1..n /\ k \in 0..(length(j) - 1)
  OBVIOUS
<1> HIDE DEF n, offset, length
<1>6. /\ source \in 0..(PageSize - 1) /\ target \in 0..(PageSize - 1)
      /\ target \in upper[j]..(upper[j] + length(j) - 1)
      /\ offset(j) + target - upper[j] = source
  <2>1. /\ j \in 0..n /\ upper[j] \in Int /\ upper[j - 1] \in Int /\ offset(j) \in Nat
        /\ length(j) \in Nat \ {0} /\ upper[j - 1] =< PageSize
    <3>1. 0 \in 0..n /\ j - 1 \in 0..n /\ 0 =< j - 1 /\ j \in 0..n
      BY <1>1, <1>5
    <3> QED
      BY <1>1, <1>2, <1>3, <1>5, <3>1
  <2> QED
    BY <1>1, <1>2, <1>3, <1>5, <2>1
<1>7. 0 \in T
  BY <1>1, <1>4, <1>5
<1>8. ASSUME NEW i \in 1..n, i - 1 \in T PROVE i \in T
  <2>1. /\ i \in 0..n /\ i - 1 \in 0..n /\ upper[i] \in Int /\ upper[i - 1] \in Int
        /\ length(i) \in Nat /\ upper[i] + length(i) = upper[i - 1]
        /\ upper[j] \in Int /\ offset(j) \in Nat /\ length(j) \in Nat
    <3>1. i \in 0..n /\ i - 1 \in 0..n /\ j \in 0..n
      BY <1>1, <1>5
    <3> QED
      BY <1>1, <1>2, <1>3, <1>5, <3>1
  <2>2. \A m \in 0..(PageSize - 1) :
           moved[i][m] = IF m \in upper[i]..(upper[i] + length(i) - 1)
                         THEN moved[i - 1][offset(i) + m - upper[i]] ELSE moved[i - 1][m]
    <3>1. DOMAIN moved[i - 1] = 0..(PageSize - 1)
      BY <1>4, <2>1 DEF ByteArrays
    <3>2. moved[i] = Memmove(moved[i - 1], upper[i], offset(i), length(i))
      BY <1>4
    <3>3. moved[i] = [m \in 0..(PageSize - 1) |->
             IF m \in upper[i]..(upper[i] + length(i) - 1)
             THEN moved[i - 1][offset(i) + m - upper[i]] ELSE moved[i - 1][m]]
      BY <3>1, <3>2, Zenon DEF Memmove
    <3> QED
      BY <3>3, Zenon
  <2>3. CASE i < j
    <3>1. source \notin upper[i]..(upper[i] + length(i) - 1)
      <4>1. offset(j) + length(j) =< upper[i]
        BY <1>3, <1>5, <2>3
      <4> QED
        BY <1>5, <2>1, <4>1
    <3>2. moved[i][source] = moved[i - 1][source]
      BY <1>6, <2>2, <3>1
    <3>3. moved[i - 1][source] = byte
      BY <1>5, <1>8, <2>1, <2>3
    <3> QED
      BY <1>5, <2>1, <2>3, <3>2, <3>3
  <2>4. CASE i = j
    <3>1. moved[i][target] = moved[i - 1][source]
      BY <1>6, <2>2, <2>4
    <3>2. moved[i - 1][source] = byte
      BY <1>5, <1>8, <2>1, <2>4
    <3> QED
      BY <1>5, <2>1, <2>4, <3>1, <3>2
  <2>5. CASE j < i
    <3>1. target \notin upper[i]..(upper[i] + length(i) - 1)
      <4>1. j \in 0..n /\ j =< i - 1
        BY <1>5, <2>1, <2>5
      <4>2. upper[i - 1] =< upper[j]
        BY <1>3, <2>1, <4>1
      <4> QED
        BY <1>5, <2>1, <4>2
    <3>2. moved[i][target] = moved[i - 1][target]
      BY <1>6, <2>2, <3>1
    <3>3. moved[i - 1][target] = byte
      BY <1>5, <1>8, <2>1, <2>5
    <3> QED
      BY <1>5, <2>1, <2>5, <3>2, <3>3
  <2> QED
    BY <1>5, <2>1, <2>3, <2>4, <2>5
<1> HIDE DEF T
<1>9. 0..n \subseteq T
  BY <1>1, <1>7, <1>8, InductionTo
<1>10. n \in T /\ j =< n
  BY <1>1, <1>5, <1>9
<1> QED
  BY <1>10 DEF T, n, offset, length

(* The planned ranges cover the page from new_upper to its end. *)
LEMMA NoHole ==
    ASSUME NEW pg, IsPage(pg), NEW upper, upper = PlannedUpper(pg),
           NEW k \in upper[LiveCount(pg)]..(PageSize - 1)
    PROVE  \E i \in 1..LiveCount(pg) : upper[i] =< k /\ k < upper[i - 1]
<1> DEFINE n == LiveCount(pg)
<1>1. /\ n \in Nat /\ PageSize \in Nat
      /\ upper[0] = PageSize
      /\ \A i \in 0..n : upper[i] \in Int
  BY UpperSteps, CategoryAssumption
<1> HIDE DEF n
<1> SUFFICES ASSUME \A i \in 1..n : ~(upper[i] =< k /\ k < upper[i - 1]) PROVE FALSE
  BY DEF n
<1> DEFINE T == {i \in 0..n : k < upper[i]}
<1>2. 0 \in T
  BY <1>1 DEF n
<1>3. ASSUME NEW i \in 1..n, i - 1 \in T PROVE i \in T
  <2>1. i \in 0..n /\ upper[i] \in Int
    BY <1>1
  <2>2. k \in Int
    BY <1>1 DEF n
  <2> QED
    BY <1>3, <2>1, <2>2
<1> HIDE DEF T
<1>4. 0..n \subseteq T
  BY <1>1, <1>2, <1>3, InductionTo
<1>5. n \in T
  BY <1>1, <1>4
<1> QED
  BY <1>1, <1>5 DEF T, n

(* Only the UNUSED slots and their links decide about the chain. *)
LEMMA SameChain ==
    ASSUME NEW pg, IsPage(pg), NEW q, IsPage(q), ValidateFreeSlotChain(pg),
           Unused(q) = Unused(pg), q.free_slot_head = pg.free_slot_head,
           \A s \in Unused(pg) : q.slots[s].aux = pg.slots[s].aux
    PROVE  ValidateFreeSlotChain(q)
<1>1. PICK chain \in SetToSeqs(Unused(pg)) : IsChain(pg, chain)
  BY ChainCheck
<1>2. chain \in SetToSeqs(Unused(q))
  BY <1>1
<1>3. \A i \in DOMAIN chain : chain[i] \in Unused(pg)
  BY <1>1 DEF SetToSeqs
<1>4. IsChain(q, chain)
  BY <1>1, <1>3 DEF IsChain
<1> QED
  BY <1>2, <1>4, ChainCheck

(* What the directory of a compacted page says. *)
LEMMA PlannedDirectory ==
    ASSUME NEW pg, IsPage(pg), NEW q, q = Compacted(pg)
    PROVE  /\ q.common = pg.common /\ q.slot_count = pg.slot_count /\ q.lower = pg.lower
           /\ q.free_slot_head = pg.free_slot_head
           /\ q.upper = NewUpper(pg) /\ q.bytes = MovedBytes(pg)[LiveCount(pg)]
           /\ SlotIds(q) = SlotIds(pg) /\ DOMAIN q.slots = SlotIds(pg)
           /\ \A s \in SlotIds(pg) :
                 /\ q.slots[s].state = pg.slots[s].state
                 /\ q.slots[s].aux = pg.slots[s].aux
                 /\ q.slots[s].tuple_offset \in Nat => q.slots[s] \in HeapSlotEntry
                 /\ s \in Live(pg) => q.slots[s].tuple_length = pg.slots[s].tuple_length
                 /\ s \notin Live(pg) => /\ q.slots[s].tuple_offset = 0
                                        /\ q.slots[s].tuple_length = 0
           /\ \A i \in 1..LiveCount(pg) :
                 q.slots[LiveOrder(pg)[i]].tuple_offset = PlannedUpper(pg)[i]
<1> DEFINE n == LiveCount(pg)
           order == LiveOrder(pg)
<1>1. /\ q.common = pg.common /\ q.slot_count = pg.slot_count /\ q.lower = pg.lower
      /\ q.free_slot_head = pg.free_slot_head
      /\ q.upper = NewUpper(pg) /\ q.bytes = MovedBytes(pg)[LiveCount(pg)]
      /\ q.slots = [s \in SlotIds(pg) |-> PlannedSlot(pg, s)]
  BY DEF Compacted, IsPage
<1>2. SlotIds(q) = SlotIds(pg) /\ DOMAIN q.slots = SlotIds(pg)
  BY <1>1 DEF SlotIds
<1>3. \A s \in SlotIds(pg) : q.slots[s] = PlannedSlot(pg, s)
  BY <1>1
<1>4. ASSUME NEW i \in 1..n
      PROVE  q.slots[order[i]].tuple_offset = PlannedUpper(pg)[i]
  <2>1. order[i] \in Live(pg) /\ order[i] \in SlotIds(pg)
    BY UpperSteps, SlotTypes
  <2>2. ASSUME NEW j \in 1..n, order[j] = order[i] PROVE j = i
    <3>1. n \in Nat
      BY UpperSteps
    <3>2. /\ i < j => <<order[i], order[j]>> \in LiveBefore(pg)
          /\ j < i => <<order[j], order[i]>> \in LiveBefore(pg)
      BY LiveOrderSorts DEF Sorted, LiveCount
    <3>3. <<order[i], order[i]>> \notin LiveBefore(pg)
      BY <2>1, SlotTypes DEF LiveBefore
    <3> QED
      BY <2>2, <3>1, <3>2, <3>3
  <2>3. (CHOOSE j \in 1..n : order[j] = order[i]) = i
    BY <2>2
  <2>4. q.slots[order[i]] = [pg.slots[order[i]] EXCEPT !.tuple_offset = PlannedUpper(pg)[i]]
    BY <1>3, <2>1, <2>3 DEF PlannedSlot
  <2>5. pg.slots[order[i]] \in HeapSlotEntry
    BY <2>1, SlotTypes
  <2> QED
    BY <2>4, <2>5 DEF HeapSlotEntry
<1>5. ASSUME NEW s \in SlotIds(pg)
      PROVE  /\ q.slots[s].state = pg.slots[s].state
             /\ q.slots[s].aux = pg.slots[s].aux
             /\ q.slots[s].tuple_offset \in Nat => q.slots[s] \in HeapSlotEntry
             /\ s \in Live(pg) => q.slots[s].tuple_length = pg.slots[s].tuple_length
             /\ s \notin Live(pg) => /\ q.slots[s].tuple_offset = 0
                                    /\ q.slots[s].tuple_length = 0
  <2>1. pg.slots[s] \in HeapSlotEntry
    BY SlotTypes
  <2>2. CASE s \in Live(pg)
    <3>1. PICK u : q.slots[s] = [pg.slots[s] EXCEPT !.tuple_offset = u]
      BY <1>3, <2>2 DEF PlannedSlot
    <3> QED
      BY <2>1, <2>2, <3>1 DEF HeapSlotEntry
  <2>3. CASE s \notin Live(pg)
    <3>1. q.slots[s] = [pg.slots[s] EXCEPT !.tuple_offset = 0, !.tuple_length = 0]
      BY <1>3, <2>3 DEF PlannedSlot
    <3> QED
      BY <2>1, <2>3, <3>1 DEF HeapSlotEntry
  <2> QED
    BY <2>2, <2>3
<1> QED
  BY <1>1, <1>2, <1>4, <1>5

(* A compacted page is structurally valid, has no hole, and its live tuples are the same bytes *)
(* under the same SlotIds.                                                                   *)
LEMMA CompactedPage ==
    ASSUME NEW pg, IsPage(pg), ValidateStructure(pg),
           \A s \in SlotIds(pg) : pg.slots[s].state \in {"NORMAL", "DEAD"},
           NewUpper(pg) >= pg.lower,
           NEW q, q = Compacted(pg)
    PROVE  /\ IsPage(q) /\ ValidateStructure(q)
           /\ SlotIds(q) = SlotIds(pg) /\ Live(q) = Live(pg) /\ Retained(q) = Live(pg)
           /\ \A s \in Live(pg) : Bytes(q, s) = Bytes(pg, s)
           /\ \A k \in q.upper..(PageSize - 1) : \E s \in Live(q) :
                 k >= q.slots[s].tuple_offset /\ k < End(q.slots[s])
<1> DEFINE n == LiveCount(pg)
           order == LiveOrder(pg)
           upper == PlannedUpper(pg)
           live == Live(pg)
<1>1. /\ q.common = pg.common /\ q.slot_count = pg.slot_count /\ q.lower = pg.lower
      /\ q.free_slot_head = pg.free_slot_head
      /\ q.upper = upper[n] /\ q.bytes = MovedBytes(pg)[n]
      /\ SlotIds(q) = SlotIds(pg) /\ DOMAIN q.slots = SlotIds(pg)
  BY PlannedDirectory DEF NewUpper
<1>2. /\ \A s \in SlotIds(pg) :
            /\ q.slots[s].state = pg.slots[s].state
            /\ q.slots[s].aux = pg.slots[s].aux
            /\ q.slots[s].tuple_offset \in Nat => q.slots[s] \in HeapSlotEntry
            /\ s \in live => q.slots[s].tuple_length = pg.slots[s].tuple_length
            /\ s \notin live => q.slots[s].tuple_offset = 0 /\ q.slots[s].tuple_length = 0
      /\ \A i \in 1..n : q.slots[order[i]].tuple_offset = upper[i]
  BY PlannedDirectory
<1>3. /\ n \in Nat /\ PageSize \in Nat /\ upper[0] = PageSize
      /\ \A i \in 0..n : upper[i] \in Int
      /\ \A s \in live : \E i \in 1..n : order[i] = s
      /\ pg.lower \in Nat /\ HeaderSize =< pg.lower /\ HeaderSize \in Nat \ {0}
      /\ upper[n] >= pg.lower
      /\ live \subseteq SlotIds(pg)
      /\ \A i \in 1..n : order[i] \in live
  <2>1. /\ n \in Nat /\ upper[0] = PageSize
        /\ upper \in [0..n -> Int]
        /\ \A s \in live : \E i \in 1..n : order[i] = s
        /\ \A i \in 1..n : order[i] \in live
    BY UpperSteps
  <2>2. /\ PageSize \in Nat /\ HeaderSize \in Nat \ {0}
        /\ pg.lower \in Nat /\ HeaderSize =< pg.lower
    BY StructureFacts, CategoryAssumption, HeapAssumption
  <2>3. upper[n] >= pg.lower /\ live \subseteq SlotIds(pg)
    BY SlotTypes DEF NewUpper
  <2> HIDE DEF order, upper, n, live
  <2> QED
    BY <2>1, <2>2, <2>3
<1>4. /\ \A i, j \in 0..n : i =< j => upper[j] =< upper[i]
      /\ \A i \in 1..n : upper[i] + pg.slots[order[i]].tuple_length = upper[i - 1]
  BY PlanFits
<1>5. ASSUME NEW i \in 1..n
      PROVE  /\ order[i] \in live
             /\ upper[i] \in Nat /\ upper[i] >= upper[n] /\ upper[i - 1] =< PageSize
             /\ q.slots[order[i]].tuple_offset = upper[i]
             /\ End(q.slots[order[i]]) = upper[i - 1]
  <2>1. /\ i \in 0..n /\ n \in 0..n /\ 0 \in 0..n /\ i - 1 \in 0..n
        /\ i =< n /\ 0 =< i - 1
    BY <1>3
  <2>2. upper[i] >= upper[n] /\ upper[i - 1] =< PageSize /\ upper[i] \in Nat
    BY <1>3, <1>4, <2>1
  <2>3. order[i] \in live /\ order[i] \in SlotIds(pg)
    BY <1>3
  <2>4. End(q.slots[order[i]]) = upper[i - 1]
    BY <1>2, <1>4, <2>3 DEF End
  <2>5. q.slots[order[i]].tuple_offset = upper[i]
    BY <1>2
  <2> HIDE DEF order, upper, n, live
  <2> QED
    BY <2>2, <2>3, <2>4, <2>5
<1>6. ASSUME NEW s \in SlotIds(pg) \ live
      PROVE  /\ q.slots[s] \in HeapSlotEntry
             /\ q.slots[s].tuple_offset = 0 /\ q.slots[s].tuple_length = 0
             /\ q.slots[s].state = "DEAD" /\ q.slots[s].aux = 0
  <2>1. pg.slots[s].state = "DEAD"
    BY <1>6 DEF Live
  <2>2. ValidateSlotDescriptor(pg.slots[s], pg.upper)
    BY <1>6 DEF ValidateStructure
  <2>3. pg.slots[s].aux = 0
    BY <2>1, <2>2 DEF ValidateSlotDescriptor
  <2> QED
    BY <1>2, <1>6, <2>1, <2>3
<1>7. ASSUME NEW s \in live
      PROVE  /\ q.slots[s] \in HeapSlotEntry
             /\ ValidateSlotDescriptor(q.slots[s], upper[n])
             /\ q.slots[s].tuple_length # 0 /\ q.slots[s].state = "NORMAL"
  <2>1. PICK i \in 1..n : order[i] = s
    BY <1>3
  <2>2. q.slots[s] \in HeapSlotEntry
    BY <1>2, <1>3, <1>5, <2>1
  <2>3. /\ pg.slots[s].tuple_length \in Nat \ {0}
        /\ pg.slots[s].state = "NORMAL" /\ pg.slots[s].aux = 0
    BY StructureFacts DEF Live
  <2>4. /\ q.slots[s].tuple_length # 0 /\ q.slots[s].state = "NORMAL" /\ q.slots[s].aux = 0
    BY <1>2, <1>3, <2>3
  <2>5. ValidateSlotDescriptor(q.slots[s], upper[n])
    BY <1>5, <2>1, <2>4 DEF ValidateSlotDescriptor
  <2> QED
    BY <2>2, <2>4, <2>5
<1>8. Live(q) = live /\ Retained(q) = live /\ Unused(q) = {}
  <2>1. \A s \in SlotIds(q) : s \in live \/ s \in SlotIds(pg) \ live
    BY <1>1
  <2>2. live \subseteq SlotIds(q)
    BY <1>1, <1>3
  <2> HIDE DEF live
  <2>3. Live(q) = live
    BY <1>6, <1>7, <2>1, <2>2 DEF Live
  <2>4. Retained(q) = live
    BY <1>6, <1>7, <2>1, <2>2 DEF Retained
  <2>5. Unused(q) = {}
    BY <1>6, <1>7, <2>1, <2>2 DEF Unused
  <2> QED
    BY <2>3, <2>4, <2>5
<1>9. q \in [common : BOOLEAN, slot_count : 0..MaxSlots, lower : Nat, upper : Nat,
             free_slot_head : Nat \cup {NoSlot}, slots : [SlotIds(pg) -> HeapSlotEntry],
             bytes : ByteArrays]
  <2>1. q.slots \in [SlotIds(pg) -> HeapSlotEntry]
    <3>1. q.slots = [s \in SlotIds(pg) |-> q.slots[s]]
      BY DEF Compacted, IsPage
    <3>2. \A s \in SlotIds(pg) : q.slots[s] \in HeapSlotEntry
      BY <1>6, <1>7
    <3> QED
      BY <3>1, <3>2
  <2>2. q.bytes \in ByteArrays
    BY <1>1, <1>3, MoveSteps
  <2>3. q.upper \in Nat
    BY <1>1, <1>3
  <2>4. /\ q.common \in BOOLEAN /\ q.slot_count \in 0..MaxSlots /\ q.lower \in Nat
        /\ q.free_slot_head \in Nat \cup {NoSlot}
    BY <1>1 DEF IsPage
  <2>5. q = [common |-> q.common, slot_count |-> q.slot_count, lower |-> q.lower,
             upper |-> q.upper, free_slot_head |-> q.free_slot_head, slots |-> q.slots,
             bytes |-> q.bytes]
    BY DEF Compacted, IsPage
  <2> QED
    BY <2>1, <2>2, <2>3, <2>4, <2>5
<1>10. IsPage(q)
  BY <1>1, <1>9 DEF IsPage, ByteArrays
<1>11. \A s \in SlotIds(q) : ValidateSlotDescriptor(q.slots[s], q.upper)
  <2>1. \A s \in SlotIds(pg) \ live : ValidateSlotDescriptor(q.slots[s], q.upper)
    BY <1>6 DEF ValidateSlotDescriptor
  <2> QED
    BY <1>1, <1>7, <2>1
<1>12. CheckRetainedRangesDisjoint(q)
  <2> SUFFICES ASSUME NEW a \in live, NEW b \in live, a # b PROVE Disjoint(q, a, b)
    BY <1>8, <1>10, OverlapCheck
  <2>1. PICK i \in 1..n : order[i] = a
    BY <1>3
  <2>2. PICK j \in 1..n : order[j] = b
    BY <1>3
  <2>3. /\ End(q.slots[a]) = upper[i - 1] /\ q.slots[a].tuple_offset = upper[i]
        /\ End(q.slots[b]) = upper[j - 1] /\ q.slots[b].tuple_offset = upper[j]
    BY <1>5, <2>1, <2>2
  <2>4. i # j
    BY <2>1, <2>2
  <2>5. CASE i < j
    <3>1. i \in 0..n /\ j - 1 \in 0..n /\ i =< j - 1
      BY <1>3, <2>5
    <3> QED
      BY <1>4, <2>3, <3>1 DEF Disjoint
  <2>6. CASE j < i
    <3>1. j \in 0..n /\ i - 1 \in 0..n /\ j =< i - 1
      BY <1>3, <2>6
    <3> QED
      BY <1>4, <2>3, <3>1 DEF Disjoint
  <2> QED
    BY <1>3, <2>4, <2>5, <2>6
<1>13. ValidateFreeSlotChain(q)
  <2>1. Unused(pg) = {}
    BY DEF Unused
  <2> QED
    BY <1>1, <1>8, <1>10, <2>1, SameChain DEF ValidateStructure
<1>14. ValidateHeapHeaderGeometry(q)
  <2>1. 0 \in 0..n /\ n \in 0..n /\ 0 =< n
    BY <1>3
  <2>2. upper[n] =< PageSize
    BY <1>3, <1>4, <2>1
  <2> QED
    BY <1>1, <1>3, <2>2 DEF ValidateStructure, ValidateHeapHeaderGeometry
<1>15. ValidateStructure(q)
  BY <1>1, <1>11, <1>12, <1>13, <1>14 DEF ValidateStructure
<1>16. ASSUME NEW s \in live PROVE Bytes(q, s) = Bytes(pg, s)
  <2>1. PICK i \in 1..n : order[i] = s
    BY <1>3
  <2>2. /\ q.slots[s].tuple_offset = upper[i]
        /\ q.slots[s].tuple_length = pg.slots[s].tuple_length
    BY <1>2, <1>3, <1>5, <2>1
  <2>3. \A k \in 0..(pg.slots[s].tuple_length - 1) :
           q.bytes[upper[i] + k] = pg.bytes[pg.slots[s].tuple_offset + k]
    BY <1>1, <2>1, MovesAreExact
  <2> QED
    BY <2>2, <2>3 DEF Bytes
<1>17. ASSUME NEW k \in q.upper..(PageSize - 1)
       PROVE  \E s \in Live(q) : k >= q.slots[s].tuple_offset /\ k < End(q.slots[s])
  <2>1. PICK i \in 1..n : upper[i] =< k /\ k < upper[i - 1]
    BY <1>1, NoHole
  <2>2. /\ order[i] \in Live(q) /\ q.slots[order[i]].tuple_offset = upper[i]
        /\ End(q.slots[order[i]]) = upper[i - 1]
    BY <1>5, <1>8
  <2> QED
    BY <1>1, <1>3, <1>5, <2>1, <2>2
<1> QED
  BY <1>1, <1>8, <1>10, <1>15, <1>16, <1>17

-----------------------------------------------------------------------------
(* The operations. *)

(* The bytes of a page are bytes of tuples. *)
LEMMA TupleOfRange ==
    ASSUME NEW pg, IsPage(pg), ValidateStructure(pg), NEW s \in Retained(pg),
           Bytes(pg, s)[0] # Zero
    PROVE  Bytes(pg, s)[0][1] \in Tuple
<1>1. /\ pg.slots[s].tuple_length \in Nat \ {0} /\ pg.slots[s].tuple_offset \in Nat
      /\ End(pg.slots[s]) =< PageSize /\ PageSize \in Nat
  BY StructureFacts
<1>2. Bytes(pg, s)[0] = pg.bytes[pg.slots[s].tuple_offset]
  BY <1>1 DEF Bytes
<1>3. pg.slots[s].tuple_offset \in 0..(PageSize - 1)
  <2> DEFINE offset == pg.slots[s].tuple_offset
             length == pg.slots[s].tuple_length
  <2>1. length \in Nat \ {0} /\ offset \in Nat /\ offset + length =< PageSize /\ PageSize \in Nat
    BY <1>1, Zenon DEF End
  <2> HIDE DEF offset, length
  <2>2. offset \in 0..(PageSize - 1)
    BY ONLY <2>1
  <2> QED
    BY <2>2 DEF offset
<1> DEFINE P == 0..(PageSize - 1)
<1>4. pg.bytes \in [P -> {Zero} \cup (Tuple \X P)]
  BY DEF IsPage
<1> HIDE DEF P
<1>5. Bytes(pg, s)[0] \in Tuple \X P
  BY <1>2, <1>3, <1>4 DEF P
<1> QED
  BY <1>5

(* Tuples whose ranges hold the same bytes under the same slot stay acceptable if no slot of *)
(* the page is lost.                                                                         *)
LEMMA TupleStaysAcceptable ==
    ASSUME NEW pg, IsPage(pg), Validate(pg), NEW q, NEW s \in Retained(pg),
           Bytes(q, s) = Bytes(pg, s), q.slot_count \in Nat, pg.slot_count =< q.slot_count
    PROVE  LET b == Bytes(q, s) IN
           /\ b[0] # Zero
           /\ LET t == b[0][1] IN
              /\ b = [i \in 0..(t.length - 1) |-> <<t, i>>]
              /\ ValidateTupleForSlot(t, s, q.slot_count)
<1> DEFINE b == Bytes(pg, s)
           t == b[0][1]
<1>1. /\ b[0] # Zero /\ b = [i \in 0..(t.length - 1) |-> <<t, i>>]
      /\ ValidateTupleForSlot(t, s, pg.slot_count)
  BY DEF Validate, ValidateRetainedTuples
<1>2. t \in Tuple
  BY <1>1, TupleOfRange DEF Validate
<1>3. t.prev \in Nat \cup {NoSlot} /\ pg.slot_count \in Nat
  BY <1>2, SlotTypes DEF Tuple
<1> HIDE DEF b, t
<1>4. ValidateTupleForSlot(t, s, q.slot_count)
  BY <1>1, <1>3 DEF ValidateTupleForSlot
<1> QED
  BY <1>1, <1>4 DEF b, t

(* Initialize makes a valid page. *)
LEMMA EmptyPage == IsPage(Empty) /\ Validate(Empty)
<1>1. PageSize \in Nat /\ HeaderSize \in Nat /\ SlotSize \in Nat /\ HeaderSize < PageSize
  BY CategoryAssumption
<1>2. /\ Empty.common = TRUE /\ Empty.slot_count = 0 /\ Empty.lower = HeaderSize
      /\ Empty.upper = PageSize /\ Empty.free_slot_head = NoSlot
      /\ Empty.slots = [s \in {} |-> Zero]
  BY DEF Empty
<1>3. SlotIds(Empty) = {}
  BY <1>2 DEF SlotIds
<1>4. Retained(Empty) = {} /\ Unused(Empty) = {}
  BY <1>3 DEF Retained, Unused
<1>5. IsPage(Empty)
  <2>1. 0 \in 0..MaxSlots
    BY HeapAssumption
  <2>2. Empty.slots \in [{} -> HeapSlotEntry]
    BY <1>2
  <2>3. Empty.bytes \in [0..(PageSize - 1) -> {Zero} \cup (Tuple \X (0..(PageSize - 1)))]
    BY DEF Empty
  <2> QED
    BY <1>1, <1>2, <1>3, <2>1, <2>2, <2>3 DEF IsPage, Empty
<1>6. CheckRetainedRangesDisjoint(Empty)
  BY <1>4, <1>5, OverlapCheck
<1>7. ValidateFreeSlotChain(Empty)
  <2>1. <<>> \in SetToSeqs(Unused(Empty))
    BY <1>4, FS_EmptySet DEF SetToSeqs
  <2>2. IsChain(Empty, <<>>)
    BY <1>2 DEF IsChain
  <2> QED
    BY <1>5, <2>1, <2>2, ChainCheck
<1>8. ValidateHeapHeaderGeometry(Empty)
  BY <1>1, <1>2 DEF ValidateHeapHeaderGeometry
<1> QED
  BY <1>2, <1>3, <1>4, <1>5, <1>6, <1>7, <1>8
  DEF Validate, ValidateStructure, ValidateRetainedTuples

(* A successful insertion adds one live range between the directory and the old upper, and   *)
(* touches no other.                                                                         *)
LEMMA InsertedPage ==
    ASSUME IsPage(page), NEW t \in Tuples, InsertError(t) = "OK", NEW q, q = Inserted(t)
    PROVE  /\ ValidateStructure(page)
           /\ IsPage(q) /\ ValidateStructure(q)
           /\ Retained(q) = Retained(page) \cup {page.slot_count}
           /\ Live(q) = Live(page) \cup {page.slot_count}
           /\ \A s \in Retained(page) : Bytes(q, s) = Bytes(page, s)
           /\ q.slot_count = page.slot_count + 1
           /\ Bytes(q, page.slot_count) = [i \in 0..(t.length - 1) |-> <<t, i>>]
           /\ ValidateTupleForSlot(t, page.slot_count, page.slot_count + 1)
<1> DEFINE new == page.slot_count
           offset == page.upper - t.length
<1>1. /\ ValidateStructure(page)
      /\ new # MaxSlots
      /\ ValidateTupleForSlot(t, new, new + 1)
      /\ ~(t.length + SlotSize > page.upper - page.lower)
  BY DEF InsertError
<1>2. /\ t.length \in Nat \ {0} /\ t \in Tuple /\ new \in Nat /\ new + 1 \in 0..MaxSlots
  <2>1. new \in 0..MaxSlots /\ MaxSlots \in Nat
    BY HeapAssumption DEF IsPage
  <2>2. t.length \in Nat /\ t \in Tuple
    BY <2>1, HeapAssumption DEF Tuples, Tuple
  <2> QED
    BY <1>1, <2>1, <2>2 DEF ValidateTupleForSlot
<1>3. /\ page.lower \in Nat /\ page.upper \in Nat /\ PageSize \in Nat
      /\ HeaderSize \in Nat \ {0} /\ SlotSize \in Nat \ {0}
      /\ HeaderSize =< page.lower /\ page.upper =< PageSize
  BY <1>1, StructureFacts, CategoryAssumption, HeapAssumption
<1>4. /\ offset \in Nat /\ page.lower + SlotSize =< offset /\ offset < page.upper
      /\ offset + t.length = page.upper
  BY <1>1, <1>2, <1>3
<1>5. /\ q.common = page.common /\ q.slot_count = new + 1 /\ q.lower = page.lower + SlotSize
      /\ q.upper = offset /\ q.free_slot_head = page.free_slot_head
  BY DEF Inserted, IsPage
<1>6. q.slots = [i \in 0..new |-> IF i = new
                       THEN [tuple_offset |-> offset, tuple_length |-> t.length,
                             state |-> "NORMAL", aux |-> 0]
                       ELSE page.slots[i]]
  BY DEF Inserted, IsPage
<1>7. q.bytes = [k \in 0..(PageSize - 1) |-> IF k \in offset..(page.upper - 1)
                       THEN <<t, k - offset>> ELSE page.bytes[k]]
  BY DEF Inserted, IsPage
<1>8. SlotIds(q) = 0..new /\ SlotIds(page) = 0..(new - 1) /\ SlotIds(q) = SlotIds(page) \cup {new}
      /\ new \notin SlotIds(page)
  BY <1>2, <1>5 DEF SlotIds
<1>9. /\ \A s \in SlotIds(page) : q.slots[s] = page.slots[s]
      /\ q.slots[new] = [tuple_offset |-> offset, tuple_length |-> t.length,
                         state |-> "NORMAL", aux |-> 0]
  BY <1>2, <1>8, <1>6
<1>10. /\ Retained(q) = Retained(page) \cup {new} /\ Live(q) = Live(page) \cup {new}
      /\ Unused(q) = Unused(page)
  <2>1. q.slots[new].state = "NORMAL" /\ q.slots[new].tuple_length # 0
    BY <1>2, <1>9
  <2> HIDE DEF new
  <2> QED
    BY <1>8, <1>9, <2>1 DEF Retained, Live, Unused
<1>11. IsPage(q)
  <2>1. q.slots \in [SlotIds(q) -> HeapSlotEntry]
    <3>1. \A s \in SlotIds(page) : page.slots[s] \in HeapSlotEntry
      BY SlotTypes
    <3>2. q.slots[new] \in HeapSlotEntry
      BY <1>2, <1>4, <1>9 DEF HeapSlotEntry, HeapSlotState
    <3>3. \A s \in SlotIds(q) : q.slots[s] \in HeapSlotEntry
      BY <1>8, <1>9, <3>1, <3>2
    <3>4. q.slots = [s \in SlotIds(q) |-> q.slots[s]]
      BY <1>8, <1>6
    <3> QED
      BY <3>3, <3>4
  <2>2. q.bytes \in ByteArrays
    <3> DEFINE P == 0..(PageSize - 1)
               B == {Zero} \cup (Tuple \X P)
    <3>1. page.bytes \in [P -> B]
      BY DEF IsPage
    <3>2. \A k \in P : k \in offset..(page.upper - 1) => <<t, k - offset>> \in B
      BY <1>2, <1>3, <1>4
    <3>3. q.bytes = [k \in P |-> IF k \in offset..(page.upper - 1)
                                THEN <<t, k - offset>> ELSE page.bytes[k]]
      BY <1>7
    <3> HIDE DEF B, P, offset
    <3>4. q.bytes \in [P -> B]
      BY <3>1, <3>2, <3>3
    <3> QED
      BY <3>4 DEF ByteArrays, B, P
  <2>3. /\ q.common \in BOOLEAN /\ q.slot_count \in 0..MaxSlots /\ q.lower \in Nat
        /\ q.upper \in Nat /\ q.free_slot_head \in Nat \cup {NoSlot}
    BY <1>2, <1>3, <1>4, <1>5 DEF IsPage
  <2>4. q = [common |-> q.common, slot_count |-> q.slot_count, lower |-> q.lower,
             upper |-> q.upper, free_slot_head |-> q.free_slot_head, slots |-> q.slots,
             bytes |-> q.bytes]
    BY DEF Inserted, IsPage
  <2> QED
    BY <2>1, <2>2, <2>3, <2>4 DEF IsPage, ByteArrays
<1>12. ValidateHeapHeaderGeometry(q)
  <2>1. page.lower = HeaderSize + new * SlotSize
    BY <1>1 DEF ValidateStructure, ValidateHeapHeaderGeometry
  <2>2. (new + 1) * SlotSize = new * SlotSize + SlotSize
    BY <1>2, <1>3
  <2>3. new * SlotSize \in Nat
    BY <1>2, <1>3
  <2> HIDE DEF offset, new
  <2> QED
    BY <1>3, <1>4, <1>5, <2>1, <2>2, <2>3 DEF ValidateHeapHeaderGeometry
<1>13. \A s \in SlotIds(q) : ValidateSlotDescriptor(q.slots[s], q.upper)
  <2>1. ASSUME NEW s \in SlotIds(page) PROVE ValidateSlotDescriptor(q.slots[s], q.upper)
    <3>1. ValidateSlotDescriptor(page.slots[s], page.upper)
      BY <1>1 DEF ValidateStructure
    <3>2. page.slots[s].tuple_offset \in Nat
      BY SlotTypes
    <3>3. q.upper = offset /\ q.slots[s] = page.slots[s]
      BY <1>5, <1>9
    <3> HIDE DEF offset
    <3>4. page.slots[s].tuple_offset >= page.upper => page.slots[s].tuple_offset >= offset
      BY <1>3, <1>4, <3>2
    <3> QED
      BY <3>1, <3>3, <3>4 DEF ValidateSlotDescriptor
  <2>2. ValidateSlotDescriptor(q.slots[new], q.upper)
    BY <1>2, <1>3, <1>4, <1>5, <1>9 DEF ValidateSlotDescriptor, End
  <2> QED
    BY <1>8, <2>1, <2>2
<1>14. \A s \in Retained(page) :
          /\ s \in SlotIds(page) /\ q.slots[s] = page.slots[s]
          /\ page.slots[s].tuple_offset \in Nat /\ page.slots[s].tuple_length \in Nat
          /\ page.slots[s].tuple_offset >= page.upper
          /\ End(page.slots[s]) =< PageSize
  BY <1>1, <1>9, SlotTypes, StructureFacts
<1>15. CheckRetainedRangesDisjoint(q)
  <2> SUFFICES ASSUME NEW a \in Retained(q), NEW b \in Retained(q), a # b
               PROVE  Disjoint(q, a, b)
    BY <1>11, OverlapCheck
  <2>1. End(q.slots[new]) = page.upper
    BY <1>4, <1>9 DEF End
  <2>2. CASE a \in Retained(page) /\ b \in Retained(page)
    <3>1. Disjoint(page, a, b)
      BY <1>1, <2>2, StructureFacts
    <3> QED
      BY <1>14, <2>2, <3>1 DEF Disjoint
  <2>3. CASE a = new \/ b = new
    <3>1. /\ a = new => b \in Retained(page)
          /\ b = new => a \in Retained(page)
      BY <1>10
    <3> HIDE DEF new
    <3> QED
      BY <1>3, <1>14, <2>1, <2>3, <3>1 DEF Disjoint
  <2> QED
    BY <1>10, <2>2, <2>3
<1>16. ValidateFreeSlotChain(q)
  <2>1. \A s \in Unused(page) : q.slots[s].aux = page.slots[s].aux
    BY <1>9, SlotTypes
  <2>2. ValidateFreeSlotChain(page)
    BY <1>1 DEF ValidateStructure
  <2>3. q.free_slot_head = page.free_slot_head /\ Unused(q) = Unused(page)
    BY <1>5, <1>10
  <2> QED
    BY <1>11, <2>1, <2>2, <2>3, SameChain
<1>17. ValidateStructure(q)
  BY <1>1, <1>5, <1>12, <1>13, <1>15, <1>16 DEF ValidateStructure
<1>18. ASSUME NEW s \in Retained(page) PROVE Bytes(q, s) = Bytes(page, s)
  <2>1. ASSUME NEW i \in 0..(page.slots[s].tuple_length - 1)
        PROVE  q.bytes[page.slots[s].tuple_offset + i] = page.bytes[page.slots[s].tuple_offset + i]
    <3>1. /\ page.slots[s].tuple_offset + i \in 0..(PageSize - 1)
          /\ page.slots[s].tuple_offset + i \notin offset..(page.upper - 1)
      BY <1>3, <1>4, <1>14 DEF End
    <3> QED
      BY <1>7, <3>1
  <2> QED
    BY <1>14, <2>1 DEF Bytes
<1>19. Bytes(q, new) = [i \in 0..(t.length - 1) |-> <<t, i>>]
  <2>1. q.slots[new].tuple_offset = offset /\ q.slots[new].tuple_length = t.length
    BY <1>9
  <2>2. ASSUME NEW i \in 0..(t.length - 1) PROVE q.bytes[offset + i] = <<t, i>>
    <3>1. offset + i \in 0..(PageSize - 1) /\ offset + i \in offset..(page.upper - 1)
          /\ (offset + i) - offset = i
      BY <1>2, <1>3, <1>4
    <3> HIDE DEF offset
    <3> QED
      BY <1>7, <3>1
  <2> HIDE DEF offset
  <2> QED
    BY <2>1, <2>2 DEF Bytes
<1> QED
  BY <1>1, <1>5, <1>10, <1>11, <1>17, <1>18, <1>19

(* MarkDead takes one slot from the live ones and leaves every range where it is. *)
LEMMA MarkedPage ==
    ASSUME IsPage(page), NEW s \in 0..page.slot_count, MarkDeadError(s) = "OK",
           NEW q, q = [page EXCEPT !.slots[s] = DeadSlot(@)]
    PROVE  /\ ValidateStructure(page) /\ s \in Live(page)
           /\ IsPage(q) /\ ValidateStructure(q)
           /\ q.slot_count = page.slot_count
           /\ Retained(q) = Retained(page) /\ Live(q) = Live(page) \ {s}
           /\ \A r \in Retained(page) : Bytes(q, r) = Bytes(page, r)
<1>1. ValidateStructure(page) /\ s < page.slot_count /\ page.slots[s].state = "NORMAL"
  <2>1. /\ ValidateStructure(page) /\ ~(s >= page.slot_count)
        /\ page.slots[s].state = "NORMAL"
    BY DEF MarkDeadError
  <2>2. page.slot_count \in Nat
    BY SlotTypes
  <2> QED
    BY <2>1, <2>2
<1>2. s \in SlotIds(page) /\ s \in Live(page) /\ s \in Retained(page)
  <2>1. s \in SlotIds(page)
    BY <1>1, SlotTypes DEF SlotIds
  <2>2. s \in Live(page)
    BY <1>1, <2>1 DEF Live
  <2> QED
    BY <1>1, <2>1, <2>2, StructureFacts
<1>3. /\ q.common = page.common /\ q.slot_count = page.slot_count /\ q.lower = page.lower
      /\ q.upper = page.upper /\ q.free_slot_head = page.free_slot_head
      /\ q.bytes = page.bytes
      /\ q.slots = [page.slots EXCEPT ![s] = DeadSlot(page.slots[s])]
  BY DEF IsPage
<1>4. SlotIds(q) = SlotIds(page)
  BY <1>3 DEF SlotIds
<1>5. \A r \in SlotIds(page) : page.slots[r] \in HeapSlotEntry
  BY SlotTypes
<1>6. \A r \in SlotIds(page) : r # s => q.slots[r] = page.slots[r]
  BY <1>3, SlotTypes
<1>7. /\ q.slots[s] \in HeapSlotEntry /\ q.slots[s].state = "DEAD"
      /\ q.slots[s].tuple_offset = page.slots[s].tuple_offset
      /\ q.slots[s].tuple_length = page.slots[s].tuple_length
      /\ q.slots[s].aux = page.slots[s].aux
  <2>1. q.slots[s] = [page.slots[s] EXCEPT !.state = "DEAD"]
    BY <1>2, <1>3, SlotTypes DEF DeadSlot
  <2>2. page.slots[s] \in HeapSlotEntry
    BY <1>2, <1>5
  <2> QED
    BY <2>1, <2>2 DEF HeapSlotEntry, HeapSlotState
<1>8. \A r \in SlotIds(page) : /\ q.slots[r].tuple_offset = page.slots[r].tuple_offset
                               /\ q.slots[r].tuple_length = page.slots[r].tuple_length
                               /\ q.slots[r].aux = page.slots[r].aux
                               /\ End(q.slots[r]) = End(page.slots[r])
  BY <1>6, <1>7 DEF End
<1>9. /\ Retained(q) = Retained(page) /\ Live(q) = Live(page) \ {s}
      /\ Unused(q) = Unused(page)
  <2>1. Retained(q) = Retained(page)
    BY <1>1, <1>4, <1>6, <1>7 DEF Retained
  <2>2. Live(q) = Live(page) \ {s}
    BY <1>2, <1>4, <1>6, <1>7 DEF Live
  <2>3. Unused(q) = Unused(page)
    BY <1>1, <1>4, <1>6, <1>7 DEF Unused
  <2> QED
    BY <2>1, <2>2, <2>3
<1>10. IsPage(q)
  <2>1. q.slots \in [SlotIds(page) -> HeapSlotEntry]
    <3>1. page.slots \in [SlotIds(page) -> HeapSlotEntry]
      BY SlotTypes
    <3>2. \A r \in SlotIds(page) : q.slots[r] \in HeapSlotEntry
      BY <1>5, <1>6, <1>7
    <3> QED
      BY <1>3, <3>1, <3>2
  <2>2. q.bytes \in ByteArrays
    BY <1>3 DEF IsPage, ByteArrays
  <2>3. /\ q.common \in BOOLEAN /\ q.slot_count \in 0..MaxSlots /\ q.lower \in Nat
        /\ q.upper \in Nat /\ q.free_slot_head \in Nat \cup {NoSlot}
    BY <1>3 DEF IsPage
  <2>4. q = [common |-> q.common, slot_count |-> q.slot_count, lower |-> q.lower,
             upper |-> q.upper, free_slot_head |-> q.free_slot_head, slots |-> q.slots,
             bytes |-> q.bytes]
    BY DEF IsPage
  <2> QED
    BY <1>4, <2>1, <2>2, <2>3, <2>4 DEF IsPage, ByteArrays
<1>11. /\ page.lower \in Nat /\ page.upper \in Nat /\ HeaderSize \in Nat \ {0}
       /\ HeaderSize =< page.lower /\ page.lower =< page.upper
  BY <1>1, StructureFacts, CategoryAssumption, HeapAssumption
<1>12. \A r \in SlotIds(q) : ValidateSlotDescriptor(q.slots[r], q.upper)
  <2>1. ASSUME NEW r \in SlotIds(page), r # s
        PROVE  ValidateSlotDescriptor(q.slots[r], q.upper)
    BY <1>1, <1>3, <1>6, <2>1 DEF ValidateStructure
  <2>2. ValidateSlotDescriptor(q.slots[s], q.upper)
    <3>1. /\ page.slots[s].tuple_length # 0 /\ page.slots[s].aux = 0
          /\ page.slots[s].tuple_offset \in Nat
          /\ page.slots[s].tuple_offset >= page.upper
          /\ End(page.slots[s]) =< PageSize
      BY <1>1, <1>2, StructureFacts
    <3>2. page.slots[s].tuple_offset # 0
      BY <1>11, <3>1
    <3>3. End(q.slots[s]) =< PageSize
      BY <1>2, <1>8, <3>1
    <3> QED
      BY <1>3, <1>7, <3>1, <3>2, <3>3 DEF ValidateSlotDescriptor
  <2> QED
    BY <1>4, <2>1, <2>2
<1>13. CheckRetainedRangesDisjoint(q)
  <2> SUFFICES ASSUME NEW a \in Retained(page), NEW b \in Retained(page), a # b
               PROVE  Disjoint(q, a, b)
    BY <1>9, <1>10, OverlapCheck
  <2>1. Disjoint(page, a, b)
    BY <1>1, StructureFacts
  <2>2. a \in SlotIds(page) /\ b \in SlotIds(page)
    BY SlotTypes
  <2> QED
    BY <1>8, <2>1, <2>2 DEF Disjoint
<1>14. ValidateFreeSlotChain(q)
  <2>1. \A r \in Unused(page) : q.slots[r].aux = page.slots[r].aux
    BY <1>8, SlotTypes
  <2>2. ValidateFreeSlotChain(page)
    BY <1>1 DEF ValidateStructure
  <2> QED
    BY <1>3, <1>9, <1>10, <2>1, <2>2, SameChain
<1>15. ValidateStructure(q)
  <2>1. ValidateHeapHeaderGeometry(q) /\ q.common
    BY <1>1, <1>3 DEF ValidateStructure, ValidateHeapHeaderGeometry
  <2> QED
    BY <1>12, <1>13, <1>14, <2>1 DEF ValidateStructure
<1>16. ASSUME NEW r \in Retained(page) PROVE Bytes(q, r) = Bytes(page, r)
  <2>1. r \in SlotIds(page)
    BY SlotTypes
  <2> QED
    BY <1>3, <1>8, <2>1 DEF Bytes
<1> QED
  BY <1>1, <1>2, <1>3, <1>9, <1>10, <1>15, <1>16

(* What a successful compaction may assume. *)
LEMMA CompactGuard ==
    ASSUME IsPage(page), CompactError = "OK"
    PROVE  /\ ValidateStructure(page)
           /\ \A s \in SlotIds(page) : page.slots[s].state \in {"NORMAL", "DEAD"}
           /\ NewUpper(page) >= page.lower
<1>1. /\ ValidateStructure(page)
      /\ ~(\E s \in SlotIds(page) : page.slots[s].state \notin {"NORMAL", "DEAD"})
      /\ ~(NewUpper(page) < page.lower)
  BY DEF CompactError
<1>2. page.lower \in Nat
  BY DEF IsPage
<1>3. NewUpper(page) \in Int
  <2>1. /\ LiveCount(page) \in Nat
        /\ PlannedUpper(page) \in [0..LiveCount(page) -> Int]
    BY UpperSteps
  <2>2. LiveCount(page) \in 0..LiveCount(page)
    BY <2>1
  <2> QED
    BY <2>1, <2>2 DEF NewUpper
<1> QED
  BY <1>1, <1>2, <1>3

-----------------------------------------------------------------------------
(* The theorems. *)

(* A frame nobody initialised is a page. *)
LEMMA InitTypeOK == Init => TypeOK
BY EmptyPage DEF Init, TypeOK, RawFrame, IsPage, SlotIds

(* Every operation leaves a page. *)
LEMMA NextTypeOK == TypeOK /\ [Next]_page => TypeOK'
<1> SUFFICES ASSUME IsPage(page), [Next]_page PROVE IsPage(page')
  BY DEF TypeOK, IsPage, SlotIds
<1>1. CASE Initialize
  BY <1>1, EmptyPage DEF Initialize
<1>2. CASE Load
  BY <1>2, HeapAssumption DEF Load
<1>3. ASSUME NEW t \in Tuples, Insert(t) PROVE IsPage(page')
  BY <1>3, InsertedPage DEF Insert
<1>4. ASSUME NEW s \in 0..page.slot_count, MarkDead(s) PROVE IsPage(page')
  BY <1>4, MarkedPage DEF MarkDead
<1>5. CASE Compact
  BY <1>5, CompactGuard, CompactedPage DEF Compact
<1>6. CASE UNCHANGED page
  BY <1>6
<1> QED
  BY <1>1, <1>2, <1>3, <1>4, <1>5, <1>6 DEF Next

(* Whatever image was read, and whatever the operations do to it, slot directory and bytes   *)
(* keep their shape: slot_count entries, offsets and lengths that are natural numbers.       *)
THEOREM TypeInvariant == Spec => []TypeOK
<1>1. Init => TypeOK
  BY InitTypeOK
<1>2. TypeOK /\ [Next]_page => TypeOK'
  BY NextTypeOK
<1> QED
  BY <1>1, <1>2, PTL DEF Spec

(* CategoryPromisesSpace: Insert never answers INSUFFICIENT_SPACE to a tuple that the        *)
(* free-space map sent to the page by its category, for every page size, slot size and       *)
(* number of categories.                                                                     *)
THEOREM CategoryPromise == Spec => []CategoryPromisesSpace
<1>1. TypeOK => CategoryPromisesSpace
  <2> SUFFICES ASSUME IsPage(page), NEW t \in Tuples, t.length \in 1..MaxTuple,
                      page.lower =< page.upper,
                      FsmCategoryForFreeBytes(page.upper - page.lower)
                        >= MinimumFsmCategoryForTupleBytes(t.length)
               PROVE  InsertError(t) # "INSUFFICIENT_SPACE"
    BY DEF TypeOK, CategoryPromisesSpace
  <2>1. page.upper - page.lower \in Nat
    BY DEF IsPage
  <2>2. t.length + SlotSize =< page.upper - page.lower
    BY <2>1, CategorySuffices
  <2>3. t.length + SlotSize \in Nat
    BY HeapAssumption, CategoryAssumption DEF Tuples
  <2>4. ~(t.length + SlotSize > page.upper - page.lower)
    BY <2>1, <2>2, <2>3
  <2> QED
    BY <2>4 DEF InsertError
<1> QED
  BY <1>1, TypeInvariant, PTL

(* OverlapCheckExact: comparing neighbours in sorted order (pass 2 of the validator) finds   *)
(* every overlap of retained ranges and nothing else, on every image.                        *)
THEOREM OverlapCheckIsExact == Spec => []OverlapCheckExact
<1>1. TypeOK => OverlapCheckExact
  BY OverlapCheck DEF TypeOK, OverlapCheckExact, Disjoint
<1> QED
  BY <1>1, TypeInvariant, PTL

(* ChainCheckExact: the bounded walk of pass 4 accepts exactly the free-slot chains that list *)
(* every UNUSED slot once.                                                                   *)
THEOREM ChainCheckIsExact == Spec => []ChainCheckExact
<1>1. TypeOK => ChainCheckExact
  BY ChainCheck DEF TypeOK, ChainCheckExact, IsChain
<1> QED
  BY <1>1, TypeInvariant, PTL

(* "compaction must move tuples toward the page end" (an assertion of PlanCompaction): the  *)
(* plan gives every live tuple an offset at or above the one it has, in the order in which   *)
(* the tuples are moved.                                                                     *)
CompactMovesUp ==
    ValidateStructure(page) =>
       \A i \in 1..LiveCount(page) :
          PlannedUpper(page)[i] >= page.slots[LiveOrder(page)[i]].tuple_offset

(* CompactMovesUp: the assertion of PlanCompaction holds on every structurally valid page.    *)
THEOREM CompactionMovesUp == Spec => []CompactMovesUp
<1>1. TypeOK => CompactMovesUp
  BY PlanFits DEF TypeOK, CompactMovesUp
<1> QED
  BY <1>1, TypeInvariant, PTL

(* CompactLeavesNoHole: after a successful Compact every byte above upper belongs to a live  *)
(* tuple.                                                                                    *)
THEOREM CompactionLeavesNoHole == Spec => CompactLeavesNoHole
<1>1. TypeOK /\ [Next]_page => [Compact /\ CompactError = "OK" =>
         \A k \in page'.upper..(PageSize - 1) : \E s \in Live(page') :
            k >= page'.slots[s].tuple_offset /\ k < End(page'.slots[s])]_page
  <2> SUFFICES ASSUME IsPage(page), Compact, CompactError = "OK"
               PROVE  \A k \in page'.upper..(PageSize - 1) : \E s \in Live(page') :
                         k >= page'.slots[s].tuple_offset /\ k < End(page'.slots[s])
    BY DEF TypeOK
  <2> QED
    BY CompactGuard, CompactedPage DEF Compact
<1> QED
  BY <1>1, TypeInvariant, PTL DEF Spec, CompactLeavesNoHole

(* The mutations one by one: retained tuples keep their bytes, so they stay acceptable, and  *)
(* the tuple that Insert adds has just been accepted.                                        *)
LEMMA MutationsKeepL1 ==
    ASSUME IsPage(page), Validate(page), Next, ~Load
    PROVE  Validate(page')
<1>1. ValidateStructure(page) /\ ValidateRetainedTuples(page) /\ page.slot_count \in Nat
  BY SlotTypes DEF Validate
<1>2. CASE Initialize
  BY <1>2, EmptyPage DEF Initialize
<1>3. ASSUME NEW t \in Tuples, Insert(t) PROVE Validate(page')
  <2>1. CASE InsertError(t) # "OK"
    BY <1>3, <2>1 DEF Insert
  <2>2. CASE InsertError(t) = "OK"
    <3> DEFINE new == page.slot_count
    <3>1. page' = Inserted(t)
      BY <1>3, <2>2 DEF Insert
    <3>2. /\ ValidateStructure(page') /\ Retained(page') = Retained(page) \cup {new}
          /\ \A s \in Retained(page) : Bytes(page', s) = Bytes(page, s)
          /\ page'.slot_count = new + 1
          /\ Bytes(page', new) = [i \in 0..(t.length - 1) |-> <<t, i>>]
          /\ ValidateTupleForSlot(t, new, new + 1)
      BY <2>2, <3>1, InsertedPage
    <3>3. ASSUME NEW s \in Retained(page)
          PROVE  LET b == Bytes(page', s) IN
                 /\ b[0] # Zero
                 /\ LET u == b[0][1] IN
                    /\ b = [i \in 0..(u.length - 1) |-> <<u, i>>]
                    /\ ValidateTupleForSlot(u, s, page'.slot_count)
      BY <1>1, <3>2, TupleStaysAcceptable
    <3>4. LET b == Bytes(page', new) IN
          /\ b[0] # Zero
          /\ LET u == b[0][1] IN
             /\ b = [i \in 0..(u.length - 1) |-> <<u, i>>]
             /\ ValidateTupleForSlot(u, new, page'.slot_count)
      <4>1. t.length \in Nat \ {0}
        BY <3>2, HeapAssumption DEF ValidateTupleForSlot, Tuples
      <4>2. Bytes(page', new)[0] = <<t, 0>>
        BY <3>2, <4>1
      <4>3. <<t, 0>> # <<>>
        OBVIOUS
      <4>4. Bytes(page', new)[0] # Zero
        BY <4>2, <4>3 DEF Zero
      <4>5. Bytes(page', new)[0][1] = t
        BY <4>2
      <4> QED
        BY <3>2, <4>4, <4>5
    <3>5. ValidateRetainedTuples(page')
      BY <3>2, <3>3, <3>4 DEF ValidateRetainedTuples
    <3> QED
      BY <3>2, <3>5 DEF Validate
  <2> QED
    BY <2>1, <2>2
<1>4. ASSUME NEW s \in 0..page.slot_count, MarkDead(s) PROVE Validate(page')
  <2>1. CASE MarkDeadError(s) # "OK"
    BY <1>4, <2>1 DEF MarkDead
  <2>2. CASE MarkDeadError(s) = "OK"
    <3>1. page' = [page EXCEPT !.slots[s] = DeadSlot(@)]
      BY <1>4, <2>2 DEF MarkDead
    <3>2. /\ ValidateStructure(page') /\ Retained(page') = Retained(page)
          /\ page'.slot_count = page.slot_count
          /\ \A r \in Retained(page) : Bytes(page', r) = Bytes(page, r)
      BY <2>2, <3>1, MarkedPage
    <3>3. ValidateRetainedTuples(page')
      BY <1>1, <3>2, TupleStaysAcceptable DEF ValidateRetainedTuples
    <3> QED
      BY <3>2, <3>3 DEF Validate
  <2> QED
    BY <2>1, <2>2
<1>5. CASE Compact
  <2>1. CASE CompactError # "OK"
    BY <1>5, <2>1 DEF Compact
  <2>2. CASE CompactError = "OK"
    <3>1. page' = Compacted(page)
      BY <1>5, <2>2 DEF Compact
    <3>2. /\ ValidateStructure(page') /\ Retained(page') = Live(page)
          /\ \A r \in Live(page) : Bytes(page', r) = Bytes(page, r)
      BY <2>2, <3>1, CompactGuard, CompactedPage
    <3>3. page'.slot_count = page.slot_count
      BY <3>1, PlannedDirectory
    <3>4. Live(page) \subseteq Retained(page)
      BY <1>1, StructureFacts
    <3>5. ValidateRetainedTuples(page')
      BY <1>1, <3>2, <3>3, <3>4, TupleStaysAcceptable DEF ValidateRetainedTuples
    <3> QED
      BY <3>2, <3>5 DEF Validate
  <2> QED
    BY <2>1, <2>2
<1> QED
  BY <1>2, <1>3, <1>4, <1>5 DEF Next

(* L1Kept: Insert, MarkDead and Compact keep a page that passes the full validation valid,   *)
(* and Initialize makes one.                                                                 *)
THEOREM MutationsKeepPagesValid == Spec => L1Kept
<1>1. TypeOK /\ [Next]_page => [Validate(page) \/ Initialize => Validate(page')]_page
  <2> SUFFICES ASSUME IsPage(page), Next, Validate(page) \/ Initialize
               PROVE  Validate(page')
    BY DEF TypeOK
  <2>1. CASE Initialize
    BY <2>1, EmptyPage DEF Initialize
  <2>2. CASE Validate(page)
    <3>1. ~Load
      BY <2>2 DEF Load, RawFrame, Empty, Validate, ValidateStructure
    <3> QED
      BY <2>2, <3>1, MutationsKeepL1
  <2> QED
    BY <2>1, <2>2
<1> QED
  BY <1>1, TypeInvariant, PTL DEF Spec, L1Kept

(* TuplesStable: under its SlotId a tuple reads as the same bytes until MarkDead removes it,  *)
(* through every insertion and every in-place compaction.                                    *)
THEOREM TuplesAreStable == Spec => TuplesStable
<1>1. TypeOK /\ [Next]_page =>
         [Initialize \/ page = RawFrame \/
          \A s \in SlotIds(page) :
             \/ TupleBytes(page', s) = TupleBytes(page, s)
             \/ MarkDead(s) /\ TupleBytes(page', s) = Zero]_page
  <2> SUFFICES ASSUME IsPage(page), Next, ~Initialize, ~Load, NEW s \in SlotIds(page),
                      TupleBytes(page', s) # TupleBytes(page, s)
               PROVE  MarkDead(s) /\ TupleBytes(page', s) = Zero
    BY DEF TypeOK, Load
  <2>1. ASSUME NEW t \in Tuples, Insert(t) PROVE FALSE
    <3>1. page' # page
      OBVIOUS
    <3>2. InsertError(t) = "OK" /\ page' = Inserted(t)
      BY <2>1, <3>1 DEF Insert
    <3>3. /\ ValidateStructure(page) /\ ValidateStructure(page')
          /\ Live(page') = Live(page) \cup {page.slot_count}
          /\ \A r \in Retained(page) : Bytes(page', r) = Bytes(page, r)
      BY <3>2, InsertedPage
    <3>4. Live(page) \subseteq Retained(page)
      BY <3>3, StructureFacts
    <3>5. s # page.slot_count
      BY SlotTypes DEF SlotIds
    <3> QED
      BY <3>3, <3>4, <3>5 DEF TupleBytes
  <2>2. ASSUME NEW r \in 0..page.slot_count, MarkDead(r)
        PROVE  MarkDead(s) /\ TupleBytes(page', s) = Zero
    <3>1. page' # page
      OBVIOUS
    <3>2. MarkDeadError(r) = "OK" /\ page' = [page EXCEPT !.slots[r] = DeadSlot(@)]
      BY <2>2, <3>1 DEF MarkDead
    <3>3. /\ ValidateStructure(page) /\ ValidateStructure(page')
          /\ Live(page') = Live(page) \ {r}
          /\ \A u \in Retained(page) : Bytes(page', u) = Bytes(page, u)
      BY <3>2, MarkedPage
    <3>4. Live(page) \subseteq Retained(page)
      BY <3>3, StructureFacts
    <3>5. s = r
      BY <3>3, <3>4 DEF TupleBytes
    <3> QED
      BY <2>2, <3>3, <3>5 DEF TupleBytes
  <2>3. CASE Compact
    <3>1. page' # page
      OBVIOUS
    <3>2. CompactError = "OK" /\ page' = Compacted(page)
      BY <2>3, <3>1 DEF Compact
    <3>3. /\ ValidateStructure(page) /\ ValidateStructure(page') /\ Live(page') = Live(page)
          /\ \A u \in Live(page) : Bytes(page', u) = Bytes(page, u)
      BY <3>2, CompactGuard, CompactedPage
    <3> QED
      BY <3>3 DEF TupleBytes
  <2> QED
    BY <2>1, <2>2, <2>3 DEF Next
<1> QED
  BY <1>1, TypeInvariant, PTL DEF Spec, TuplesStable
=============================================================================
