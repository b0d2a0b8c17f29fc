---------------------------- MODULE MCHeapPage ------------------------------
(* A page of twelve bytes, built by the operations or read from the file: every image of   *)
(* three slots with small descriptors.                                                     *)
EXTENDS HeapPage

(* Descriptors of every kind: canonical and not, in range and not, linked and not. *)
Descriptors ==
    [tuple_offset : {0}, tuple_length : {0}, state : {"UNUSED"}, aux : {0, 1, 2, NoSlot}]
    \cup [tuple_offset : 9..12, tuple_length : 1..2, state : {"NORMAL"}, aux : {0}]
    \cup [tuple_offset : {10}, tuple_length : {1, 2}, state : {"DEAD"}, aux : {0}]
    \cup {[tuple_offset |-> 0, tuple_length |-> 0, state |-> "DEAD", aux |-> 0],
          [tuple_offset |-> 0, tuple_length |-> 1, state |-> "DEAD", aux |-> 0],
          [tuple_offset |-> 11, tuple_length |-> 0, state |-> "NORMAL", aux |-> 0],
          [tuple_offset |-> 0, tuple_length |-> 1, state |-> "UNUSED", aux |-> NoSlot],
          [tuple_offset |-> 0, tuple_length |-> 0, state |-> "REDIRECT_RESERVED", aux |-> 0]}

(* The first slot whose range covers byte k, as the owner of that byte. *)
Content(slots, k) ==
    LET owners == {s \in DOMAIN slots : k >= slots[s].tuple_offset /\ k < End(slots[s])} IN
    IF owners = {} THEN Zero
    ELSE LET s == Min(owners) IN
         <<[by |-> s, length |-> slots[s].tuple_length, accepted |-> TRUE, prev |-> NoSlot],
           k - slots[s].tuple_offset>>

Image(slots, head, lower, upper) ==
    [common |-> TRUE, slot_count |-> 3, lower |-> lower, upper |-> upper,
     free_slot_head |-> head, slots |-> slots,
     bytes |-> [k \in 0..(PageSize - 1) |-> Content(slots, k)]]

SmallImages ==
    {Image(slots, head, 8, upper) :
        slots \in [0..2 -> Descriptors], head \in {0, 2, NoSlot}, upper \in {8, 10}}
=============================================================================
