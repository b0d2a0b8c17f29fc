---------------------------- MODULE ClockReplacer ----------------------------
(***************************************************************************)
(* The CLOCK policy of src/src/storage/buffer/clock_replacer.*. BufferPool  *)
(* calls it with its mutex held, so nothing else happens between the first  *)
(* and the last step of one FindCandidate; between two calls the reference  *)
(* bits and the set of evictable frames change in any way they can.         *)
(*                                                                         *)
(* BufferPool.tla lets an eviction take any eligible frame and refuses one  *)
(* only when there is none. The properties here are what allows that.       *)
(***************************************************************************)
EXTENDS Integers

CONSTANTS
    N,        \* the number of frames
    NoFrame   \* std::nullopt

Frames == 0..(N - 1)

(* The constructor aborts on an empty pool. *)
ASSUME FrameCountAssumption == N \in Nat \ {0} /\ NoFrame \notin Frames

VARIABLES
    referenced,  \* the frames whose reference bit is set
    hand,        \* hand_
    eligible,    \* the frames the predicate of the call in progress accepts
    visits,      \* last_pass_visits_, which is also the loop counter
    running,     \* a call is in progress
    candidate,   \* what the last call returned
    start, before  \* hand and referenced when the last call began

vars == <<referenced, hand, eligible, visits, running, candidate, start, before>>

TypeOK ==
    /\ referenced \in SUBSET Frames /\ before \in SUBSET Frames /\ eligible \in SUBSET Frames
    /\ hand \in Frames /\ start \in Frames
    /\ visits \in 0..(2 * N)
    /\ running \in BOOLEAN
    /\ candidate \in Frames \cup {NoFrame}

Init ==
    /\ referenced = {} /\ hand = 0 /\ visits = 0
    /\ eligible = {} /\ running = FALSE /\ candidate = NoFrame
    /\ start = 0 /\ before = {}

SetReferenced(f) ==
    /\ ~running
    /\ referenced' = referenced \cup {f}
    /\ UNCHANGED <<hand, eligible, visits, running, candidate, start, before>>

ClearReferenced(f) ==
    /\ ~running
    /\ referenced' = referenced \ {f}
    /\ UNCHANGED <<hand, eligible, visits, running, candidate, start, before>>

(* FindCandidate is called; e is the set of frames IsVictimEligible accepts. *)
FindCandidate(e) ==
    /\ ~running
    /\ running' = TRUE /\ eligible' = e /\ visits' = 0 /\ candidate' = NoFrame
    /\ start' = hand /\ before' = referenced
    /\ UNCHANGED <<referenced, hand>>

(* Mutation: one rotation. *)
OneRotation == N

(* The loop bound. *)
VisitBound == 2 * N

(* Mutation: the reference bit is not looked at. *)
TakenIfReferenced(f) == f \in eligible

Taken(f) == f \in eligible /\ f \notin referenced

(* One iteration of the loop. *)
Visit ==
    /\ running /\ visits < VisitBound
    /\ hand' = (hand + 1) % N
    /\ visits' = visits + 1
    /\ \/ /\ Taken(hand)
          /\ candidate' = hand /\ running' = FALSE
          /\ UNCHANGED referenced
       \/ /\ ~Taken(hand)
          /\ referenced' = referenced \ ({hand} \cap eligible)
          /\ UNCHANGED <<candidate, running>>
    /\ UNCHANGED <<eligible, start, before>>

(* The loop ends without a candidate. *)
GiveUp ==
    /\ running /\ visits = VisitBound
    /\ running' = FALSE
    /\ UNCHANGED <<referenced, hand, eligible, visits, candidate, start, before>>

Next ==
    \/ \E f \in Frames : SetReferenced(f) \/ ClearReferenced(f)
    \/ \E e \in SUBSET Frames : FindCandidate(e)
    \/ Visit
    \/ GiveUp

Spec == Init /\ [][Next]_vars

-----------------------------------------------------------------------------
(* Properties of a call that has ended.                                    *)

(* How many frames the hand passes on its way from s to f. *)
Ahead(s, f) == IF f >= s THEN f - s ELSE f - s + N

(* The same, from where the last call began. *)
Distance(f) == Ahead(start, f)

(* "Returns nullopt when no eligible frame exists", and only then: two rotations reach     *)
(* every eligible frame again after its bit was cleared. AcquireFrame reports              *)
(* NO_REPLACEABLE_FRAME on nullopt, so a missed frame would be a spurious failure.         *)
FoundIffEligible ==
    ~running => /\ candidate = NoFrame <=> eligible = {}
                /\ candidate # NoFrame => candidate \in eligible

(* The frames a call should choose from: those without a second chance left, or all the    *)
(* eligible ones when every one of them has been referenced.                               *)
Preferred == IF eligible \ before # {} THEN eligible \ before ELSE eligible

(* Second chance: a call evicts the first preferred frame in clock order. A frame used     *)
(* since the hand last passed it is never evicted while an eligible one that was not is    *)
(* there, whatever lies between them.                                                      *)
SecondChance ==
    ~running /\ candidate # NoFrame =>
        /\ candidate \in Preferred
        /\ \A f \in Preferred : Distance(candidate) =< Distance(f)
=============================================================================
