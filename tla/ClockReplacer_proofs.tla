------------------------- MODULE ClockReplacer_proofs -------------------------
(***************************************************************************)
(* CLOCK finds a frame if and only if one is eligible, and gives a second   *)
(* chance, for every number of frames. The invariant says what the loop     *)
(* knows after each visit of a call that is running.                        *)
(***************************************************************************)
EXTENDS ClockReplacer, TLAPS

(* Where the hand is after so many visits, as a distance from the start. *)
Turn(v) == IF v < N THEN v ELSE IF v < 2 * N THEN v - N ELSE 0

(* What v visits from s tell of the eligible frames e, b being the bits that were set when *)
(* the call began and r those that are set now: a frame the hand has passed had its bit    *)
(* set and has it no more; a frame it has not passed still has the bit it had; and it has  *)
(* passed no frame twice.                                                                  *)
Passed(s, e, r, b, v) ==
    \A f \in e :
        /\ Ahead(s, f) < v => f \notin r /\ f \in b
        /\ Ahead(s, f) >= v => (f \in r <=> f \in b)
        /\ Ahead(s, f) >= v - N

Scanned ==
    running =>
        /\ candidate = NoFrame
        /\ Ahead(start, hand) = Turn(visits)
        /\ Passed(start, eligible, referenced, before, visits)

ClockInv == TypeOK /\ Scanned /\ FoundIffEligible /\ SecondChance

(* The hand moves to the next frame and wraps at the last one. *)
LEMMA NextHand ==
    ASSUME NEW h \in Frames
    PROVE  (h + 1) % N = IF h + 1 = N THEN 0 ELSE h + 1
BY FrameCountAssumption DEF Frames

(* A distance is less than N, and different frames are at different distances. *)
LEMMA AheadFacts ==
    ASSUME NEW s \in Frames
    PROVE  /\ \A f \in Frames : Ahead(s, f) \in 0..(N - 1)
           /\ \A f, g \in Frames : Ahead(s, f) = Ahead(s, g) => f = g
           /\ Ahead(s, s) = 0
BY FrameCountAssumption DEF Frames, Ahead

(* The invariant holds initially. *)
LEMMA InitClockInv == Init => ClockInv
<1> SUFFICES ASSUME Init PROVE ClockInv
  OBVIOUS
<1>1. 0 \in 0..(N - 1) /\ 0 \in 0..(2 * N)
  BY FrameCountAssumption
<1>2. TypeOK
  BY <1>1 DEF Init, TypeOK, Frames
<1>3. Scanned /\ FoundIffEligible /\ SecondChance
  BY DEF Init, Scanned, FoundIffEligible, SecondChance
<1> QED
  BY <1>2, <1>3 DEF ClockInv

(* One visit keeps the loop's part of the invariant and, when it returns, gives the rest. *)
LEMMA VisitClockInv ==
    ASSUME ClockInv, Visit
    PROVE  ClockInv'
<1> USE FrameCountAssumption DEF ClockInv
<1>1. /\ hand \in Frames /\ start \in Frames /\ visits \in 0..(2 * N - 1) /\ running
      /\ eligible \in SUBSET Frames /\ referenced \in SUBSET Frames
      /\ before \in SUBSET Frames
  BY DEF TypeOK, Visit, VisitBound
<1>2. hand' = IF hand + 1 = N THEN 0 ELSE hand + 1
  BY <1>1, NextHand DEF Visit
<1>3. /\ \A f \in Frames : Ahead(start, f) \in 0..(N - 1)
      /\ \A f, g \in Frames : Ahead(start, f) = Ahead(start, g) => f = g
  BY <1>1, AheadFacts
<1>4. TypeOK'
  <2>1. hand' \in Frames /\ visits' \in 0..(2 * N)
    BY <1>1, <1>2 DEF Visit, Frames
  <2>2. candidate' \in Frames \cup {NoFrame} /\ running' \in BOOLEAN
    BY <1>1 DEF TypeOK, Visit
  <2>3. /\ referenced' \in SUBSET Frames
        /\ UNCHANGED <<eligible, start, before>>
    BY <1>1 DEF Visit
  <2> QED
    BY <1>1, <2>1, <2>2, <2>3 DEF TypeOK
<1>5. /\ Ahead(start, hand) = Turn(visits)
      /\ candidate = NoFrame
      /\ \A f \in eligible :
            /\ Ahead(start, f) < visits => f \notin referenced /\ f \in before
            /\ Ahead(start, f) >= visits => (f \in referenced <=> f \in before)
            /\ Ahead(start, f) >= visits - N
  BY <1>1 DEF Scanned, Passed
<1>6. Ahead(start', hand') = Turn(visits')
  BY <1>1, <1>2, <1>5 DEF Visit, Frames, Ahead, Turn
<1>7. start' = start
  BY DEF Visit
<1>8. CASE Taken(hand)
  <2>1. /\ hand \in eligible /\ hand \notin referenced
        /\ candidate' = hand /\ running' = FALSE
        /\ eligible' = eligible /\ before' = before
    BY <1>8 DEF Taken, Visit
  <2>2. Scanned' /\ FoundIffEligible'
    BY <2>1, <1>1 DEF Scanned, FoundIffEligible, Frames
  <2>3. hand \in Preferred /\ \A f \in Preferred : Ahead(start, hand) =< Ahead(start, f)
    <3>1. CASE visits < N
      <4>1. Ahead(start, hand) = visits /\ hand \notin before
        BY <3>1, <1>1, <1>5, <2>1 DEF Turn
      <4>2. Preferred = eligible \ before
        BY <4>1, <2>1 DEF Preferred
      <4>3. \A f \in eligible \ before : Ahead(start, f) \in Int /\ ~(Ahead(start, f) < visits)
        BY <1>5, <1>3, <1>1
      <4> QED
        BY <4>1, <4>2, <4>3, <2>1, <1>1
    <3>2. CASE visits >= N
      <4>1. Ahead(start, hand) = visits - N
        BY <3>2, <1>1, <1>5 DEF Turn
      <4>2. \A f \in eligible : f \in before
        BY <3>2, <1>1, <1>3, <1>5
      <4>3. Preferred = eligible
        BY <4>2 DEF Preferred
      <4> QED
        BY <4>1, <4>3, <2>1, <1>5
    <3> QED
      BY <3>1, <3>2, <1>1
  <2>4. Preferred' = Preferred
    BY <2>1 DEF Preferred
  <2>5. SecondChance'
    BY <2>1, <2>3, <2>4, <1>7 DEF SecondChance, Distance
  <2> QED
    BY <1>4, <2>2, <2>5
<1>9. CASE ~Taken(hand)
  <2>1. /\ referenced' = referenced \ ({hand} \cap eligible)
        /\ candidate' = candidate /\ running' = TRUE
        /\ eligible' = eligible /\ before' = before /\ visits' = visits + 1
    BY <1>9, <1>1 DEF Visit, TypeOK
  <2>2. hand \in eligible => hand \in referenced
    BY <1>9 DEF Taken
  <2>3. Passed(start, eligible, referenced', before, visits + 1)
    <3> SUFFICES ASSUME NEW f \in eligible
                 PROVE  /\ Ahead(start, f) < visits + 1 => f \notin referenced' /\ f \in before
                        /\ Ahead(start, f) >= visits + 1 => (f \in referenced' <=> f \in before)
                        /\ Ahead(start, f) >= (visits + 1) - N
      BY Zenon DEF Passed
    <3>1. CASE f = hand
      <4>1. f \in referenced /\ f \notin referenced'
        BY <3>1, <2>1, <2>2
      <4>2. visits < N /\ Ahead(start, f) = visits
        BY <4>1, <3>1, <1>1, <1>3, <1>5 DEF Turn
      <4> QED
        BY <4>1, <4>2, <1>1, <1>5
    <3>2. CASE f # hand
      <4>1. f \in Frames /\ Ahead(start, f) # Ahead(start, hand) /\ Ahead(start, f) \in 0..(N - 1)
        BY <3>2, <1>1, <1>3
      <4>2. f \in referenced' <=> f \in referenced
        BY <3>2, <2>1
      <4>3. Ahead(start, f) # visits /\ Ahead(start, f) # visits - N
        BY <4>1, <1>1, <1>5 DEF Turn
      <4> QED
        BY <4>1, <4>2, <4>3, <1>1, <1>5
    <3> QED
      BY <3>1, <3>2
  <2>4. Scanned'
    BY <2>1, <2>3, <1>5, <1>6 DEF Scanned, Visit
  <2> QED
    <3>1. FoundIffEligible' /\ SecondChance'
      BY <2>1 DEF FoundIffEligible, SecondChance
    <3> QED
      BY <1>4, <2>4, <3>1
<1> QED
  BY <1>8, <1>9

(* When the loop runs out, the hand has passed every eligible frame twice: there is none. *)
LEMMA GiveUpClockInv ==
    ASSUME ClockInv, GiveUp
    PROVE  ClockInv'
<1> USE FrameCountAssumption DEF ClockInv
<1>1. \A f \in eligible : Ahead(start, f) \in 0..(N - 1) /\ Ahead(start, f) >= 2 * N - N
  BY AheadFacts DEF TypeOK, Scanned, Passed, GiveUp, VisitBound
<1>2. eligible = {}
  BY <1>1
<1>3. candidate = NoFrame
  BY DEF Scanned, GiveUp
<1> QED
  BY <1>2, <1>3 DEF GiveUp, TypeOK, Scanned, FoundIffEligible, SecondChance

(* Every step keeps the invariant. *)
LEMMA NextClockInv == ClockInv /\ [Next]_vars => ClockInv'
<1> SUFFICES ASSUME ClockInv, [Next]_vars PROVE ClockInv'
  OBVIOUS
<1> USE FrameCountAssumption
<1>1. ASSUME NEW f \in Frames, SetReferenced(f) \/ ClearReferenced(f)
      PROVE  ClockInv'
  <2>1. /\ referenced' \in SUBSET Frames
        /\ ~running /\ ~running'
        /\ UNCHANGED <<hand, eligible, visits, running, candidate, start, before>>
    BY <1>1 DEF ClockInv, TypeOK, SetReferenced, ClearReferenced
  <2>2. Preferred' = Preferred
    BY <2>1 DEF Preferred
  <2> QED
    BY <2>1, <2>2 DEF ClockInv, TypeOK, Scanned, FoundIffEligible, SecondChance, Distance
<1>2. ASSUME NEW e \in SUBSET Frames, FindCandidate(e)
      PROVE  ClockInv'
  <2>1. TypeOK'
    <3>1. 0 \in 0..(2 * N)
      OBVIOUS
    <3> QED
      BY <1>2, <3>1, Zenon DEF ClockInv, TypeOK, FindCandidate
  <2>2. \A f \in Frames : Ahead(start', f) \in 0..(N - 1)
    <3>1. start' \in Frames
      BY <2>1 DEF TypeOK
    <3> QED
      BY <3>1, AheadFacts
  <2>3. Ahead(start', hand') = 0 /\ Turn(0) = 0
    BY <1>2, AheadFacts DEF ClockInv, TypeOK, FindCandidate, Turn
  <2>4. Scanned'
    BY <1>2, <2>2, <2>3 DEF Scanned, Passed, FindCandidate, ClockInv, TypeOK
  <2>5. FoundIffEligible' /\ SecondChance'
    BY <1>2 DEF FindCandidate, FoundIffEligible, SecondChance
  <2> QED
    BY <2>1, <2>4, <2>5 DEF ClockInv
<1>3. CASE Visit
  BY <1>3, VisitClockInv
<1>4. CASE GiveUp
  BY <1>4, GiveUpClockInv
<1>5. CASE UNCHANGED vars
  BY <1>5 DEF vars, ClockInv, TypeOK, Scanned, FoundIffEligible, SecondChance, Preferred,
              Distance
<1> QED
  BY <1>1, <1>2, <1>3, <1>4, <1>5 DEF Next

LEMMA ClockInvHolds == Spec => []ClockInv
BY InitClockInv, NextClockInv, PTL DEF Spec

(* FindCandidate returns a frame if and only if the predicate accepts one, for every pool  *)
(* size: the bound of two rotations is always enough.                                      *)
THEOREM FindsEveryVictim == Spec => []FoundIffEligible
<1>1. ClockInv => FoundIffEligible
  BY DEF ClockInv
<1> QED
  BY <1>1, ClockInvHolds, PTL

(* FindCandidate gives every referenced frame its second chance, for every pool size. *)
THEOREM GivesSecondChance == Spec => []SecondChance
<1>1. ClockInv => SecondChance
  BY DEF ClockInv
<1> QED
  BY <1>1, ClockInvHolds, PTL
=============================================================================
