------------------------------ MODULE HeapPage ------------------------------
(***************************************************************************)
(* One HEAP_DATA page (src/src/storage/heap/heap_page.cpp): a directory of  *)
(* slots that grows up from the header and tuple bytes that grow down from  *)
(* the page end. Every operation first validates the structure of the page  *)
(* and changes nothing when it fails.                                       *)
(*                                                                          *)
(* A byte of tuple t is the pair <<t, position>>: which tuple a byte belongs *)
(* to is what an overlapping move would destroy.                            *)
(***************************************************************************)
EXTENDS FsmCategory, Sequences, FiniteSets, SequencesExt

CONSTANTS
    Lengths,     \* lengths of the tuples handed to Insert
    Previous,    \* same-page slots a tuple may name as its previous version
    MaxSlots,    \* the number of slots a 16-bit slot count can describe
    NoSlot,      \* INVALID_SLOT_ID
    Images       \* page images that may be read from the file

(* A tuple: the slot it was stored in, its length, whether the codec accepts it, and the    *)
(* slot of its previous version on the same page (NoSlot: none, or on another page).        *)
Tuple == [by : 0..MaxSlots, length : Nat, accepted : BOOLEAN, prev : Nat \cup {NoSlot}]

Zero == << >>

HeapSlotState == {"UNUSED", "NORMAL", "DEAD", "REDIRECT_RESERVED", "INVALID"}

HeapSlotEntry ==
    [tuple_offset : Nat, tuple_length : Nat, state : HeapSlotState, aux : Nat \cup {NoSlot}]

SlotIds(pg) == 0..(pg.slot_count - 1)

(* What the decoders make of a page, whatever its bytes. *)
IsPage(pg) ==
    pg \in [common : BOOLEAN, slot_count : 0..MaxSlots, lower : Nat, upper : Nat,
           free_slot_head : Nat \cup {NoSlot}, slots : [SlotIds(pg) -> HeapSlotEntry],
           bytes : [0..(PageSize - 1) -> {Zero} \cup (Tuple \X (0..(PageSize - 1)))]]

ASSUME HeapAssumption ==
    /\ Lengths \subseteq Nat /\ Previous \subseteq Nat /\ MaxSlots \in Nat
    /\ HeaderSize > 0 /\ SlotSize > 0
    /\ NoSlot \notin Nat
    /\ \A image \in Images : IsPage(image)

VARIABLE
    page     \* the decoded headers and slots, and the bytes after the directory

TypeOK == IsPage(page)

(* The page after Initialize: HeapPageHeader's default values. *)
Empty ==
    [common |-> TRUE, slot_count |-> 0, lower |-> HeaderSize, upper |-> PageSize,
     free_slot_head |-> NoSlot, slots |-> [s \in {} |-> Zero],
     bytes |-> [k \in 0..(PageSize - 1) |-> Zero]]

(* A frame nobody initialised: its common header does not decode. *)
RawFrame == [Empty EXCEPT !.common = FALSE]

Init == page = RawFrame

-----------------------------------------------------------------------------
(* Owner validation. *)

End(slot) == slot.tuple_offset + slot.tuple_length

Retained(pg) ==
    {s \in SlotIds(pg) : pg.slots[s].state # "UNUSED" /\ pg.slots[s].tuple_length # 0}

Unused(pg) == {s \in SlotIds(pg) : pg.slots[s].state = "UNUSED"}

ValidateHeapHeaderGeometry(pg) ==
    /\ pg.lower >= HeaderSize
    /\ pg.upper =< PageSize
    /\ pg.lower =< pg.upper
    /\ pg.lower = HeaderSize + pg.slot_count * SlotSize

(* Pass 1, of one slot. *)
ValidateSlotDescriptor(slot, upper) ==
    \/ slot.state = "UNUSED" /\ slot.tuple_offset = 0 /\ slot.tuple_length = 0
    \/ /\ slot.state \in {"NORMAL", "DEAD"}
       /\ slot.aux = 0
       /\ \/ slot.state = "DEAD" /\ slot.tuple_offset = 0 /\ slot.tuple_length = 0
          \/ /\ slot.tuple_length # 0
             /\ slot.state = "DEAD" => slot.tuple_offset # 0
             /\ slot.tuple_offset >= upper
             /\ End(slot) =< PageSize

(* The elements of S in the order Before, a strict total order of S. *)
SortedBy(S, Before(_, _)) ==
    [i \in 1..Cardinality(S) |-> CHOOSE s \in S : Cardinality({r \in S : Before(r, s)}) = i - 1]

(* Mutation: the length decides the order of two ranges before their start does. *)
RetainedOrderByLength(pg) ==
    SortedBy(Retained(pg), LAMBDA a, b :
        LET l == pg.slots[a]  r == pg.slots[b] IN
        \/ l.tuple_length < r.tuple_length
        \/ l.tuple_length = r.tuple_length /\ l.tuple_offset < r.tuple_offset
        \/ l.tuple_length = r.tuple_length /\ l.tuple_offset = r.tuple_offset /\ a < b)

(* retained_order sorted by (offset, length, SlotId). *)
RetainedOrder(pg) ==
    SortedBy(Retained(pg), LAMBDA a, b :
        LET l == pg.slots[a]  r == pg.slots[b] IN
        \/ l.tuple_offset < r.tuple_offset
        \/ l.tuple_offset = r.tuple_offset /\ l.tuple_length < r.tuple_length
        \/ l.tuple_offset = r.tuple_offset /\ l.tuple_length = r.tuple_length /\ a < b)

(* Pass 2: only neighbours in that order are compared. *)
CheckRetainedRangesDisjoint(pg) ==
    LET order == RetainedOrder(pg) IN
    \A i \in 2..Cardinality(Retained(pg)) : pg.slots[order[i]].tuple_offset >= End(pg.slots[order[i - 1]])

(* The bytes of a slot's range. *)
Bytes(pg, s) ==
    [i \in 0..(pg.slots[s].tuple_length - 1) |-> pg.bytes[pg.slots[s].tuple_offset + i]]

(* The codec accepts the tuple, which has at least a header, and its previous version is     *)
(* another slot in range.                                                                   *)
ValidateTupleForSlot(t, s, count) ==
    /\ t.accepted /\ t.length # 0
    /\ t.prev # NoSlot => t.prev # s /\ t.prev < count

(* Pass 3: every retained range is one whole acceptable tuple. *)
ValidateRetainedTuples(pg) ==
    \A s \in Retained(pg) :
       LET b == Bytes(pg, s) IN
       /\ b[0] # Zero
       /\ LET t == b[0][1] IN
          /\ b = [i \in 0..(t.length - 1) |-> <<t, i>>]
          /\ ValidateTupleForSlot(t, s, pg.slot_count)

(* The free-slot chain as the walk of pass 4 meets it, one link after another. *)
Walk(pg) ==
    LET at[i \in 0..pg.slot_count] ==
           IF i = 0 THEN pg.free_slot_head
           ELSE IF at[i - 1] \in Unused(pg) THEN pg.slots[at[i - 1]].aux ELSE NoSlot
    IN at

(* Mutation: the walk is not compared with the set of UNUSED slots. *)
ValidateFreeSlotWalk(pg) ==
    /\ \A s \in Unused(pg) : pg.slots[s].aux \in Unused(pg) \cup {NoSlot}
    /\ pg.free_slot_head \in Unused(pg) \cup {NoSlot}
    /\ LET at == Walk(pg) IN
       \A i, j \in DOMAIN at : i < j /\ at[i] = at[j] => at[i] = NoSlot

(* Pass 4: links and head name UNUSED slots, no slot is visited twice, all are visited. *)
ValidateFreeSlotChain(pg) ==
    /\ \A s \in Unused(pg) : pg.slots[s].aux \in Unused(pg) \cup {NoSlot}
    /\ pg.free_slot_head \in Unused(pg) \cup {NoSlot}
    /\ LET at == Walk(pg) IN
       /\ \A i, j \in DOMAIN at : i < j /\ at[i] = at[j] => at[i] = NoSlot
       /\ {at[i] : i \in DOMAIN at} \ {NoSlot} = Unused(pg)

ValidateStructure(pg) ==
    /\ pg.common
    /\ ValidateHeapHeaderGeometry(pg)
    /\ \A s \in SlotIds(pg) : ValidateSlotDescriptor(pg.slots[s], pg.upper)
    /\ CheckRetainedRangesDisjoint(pg)
    /\ ValidateFreeSlotChain(pg)

Validate(pg) == ValidateStructure(pg) /\ ValidateRetainedTuples(pg)

-----------------------------------------------------------------------------
(* Initialize: whatever the frame held before, the page is empty. *)
Initialize == page' = Empty

(* The buffer pool reads an image into a frame; the operations meet whatever it holds. *)
Load ==
    /\ page = RawFrame
    /\ \E image \in Images : page' = image

(* Mutation: the slot the insertion appends is not accounted for. *)
InsertErrorWithoutSlot(t) ==
    IF ~ValidateStructure(page) THEN "PAGE_INVALID"
    ELSE IF t.length > MaxTuple THEN "TUPLE_TOO_LARGE"
    ELSE IF page.slot_count = MaxSlots THEN "SLOT_ID_EXHAUSTED"
    ELSE IF ~ValidateTupleForSlot(t, page.slot_count, page.slot_count + 1) THEN "INVALID_TUPLE"
    ELSE IF t.length > page.upper - page.lower THEN "INSUFFICIENT_SPACE"
    ELSE "OK"

(* The early returns of Insert, in their order. *)
InsertError(t) ==
    IF ~ValidateStructure(page) THEN "PAGE_INVALID"
    ELSE IF t.length > MaxTuple THEN "TUPLE_TOO_LARGE"
    ELSE IF page.slot_count = MaxSlots THEN "SLOT_ID_EXHAUSTED"
    ELSE IF ~ValidateTupleForSlot(t, page.slot_count, page.slot_count + 1) THEN "INVALID_TUPLE"
    ELSE IF t.length + SlotSize > page.upper - page.lower THEN "INSUFFICIENT_SPACE"
    ELSE "OK"

(* The page with tuple t in a slot of its own. *)
Inserted(t) ==
    LET s == page.slot_count
        offset == page.upper - t.length
    IN [page EXCEPT
          !.slot_count = s + 1,
          !.lower = page.lower + SlotSize,
          !.upper = offset,
          !.slots = [i \in 0..s |-> IF i = s
                       THEN [tuple_offset |-> offset, tuple_length |-> t.length,
                             state |-> "NORMAL", aux |-> 0]
                       ELSE page.slots[i]],
          !.bytes = [k \in DOMAIN page.bytes |-> IF k \in offset..(page.upper - 1)
                       THEN <<t, k - offset>> ELSE page.bytes[k]]]

(* Insert always appends a slot: it reuses neither DEAD nor UNUSED ones. *)
Insert(t) ==
    /\ t.by = page.slot_count
    /\ page' = IF InsertError(t) = "OK" THEN Inserted(t) ELSE page

MarkDeadError(s) ==
    IF ~ValidateStructure(page) THEN "PAGE_INVALID"
    ELSE IF s >= page.slot_count THEN "SLOT_OUT_OF_RANGE"
    ELSE IF page.slots[s].state = "DEAD" THEN "ALREADY_DEAD"
    ELSE IF page.slots[s].state # "NORMAL" THEN "INVALID_SLOT_STATE"
    ELSE "OK"

(* A deleted tuple keeps its range until compaction. *)
DeadSlot(slot) == [slot EXCEPT !.state = "DEAD"]

MarkDead(s) ==
    page' = IF MarkDeadError(s) = "OK" THEN [page EXCEPT !.slots[s] = DeadSlot(@)] ELSE page

-----------------------------------------------------------------------------
(* Compaction. *)

Live(pg) == {s \in SlotIds(pg) : pg.slots[s].state = "NORMAL"}

(* Mutation: in ascending order the first moves overwrite tuples that have yet to move. *)
LiveOrderAscending(pg) ==
    SortedBy(Live(pg), LAMBDA a, b : pg.slots[a].tuple_offset < pg.slots[b].tuple_offset)

(* live_order: descending source offset. *)
LiveOrder(pg) ==
    SortedBy(Live(pg), LAMBDA a, b :
        \/ pg.slots[a].tuple_offset > pg.slots[b].tuple_offset
        \/ pg.slots[a].tuple_offset = pg.slots[b].tuple_offset /\ a < b)

LiveCount(pg) == Cardinality(Live(pg))

(* new_upper after each step of the plan, which lays the live tuples against the page end,   *)
(* one below the other.                                                                      *)
PlannedUpper(pg) ==
    LET upper[i \in 0..LiveCount(pg)] ==
           IF i = 0 THEN PageSize ELSE upper[i - 1] - pg.slots[LiveOrder(pg)[i]].tuple_length
    IN upper

NewUpper(pg) == PlannedUpper(pg)[LiveCount(pg)]

PlannedSlot(pg, s) ==
    IF s \in Live(pg)
    THEN [pg.slots[s] EXCEPT !.tuple_offset =
            PlannedUpper(pg)[CHOOSE i \in 1..LiveCount(pg) : LiveOrder(pg)[i] = s]]
    ELSE [pg.slots[s] EXCEPT !.tuple_offset = 0, !.tuple_length = 0]

Memmove(bytes, destination, source, length) ==
    [k \in DOMAIN bytes |-> IF k \in destination..(destination + length - 1)
                            THEN bytes[source + k - destination] ELSE bytes[k]]

(* The bytes of the page after each memmove. *)
MovedBytes(pg) ==
    LET moved[i \in 0..LiveCount(pg)] ==
           IF i = 0 THEN pg.bytes
           ELSE LET slot == pg.slots[LiveOrder(pg)[i]] IN
                Memmove(moved[i - 1], PlannedUpper(pg)[i], slot.tuple_offset, slot.tuple_length)
    IN moved

CompactError ==
    IF ~ValidateStructure(page) THEN "PAGE_INVALID"
    ELSE IF \E s \in SlotIds(page) : page.slots[s].state \notin {"NORMAL", "DEAD"}
         THEN "UNSUPPORTED_SLOT_STATE"
    ELSE IF NewUpper(page) < page.lower THEN "PAGE_INVALID"
    ELSE "OK"

(* Mutation: the header written back still has the old upper. *)
CompactedOldUpper(pg) ==
    [pg EXCEPT !.slots = [s \in SlotIds(pg) |-> PlannedSlot(pg, s)],
               !.bytes = MovedBytes(pg)[LiveCount(pg)]]

(* ApplyCompaction: one memmove per live tuple, then the directory and the header. *)
Compacted(pg) ==
    [pg EXCEPT !.upper = NewUpper(pg),
               !.slots = [s \in SlotIds(pg) |-> PlannedSlot(pg, s)],
               !.bytes = MovedBytes(pg)[LiveCount(pg)]]

Compact ==
    page' = IF CompactError = "OK" THEN Compacted(page) ELSE page

Tuples ==
    [by : {page.slot_count}, length : Lengths, accepted : BOOLEAN,
     prev : Previous \cup {NoSlot}]

Next ==
    \/ Initialize
    \/ Load
    \/ \E t \in Tuples : Insert(t)
    \/ \E s \in 0..page.slot_count : MarkDead(s)
    \/ Compact

Spec == Init /\ [][Next]_page

-----------------------------------------------------------------------------
(* TupleBytes: what a reader of slot s sees. *)
TupleBytes(pg, s) ==
    IF ValidateStructure(pg) /\ s \in Live(pg) THEN Bytes(pg, s) ELSE Zero

(* heap_page.h: "Each mutation keeps the page L1-valid" - a page that passed the full       *)
(* validation the buffer pool applies still passes it after Insert, MarkDead or Compact,    *)
(* and so does a freshly initialised one.                                                   *)
L1Kept ==
    [][Validate(page) \/ Initialize => Validate(page')]_page

(* A tuple is read back byte for byte under the same SlotId until MarkDead removes it, no   *)
(* matter how often the page is compacted around it, and a slot without one never gains one. *)
TuplesStable ==
    [][Initialize \/ page = RawFrame \/
       \A s \in SlotIds(page) :
          \/ TupleBytes(page', s) = TupleBytes(page, s)
          \/ MarkDead(s) /\ TupleBytes(page', s) = Zero]_page

(* Compaction leaves no hole: every byte above upper belongs to a live tuple.               *)
CompactLeavesNoHole ==
    [][Compact /\ CompactError = "OK" =>
         \A k \in page'.upper..(PageSize - 1) : \E s \in Live(page') :
            k >= page'.slots[s].tuple_offset /\ k < End(page'.slots[s])]_page

(* Comparing neighbours in sorted order finds every overlap: pass 2 agrees with pairwise    *)
(* disjointness on every image whose descriptors passed pass 1.                             *)
OverlapCheckExact ==
    (\A s \in SlotIds(page) : ValidateSlotDescriptor(page.slots[s], page.upper)) =>
       (CheckRetainedRangesDisjoint(page) <=>
          \A a, b \in Retained(page) : a # b =>
             End(page.slots[a]) =< page.slots[b].tuple_offset
             \/ End(page.slots[b]) =< page.slots[a].tuple_offset)

(* Pass 4 accepts exactly the chains that list every UNUSED slot once.                      *)
ChainCheckExact ==
    ValidateFreeSlotChain(page) <=>
       \E chain \in SetToSeqs(Unused(page)) :
          /\ page.free_slot_head = IF chain = <<>> THEN NoSlot ELSE chain[1]
          /\ \A i \in DOMAIN chain :
                page.slots[chain[i]].aux = IF i = Len(chain) THEN NoSlot ELSE chain[i + 1]

(* The free-space map never sends an insertion to a page that refuses it for space: if the  *)
(* category of the page's gap covers the tuple, Insert does not return INSUFFICIENT_SPACE.  *)
CategoryPromisesSpace ==
    \A t \in Tuples :
       (t.length \in 1..MaxTuple /\ page.lower =< page.upper
        /\ FsmCategoryForFreeBytes(page.upper - page.lower)
             >= MinimumFsmCategoryForTupleBytes(t.length))
       => InsertError(t) # "INSUFFICIENT_SPACE"
=============================================================================
