------------------------------ MODULE MCCodec -------------------------------
(***************************************************************************)
(* Tuples and page images. They share no state: each machine runs while the *)
(* other one is where it starts, so that TLC need not explore the product.  *)
(***************************************************************************)
(* Three-bit bytes: 28 bytes of header, three columns to a byte of the bitmap, descriptor     *)
(* fields up to 63, tuples of at most 46 bytes.                                               *)
EXTENDS TupleCodec, PageImage

Col(t, n) == [type |-> t, nullable |-> n]

(* Two payloads around a Boolean and no unused bit; a bitmap of two bytes, the second with    *)
(* unused bits; the wider numbers; no column at all; a layout that is too large.              *)
SmallSchemas ==
    {<<Col("VARCHAR", TRUE), Col("BOOLEAN", TRUE), Col("VARCHAR", FALSE)>>,
     <<Col("BOOLEAN", TRUE), Col("INT32", FALSE), Col("DATE", FALSE), Col("VARCHAR", TRUE)>>,
     <<Col("INT64", TRUE), Col("FLOAT64", FALSE), Col("TIMESTAMP", TRUE)>>,
     << >>,
     [i \in 1..5 |-> Col("VARCHAR", TRUE)]}

SmallMetadata ==
    LET plain == [xmin |-> 2, xmax |-> 0, cmin |-> 3, cmax |-> 0,
                  prev_page_no |-> INVALID_PAGE_NO, prev_slot |-> INVALID_SLOT_ID]
    IN {plain,
        [plain EXCEPT !.xmax = 9, !.cmax = 1, !.prev_page_no = 5, !.prev_slot = 0],
        [plain EXCEPT !.prev_slot = 1]}

(* A DATE is offered to an INT32 column as well; a VARCHAR may be too long for the tuple, or   *)
(* for its descriptor.                                                                        *)
SmallValues ==
    [type \in PhysicalType |->
     CASE type = "BOOLEAN" -> {NULL, <<"BOOLEAN", TRUE>>, <<"BOOLEAN", FALSE>>}
      [] type = "INT32" -> {<<"INT32", -5>>, <<"DATE", 1>>}
      [] type = "DATE" -> {NULL, <<"DATE", 31>>}
      [] type = "INT64" -> {NULL, <<"INT64", -1000>>}
      [] type = "TIMESTAMP" -> {NULL, <<"TIMESTAMP", 100>>}
      [] type = "FLOAT64" -> {NULL, <<"FLOAT64", 4000>>}
      [] type = "VARCHAR" -> {NULL, <<"VARCHAR", << >>>>, <<"VARCHAR", <<7>>>>, <<"VARCHAR", <<1, 2>>>>,
                              <<"VARCHAR", [k \in 1..9 |-> 3]>>,
                              <<"VARCHAR", [k \in 1..64 |-> 0]>>}]

HomeRid == [page_no |-> 5, slot |-> 0]

(* Pages of 44 bytes. A superblock takes 42 of them; a heap page has a header of 32 bytes and  *)
(* room for one slot and four bytes; an FSM page has a header of 30 bytes and 14 entries. Page  *)
(* numbers end at 4094, so that the last FSM page is page 293 and not all its entries fit.     *)
(* x^6 + x^5 + 1, reflected: with a constant term, like the polynomial of CRC-32C.             *)
SmallPolynomial == 48

SmallMagic == <<4, 2, 7, 1>>

SmallContents ==
    LET file(kind, lsn) == [owner |-> "FILE", page_lsn |-> lsn, file_kind |-> kind, file_id |-> 7,
                            object_id |-> 100, creation_epoch |-> 1]
        header(count, head, upper) ==
            [slot_count |-> count, free_slot_head |-> head, lower |-> HeapHeaderSize + count * SlotSize,
             upper |-> upper, prune_hint |-> 0, reserved |-> 0]
    IN {file(1, 0), file(2, 0), file(4, 1000),
        [owner |-> "HEAP", page_lsn |-> 0, header |-> header(0, INVALID_SLOT_ID, PageSize),
         slots |-> [s \in {} |-> << >>]],
        [owner |-> "HEAP", page_lsn |-> 77, header |-> header(1, INVALID_SLOT_ID, PageSize - 3),
         slots |-> [s \in {0} |-> [tuple_offset |-> PageSize - 3, tuple_length |-> 3, state |-> 1,
                                   aux |-> 0]]],
        [owner |-> "FSM", page_lsn |-> 0, entries |-> << >>],
        [owner |-> "FSM", page_lsn |-> 9, entries |-> <<0, 7, 3>>],
        [owner |-> "FSM", page_lsn |-> 0, entries |-> [i \in 1..Capacity |-> 5]]}

CodecInit == Init /\ ImageInit

CodecNext ==
    \/ /\ history = << >>
       /\ ImageNext /\ UNCHANGED codecVars
    \/ /\ image = << >>
       /\ Next /\ UNCHANGED imageVars

CodecSpec == CodecInit /\ [][CodecNext]_<<codecVars, imageVars>>
=============================================================================
