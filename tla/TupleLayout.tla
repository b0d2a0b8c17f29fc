----------------------------- MODULE TupleLayout -----------------------------
(***************************************************************************)
(* The tuple header, the null bitmap and the physical layout of a schema    *)
(* version (src/src/storage/tuple/tuple_header.cpp and tuple_layout.cpp):   *)
(* which bytes of a tuple belong to what. Columns count from one.           *)
(***************************************************************************)
EXTENDS Encoding

CONSTANT MaxTuple    \* HEAP_PAGE_MAX_RAW_TUPLE_SIZE

(* A tuple's size fits a descriptor field. *)
ASSUME SizeAssumption == MaxTuple \in 0..MaxOf(WordSize)

-----------------------------------------------------------------------------
(* The header. *)

INVALID_TXN_ID == 0
FROZEN_TXN_ID == 1

TUPLE_FLAG_HAS_NULLS == 1
TUPLE_FLAG_HAS_VARLEN == 2

HeaderFields ==
    [xmin |-> <<0, 2 * WordSize>>, xmax |-> <<2 * WordSize, 2 * WordSize>>,
     cmin |-> <<4 * WordSize, WordSize>>, cmax |-> <<5 * WordSize, WordSize>>,
     prev_page_no |-> <<6 * WordSize, 2 * WordSize>>, prev_slot |-> <<8 * WordSize, HalfSize>>,
     tuple_flags |-> <<8 * WordSize + HalfSize, HalfSize>>,
     header_bytes |-> <<8 * WordSize + 2 * HalfSize, HalfSize>>,
     null_bitmap_bytes |-> <<8 * WordSize + 3 * HalfSize, HalfSize>>,
     schema_version |-> <<8 * WordSize + 4 * HalfSize, WordSize>>,
     reserved |-> <<9 * WordSize + 4 * HalfSize, WordSize>>]

(* TUPLE_HEADER_ENCODED_SIZE *)
HeaderSize == 10 * WordSize + 4 * HalfSize

(* header_bytes holds it. *)
ASSUME HeaderAssumption == HeaderSize =< MaxOf(HalfSize)

HasFlag(header, flag) == (header.tuple_flags \div flag) % 2 = 1

ValidateTupleHeader(header) ==
    /\ header.prev_page_no = INVALID_PAGE_NO <=> header.prev_slot = INVALID_SLOT_ID
    /\ header.tuple_flags =< TUPLE_FLAG_HAS_NULLS + TUPLE_FLAG_HAS_VARLEN
    /\ header.header_bytes = HeaderSize
    /\ header.reserved = 0

(* The bytes of a header that ValidateTupleHeader accepts. *)
EncodeTupleHeader(header) == EncodeFields(HeaderFields, header, Zeroes(HeaderSize))

(* The fields as they are; DecodeTupleHeader then returns them if they are valid. *)
DecodeTupleHeader(bytes) == DecodeFields(HeaderFields, bytes)

-----------------------------------------------------------------------------
(* The null bitmap: one bit for every column, the first in the lowest bit. *)

NullBitmapBytes(count) == (count \div ByteBits) + (IF count % ByteBits # 0 THEN 1 ELSE 0)

Bits(byte) == Digits(byte, 2, ByteBits)

BitmapByte(i) == ((i - 1) \div ByteBits) + 1

NullBit(i) == ((i - 1) % ByteBits) + 1

IsNull(bitmap, i) == Bits(bitmap[BitmapByte(i)])[NullBit(i)] = 1

SetNull(bitmap, i) ==
    [bitmap EXCEPT ![BitmapByte(i)] = Number([Bits(@) EXCEPT ![NullBit(i)] = 1], 2)]

(* Some bit of the last byte that stands for no column is set. *)
UnusedBitSet(bitmap, count) ==
    count % ByteBits # 0
    /\ \E bit \in ((count % ByteBits) + 1)..ByteBits : Bits(Last(bitmap))[bit] = 1

-----------------------------------------------------------------------------
(* The layout. *)

PhysicalType == {"BOOLEAN", "INT32", "INT64", "FLOAT64", "DATE", "TIMESTAMP", "VARCHAR"}

(* A VARCHAR column holds a descriptor: the offset and the length of its payload. *)
PhysicalTypeWidth(type) ==
    CASE type = "BOOLEAN" -> 1
      [] type \in {"INT32", "DATE"} -> WordSize
      [] type \in {"INT64", "FLOAT64", "TIMESTAMP", "VARCHAR"} -> 2 * WordSize

(* fixed_area_offset_ + fixed_area_size_ after 0 to Len(columns) columns *)
NextOffsets(columns) ==
    LET offset[i \in 0..Len(columns)] ==
            IF i = 0 THEN HeaderSize + NullBitmapBytes(Len(columns))
            ELSE offset[i - 1] + PhysicalTypeWidth(columns[i].type)
    IN offset

(* BuildTuplePhysicalLayout of a sequence of [type, nullable]. *)
BuildTuplePhysicalLayout(columns, version) ==
    LET count == Len(columns)
        offset == NextOffsets(columns)
    IN [schema_version |-> version,
        null_bitmap_bytes |-> NullBitmapBytes(count),
        varlen_payload_offset |-> offset[count],
        columns |-> [i \in 1..count |->
                       [type |-> columns[i].type, nullable |-> columns[i].nullable,
                        fixed_offset |-> offset[i - 1],
                        fixed_width |-> PhysicalTypeWidth(columns[i].type)]]]

(* The conditions under which it succeeds. *)
LayoutFits(columns) ==
    /\ NullBitmapBytes(Len(columns)) =< MaxOf(HalfSize)
    /\ BuildTuplePhysicalLayout(columns, 0).varlen_payload_offset =< MaxTuple

Columns(layout) == DOMAIN layout.columns

IsVarlen(layout, i) == layout.columns[i].type = "VARCHAR"

HasVarlenColumns(layout) == \E i \in Columns(layout) : IsVarlen(layout, i)

(* Mutation: the size so far is overwritten instead of added to. *)
PlanLastPayload(layout, lengths) ==
    LET total == layout.varlen_payload_offset + (IF lengths = << >> THEN 0 ELSE Last(lengths)) IN
    [code |-> IF total > MaxTuple THEN "TUPLE_TOO_LARGE" ELSE "OK", total_size |-> total]

(* The size of the tuple with the payloads of 0 to Len(lengths) columns. *)
PlannedSizes(layout, lengths) ==
    LET size[i \in 0..Len(lengths)] ==
            IF i = 0 THEN layout.varlen_payload_offset ELSE size[i - 1] + lengths[i]
    IN size

(* PlanTupleSize of the lengths of the columns' payloads: that of a VARCHAR value, and 0 for  *)
(* NULL and for columns of fixed width. Sums of 32-bit lengths of values that exist in memory *)
(* cannot exceed size_t.                                                                    *)
PlanTupleSize(layout, lengths) ==
    LET total == PlannedSizes(layout, lengths)[Len(lengths)] IN
       [code |-> IF \E k \in DOMAIN lengths : lengths[k] > MaxOf(WordSize)
                 THEN "VARCHAR_LENGTH_TOO_LARGE"
                 ELSE IF total > MaxTuple THEN "TUPLE_TOO_LARGE" ELSE "OK",
        total_size |-> total]
=============================================================================
