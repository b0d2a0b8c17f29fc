----------------------------- MODULE TupleCodec -----------------------------
(***************************************************************************)
(* Encoding, validation and decoding of tuples                              *)
(* (src/src/storage/tuple/tuple_codec.cpp), on bytes, and the check a heap   *)
(* page makes of a tuple it stores, which resolves the schema version the   *)
(* tuple was written under. A relation gets new schema versions, a tuple is *)
(* encoded under one of them, and its bytes may be altered before they are   *)
(* read back. Failures are told apart only where a property needs it.       *)
(***************************************************************************)
EXTENDS TupleLayout, FiniteSets

CONSTANTS
    Schemas,       \* the column lists a schema version may have
    Metadata,      \* the TupleVersionMetadata handed to EncodeTuple
    Values,        \* the values handed to EncodeTuple for a column of a type
    Rid,           \* [page_no, slot]: where the tuple is stored
    SlotCount,     \* slot_count of that page
    Stray,         \* the bytes that may replace a byte of the tuple
    MaxVersions,   \* bound on the schema versions
    MaxDamage      \* bound on the alterations of one tuple

VARIABLES
    history,    \* HeapTupleSchemaHistory::layouts_
    tuple,      \* the bytes of the tuple, << >> before one is encoded
    source,     \* what was encoded: version, metadata, values
    damage      \* how often the bytes have been altered since

codecVars == <<history, tuple, source, damage>>

(* A TupleValue is its type and its contents; monostate stands for NULL. *)
NULL == <<"NULL">>

(* What the alternative of a type holds. *)
ValueDomain(type) ==
    LET half == Power(Base, PhysicalTypeWidth(type)) \div 2 IN
    CASE type = "BOOLEAN" -> BOOLEAN
      [] type = "FLOAT64" -> 0..MaxOf(PhysicalTypeWidth(type))
      [] type = "VARCHAR" -> Seq(Byte)
      [] type \in {"INT32", "INT64", "DATE", "TIMESTAMP"} -> (-half)..(half - 1)

(* Schema versions, metadata and values have the widths of their types; values of one type    *)
(* may be handed in for a column of another.                                                  *)
ASSUME CodecAssumption ==
    /\ SlotCount \in Nat /\ MaxVersions \in 0..MaxOf(WordSize) /\ MaxDamage \in Nat \ {0}
    /\ Stray \subseteq Byte
    /\ Schemas \subseteq Seq([type : PhysicalType, nullable : BOOLEAN])
    /\ Metadata \subseteq [xmin : 0..MaxOf(2 * WordSize), xmax : 0..MaxOf(2 * WordSize),
                            cmin : 0..MaxOf(WordSize), cmax : 0..MaxOf(WordSize),
                            prev_page_no : 0..MaxOf(2 * WordSize), prev_slot : 0..MaxOf(HalfSize)]
    /\ \A type \in PhysicalType : \A value \in Values[type] :
          \/ value = NULL
          \/ \E t \in PhysicalType : value \in {t} \X ValueDomain(t)

-----------------------------------------------------------------------------
(* Fixed-width values and descriptors. *)

EncodeFixedScalar(type, value) ==
    IF type = "BOOLEAN" THEN <<IF value[2] THEN 1 ELSE 0>>
    ELSE EncodeLittleEndian(value[2], PhysicalTypeWidth(type))

(* Float64PhysicalValue carries raw bits, the other numbers are signed. *)
DecodeFixedScalar(type, bytes) ==
    CASE type = "BOOLEAN" -> <<type, bytes[1] = 1>>
      [] type = "FLOAT64" -> <<type, DecodeLittleEndian(bytes)>>
      [] type \in {"INT32", "INT64", "DATE", "TIMESTAMP"} -> <<type, DecodeSigned(bytes)>>

DescriptorFields == [payload_offset |-> <<0, WordSize>>, payload_length |-> <<WordSize, WordSize>>]

EncodeVarcharDescriptor(offset, length) ==
    EncodeFields(DescriptorFields, [payload_offset |-> offset, payload_length |-> length],
                 Zeroes(2 * WordSize))

DecodeVarcharDescriptor(bytes) == DecodeFields(DescriptorFields, bytes)

-----------------------------------------------------------------------------
(* EncodeTuple. *)

ValueAllowed(column, value) ==
    IF value = NULL THEN column.nullable ELSE value[1] = column.type

VarlenLengths(layout, values) ==
    [i \in DOMAIN values |-> IF IsVarlen(layout, i) /\ values[i] # NULL THEN Len(values[i][2]) ELSE 0]

EncodedHeader(layout, metadata, values) ==
    [xmin |-> metadata.xmin, xmax |-> metadata.xmax,
     cmin |-> metadata.cmin, cmax |-> metadata.cmax,
     prev_page_no |-> metadata.prev_page_no, prev_slot |-> metadata.prev_slot,
     tuple_flags |-> (IF \E i \in DOMAIN values : values[i] = NULL
                      THEN TUPLE_FLAG_HAS_NULLS ELSE 0)
                   + (IF HasVarlenColumns(layout) THEN TUPLE_FLAG_HAS_VARLEN ELSE 0),
     header_bytes |-> HeaderSize, null_bitmap_bytes |-> layout.null_bitmap_bytes,
     schema_version |-> layout.schema_version, reserved |-> 0]

(* The checks made before a byte is written. *)
EncodeAccepts(layout, metadata, values) ==
    /\ Len(values) = Len(layout.columns)
    /\ \A i \in DOMAIN values : ValueAllowed(layout.columns[i], values[i])
    /\ PlanTupleSize(layout, VarlenLengths(layout, values)).code = "OK"
    /\ ValidateTupleHeader(EncodedHeader(layout, metadata, values))

Bitmap(layout, bytes) == Subspan(bytes, HeaderSize, layout.null_bitmap_bytes)

Field(column, bytes) == Subspan(bytes, column.fixed_offset, column.fixed_width)

(* Column i is written; cursor is where the next payload goes. *)
EncodeColumn(layout, values, done, i) ==
    LET column == layout.columns[i]
        length == Len(values[i][2])
    IN IF values[i] = NULL
       THEN [done EXCEPT !.tuple = Overwrite(@, HeaderSize, SetNull(Bitmap(layout, @), i))]
       ELSE IF ~IsVarlen(layout, i)
       THEN [done EXCEPT !.tuple = Overwrite(@, column.fixed_offset,
                                             EncodeFixedScalar(column.type, values[i]))]
       ELSE IF done.cursor > MaxOf(WordSize) \/ done.cursor + length > Len(done.tuple)
       THEN [done EXCEPT !.malformed = TRUE]
       ELSE [done EXCEPT
               !.tuple = Overwrite(Overwrite(@, column.fixed_offset,
                                             EncodeVarcharDescriptor(done.cursor, length)),
                                   done.cursor, values[i][2]),
               !.cursor = @ + length]

(* The tuple after 0 to Len(values) columns, written over one with nothing but a header. *)
EncodedColumns(layout, values, empty) ==
    LET done[i \in 0..Len(values)] ==
            IF i = 0 THEN [tuple |-> empty, cursor |-> layout.varlen_payload_offset,
                           malformed |-> FALSE]
            ELSE EncodeColumn(layout, values, done[i - 1], i)
    IN done

(* EncodeTuple of accepted arguments; a NULL VARCHAR keeps the zero descriptor. *)
EncodeTuple(layout, metadata, values) ==
    LET total == PlanTupleSize(layout, VarlenLengths(layout, values)).total_size
        empty == Overwrite(Zeroes(total), 0,
                           EncodeTupleHeader(EncodedHeader(layout, metadata, values)))
        last == EncodedColumns(layout, values, empty)[Len(values)]
    IN [code |-> IF last.malformed \/ last.cursor # total THEN "MALFORMED_TUPLE" ELSE "OK",
        tuple |-> last.tuple]

-----------------------------------------------------------------------------
(* ValidateTuple. *)

Descriptor(layout, bytes, i) == DecodeVarcharDescriptor(Field(layout.columns[i], bytes))

DescriptorEnd(d) == d.payload_offset + d.payload_length

(* The first pass over the columns. *)
ValidateNulls(layout, bytes) ==
    \A i \in Columns(layout) :
       IF IsNull(Bitmap(layout, bytes), i) THEN layout.columns[i].nullable
       ELSE layout.columns[i].type = "BOOLEAN" => Field(layout.columns[i], bytes)[1] =< 1

(* Mutation: each descriptor is checked by itself, not against the one before. *)
ValidatePayloadBounds(layout, bytes) ==
    \A i \in Columns(layout) :
       IsVarlen(layout, i) /\ ~IsNull(Bitmap(layout, bytes), i) =>
          /\ Descriptor(layout, bytes, i).payload_offset >= layout.varlen_payload_offset
          /\ DescriptorEnd(Descriptor(layout, bytes, i)) =< Len(bytes)

(* expected_payload_offset after 0 to all of the columns *)
ExpectedOffsets(layout, bytes) ==
    LET expected[i \in 0..Len(layout.columns)] ==
            IF i = 0 THEN layout.varlen_payload_offset
            ELSE IF ~IsVarlen(layout, i) \/ IsNull(Bitmap(layout, bytes), i) THEN expected[i - 1]
            ELSE DescriptorEnd(Descriptor(layout, bytes, i))
    IN expected

(* The second pass: payloads follow one another in column order up to the last byte.        *)
(* An end beyond the width of a descriptor field is one of the ends beyond the tuple.       *)
ValidatePayload(layout, bytes) ==
    LET expected == ExpectedOffsets(layout, bytes)
    IN /\ \A i \in Columns(layout) : IsVarlen(layout, i) =>
             LET d == Descriptor(layout, bytes, i) IN
             IF IsNull(Bitmap(layout, bytes), i) THEN d = [payload_offset |-> 0, payload_length |-> 0]
             ELSE /\ d.payload_offset >= layout.varlen_payload_offset
                  /\ DescriptorEnd(d) =< MaxOf(WordSize)
                  /\ DescriptorEnd(d) =< Len(bytes)
                  /\ d.payload_offset = expected[i - 1]
       /\ expected[Len(layout.columns)] = Len(bytes)

ValidateTuple(layout, bytes) ==
    /\ Len(bytes) >= layout.varlen_payload_offset
    /\ Len(bytes) =< MaxTuple
    /\ LET header == DecodeTupleHeader(bytes)
           bitmap == Bitmap(layout, bytes)
       IN /\ ValidateTupleHeader(header)
          /\ header.schema_version = layout.schema_version
          /\ header.null_bitmap_bytes = layout.null_bitmap_bytes
          /\ HasFlag(header, TUPLE_FLAG_HAS_VARLEN) = HasVarlenColumns(layout)
          /\ bitmap # << >> => ~UnusedBitSet(bitmap, Len(layout.columns))
          /\ ValidateNulls(layout, bytes)
          /\ HasFlag(header, TUPLE_FLAG_HAS_NULLS)
                = (\E i \in Columns(layout) : IsNull(bitmap, i))
    /\ ValidatePayload(layout, bytes)

(* DecodeTupleValue of a tuple that validates. *)
DecodeTupleValue(layout, bytes, i) ==
    LET d == Descriptor(layout, bytes, i) IN
    IF IsNull(Bitmap(layout, bytes), i) THEN NULL
    ELSE IF IsVarlen(layout, i)
    THEN <<"VARCHAR", Subspan(bytes, d.payload_offset, d.payload_length)>>
    ELSE DecodeFixedScalar(layout.columns[i].type, Field(layout.columns[i], bytes))

DecodedValues(layout, bytes) ==
    [i \in Columns(layout) |-> DecodeTupleValue(layout, bytes, i)]

-----------------------------------------------------------------------------
(* The check of a heap page. *)

Versions(version) == {k \in DOMAIN history : history[k].schema_version = version}

(* HeapTupleSchemaHistory::Resolve finds a layout, and which. *)
Resolvable(version) == version # 0 /\ Versions(version) # {}

Resolve(version) == history[CHOOSE k \in Versions(version) : \A j \in Versions(version) : k =< j]

ValidTransactionFields(header) ==
    /\ header.xmin # INVALID_TXN_ID
    /\ header.xmax # FROZEN_TXN_ID
    /\ header.xmax # INVALID_TXN_ID \/ header.cmax = 0

ValidPreviousVersion(header) ==
    header.prev_page_no # INVALID_PAGE_NO =>
       /\ header.prev_page_no # 0
       /\ header.prev_page_no = Rid.page_no =>
             header.prev_slot # Rid.slot /\ header.prev_slot < SlotCount

ValidateTupleForSlot(bytes) ==
    /\ Len(bytes) >= HeaderSize
    /\ LET header == DecodeTupleHeader(bytes) IN
       /\ ValidateTupleHeader(header)
       /\ Resolvable(header.schema_version)
       /\ ValidateTuple(Resolve(header.schema_version), bytes)
       /\ ValidTransactionFields(header)
       /\ ValidPreviousVersion(header)

-----------------------------------------------------------------------------
None == [version |-> 0, metadata |-> << >>, values |-> << >>, code |-> "OK"]

Init == history = << >> /\ tuple = << >> /\ source = None /\ damage = 0

(* The relation gets a schema version. *)
AddVersion(columns) ==
    /\ Len(history) < MaxVersions
    /\ LayoutFits(columns)
    /\ history' = Append(history, BuildTuplePhysicalLayout(columns, Len(history) + 1))
    /\ UNCHANGED <<tuple, source, damage>>

(* The rows of values handed to EncodeTuple. *)
Rows(layout) ==
    {row \in [Columns(layout) -> UNION {Values[layout.columns[i].type] : i \in Columns(layout)}] :
        \A i \in Columns(layout) : row[i] \in Values[layout.columns[i].type]}

(* A tuple is encoded under one of the versions and stored. *)
Encode(layout, metadata) ==
    /\ source = None
    /\ \E values \in Rows(layout) :
          /\ EncodeAccepts(layout, metadata, values)
          /\ LET encoded == EncodeTuple(layout, metadata, values) IN
             /\ tuple' = IF encoded.code = "OK" THEN encoded.tuple ELSE << >>
             /\ source' = [version |-> layout.schema_version, metadata |-> metadata,
                           values |-> values, code |-> encoded.code]
    /\ UNCHANGED <<history, damage>>

(* What may happen to the bytes before they are read: one byte changes, *)
AlterByte(k, byte) ==
    /\ tuple # << >> /\ damage = 0
    /\ byte # tuple[k]
    /\ tuple' = [tuple EXCEPT ![k] = byte]
    /\ damage' = MaxDamage
    /\ UNCHANGED <<history, source>>

(* the slot is one byte longer or shorter than the tuple, *)
Resize(bytes) ==
    /\ tuple # << >> /\ damage < MaxDamage
    /\ tuple' = bytes
    /\ damage' = damage + 1
    /\ UNCHANGED <<history, source>>

(* a descriptor names another range. *)
Redirect(column, offset, length) ==
    /\ tuple # << >> /\ damage < MaxDamage
    /\ tuple' = Overwrite(tuple, column.fixed_offset, EncodeVarcharDescriptor(offset, length))
    /\ damage' = damage + 1
    /\ UNCHANGED <<history, source>>

Next ==
    \/ \E columns \in Schemas : AddVersion(columns)
    \/ \E k \in DOMAIN history, m \in Metadata : Encode(history[k], m)
    \/ \E k \in DOMAIN tuple, byte \in Stray : AlterByte(k, byte)
    \/ tuple # << >> /\ \E bytes \in {Front(tuple), Append(tuple, 0)} : Resize(bytes)
    \/ /\ Resolvable(source.version)
       /\ LET layout == Resolve(source.version) IN
          \E i \in {j \in Columns(layout) : IsVarlen(layout, j)},
             offset \in (layout.varlen_payload_offset - 1)..Len(tuple), length \in 0..2 :
                Redirect(layout.columns[i], offset, length)

Spec == Init /\ [][Next]_codecVars

-----------------------------------------------------------------------------
(* EncodeTuple never meets the size mismatches it reports as MALFORMED_TUPLE: the size that  *)
(* PlanTupleSize adds up beforehand is where the payload cursor ends, column by column.      *)
PlanMatchesEncoding == source.code = "OK"

(* What was encoded is what is read, under whatever versions the relation has had since:     *)
(* the tuple validates under its own version and no other, its header carries the metadata,  *)
(* every column decodes to its value, and a heap page refuses it only for its transaction    *)
(* fields or its previous version.                                                           *)
RoundTrip ==
    source # None /\ tuple # << >> /\ damage = 0 =>
       /\ \A k \in DOMAIN history :
             ValidateTuple(history[k], tuple) <=> history[k].schema_version = source.version
       /\ LET header == DecodeTupleHeader(tuple) IN
          /\ \A f \in DOMAIN source.metadata : header[f] = source.metadata[f]
          /\ DecodedValues(Resolve(header.schema_version), tuple) = source.values
          /\ ValidateTupleForSlot(tuple)
                <=> ValidTransactionFields(header) /\ ValidPreviousVersion(header)

(* The bytes of the fixed area that stand under a NULL bit of a column that is no VARCHAR. *)
UnreadBytes(layout, values) ==
    UNION {(layout.columns[i].fixed_offset + 1)
              ..(layout.columns[i].fixed_offset + layout.columns[i].fixed_width) :
           i \in {j \in Columns(layout) : values[j] = NULL /\ ~IsVarlen(layout, j)}}

(* The validator accepts only what the encoder could have written, whatever the bytes: a     *)
(* tuple that validates is, but for the unread bytes under NULL, the encoding of the values  *)
(* it decodes to. So no two columns share payload bytes, none is left over, and no flag,     *)
(* bit or descriptor can differ without being noticed.                                       *)
CanonicalForm ==
    \A k \in DOMAIN history :
       LET layout == history[k] IN
       tuple # << >> /\ ValidateTuple(layout, tuple) =>
          LET header == DecodeTupleHeader(tuple)
              values == DecodedValues(layout, tuple)
              again == EncodeTuple(layout, header, values)
          IN /\ EncodeAccepts(layout, header, values)
             /\ again.code = "OK"
             /\ Len(again.tuple) = Len(tuple)
             /\ \A b \in DOMAIN tuple \ UnreadBytes(layout, values) : again.tuple[b] = tuple[b]
=============================================================================
