------------------------------ MODULE Encoding ------------------------------
(***************************************************************************)
(* Bytes and the little-endian integers of src/src/common/encoding.h. A     *)
(* byte array is a sequence; offsets count from zero as they do in the code.*)
(***************************************************************************)
EXTENDS Integers, Sequences, SequencesExt

CONSTANTS
    ByteBits,    \* the bits of a byte: 8
    WordSize,    \* sizeof(uint32_t): 4
    HalfSize     \* sizeof(uint16_t): 2

ASSUME EncodingAssumption ==
    ByteBits \in Nat \ {0} /\ WordSize \in Nat \ {0} /\ HalfSize \in 1..WordSize

(* base to the power of 0 to count *)
Powers(base, count) ==
    LET power[k \in 0..count] == IF k = 0 THEN 1 ELSE base * power[k - 1] IN power

Power(base, count) == Powers(base, count)[count]

Base == Power(2, ByteBits)

Byte == 0..(Base - 1)

(* numeric_limits of an unsigned integer of so many bytes *)
MaxOf(width) == Power(Base, width) - 1

INVALID_PAGE_NO == MaxOf(2 * WordSize)
INVALID_SLOT_ID == MaxOf(HalfSize)

(* What is left of a value after 0 to count divisions by the base. *)
Quotients(value, base, count) ==
    LET rest[k \in 0..count] == IF k = 0 THEN value ELSE rest[k - 1] \div base IN rest

(* The digits of a value, the lowest first. *)
Digits(value, base, count) ==
    LET rest == Quotients(value, base, count) IN [k \in 1..count |-> rest[k - 1] % base]

(* The values of the last 0 to Len(digits) digits, put together from the last to the first. *)
Partials(digits, base) ==
    LET number[k \in 0..Len(digits)] ==
           IF k = 0 THEN 0 ELSE number[k - 1] * base + digits[Len(digits) + 1 - k]
    IN number

Number(digits, base) == Partials(digits, base)[Len(digits)]

Zeroes(count) == [k \in 1..count |-> 0]

Subspan(bytes, offset, count) == SubSeq(bytes, offset + 1, offset + count)

(* new copied over the bytes from offset on *)
Overwrite(bytes, offset, new) ==
    [k \in DOMAIN bytes |-> IF k \in (offset + 1)..(offset + Len(new)) THEN new[k - offset]
                                                                       ELSE bytes[k]]

(* A signed value is first converted to the unsigned integer of its width. *)
EncodeLittleEndian(value, width) == Digits(value % Power(Base, width), Base, width)

DecodeLittleEndian(bytes) == Number(bytes, Base)

(* Mutation: the sign is lost. *)
DecodeUnsigned(bytes) == DecodeLittleEndian(bytes)

(* bit_cast of the decoded bits to the signed integer of the same width *)
DecodeSigned(bytes) ==
    LET bits == DecodeLittleEndian(bytes)
        limit == Power(Base, Len(bytes))
    IN IF 2 * bits >= limit THEN bits - limit ELSE bits

(* A structure is a table: field |-> <<offset, width>>. Every structure of the formats is    *)
(* encoded and decoded field by field; bytes between the fields keep their value.           *)
Covers(field, k) == k \in (field[1] + 1)..(field[1] + field[2])

EncodeFields(fields, record, bytes) ==
    [k \in DOMAIN bytes |->
       IF \E f \in DOMAIN fields : Covers(fields[f], k)
       THEN LET f == CHOOSE f \in DOMAIN fields : Covers(fields[f], k)
            IN EncodeLittleEndian(record[f], fields[f][2])[k - fields[f][1]]
       ELSE bytes[k]]

DecodeFields(fields, bytes) ==
    [f \in DOMAIN fields |-> DecodeLittleEndian(Subspan(bytes, fields[f][1], fields[f][2]))]
=============================================================================
