-------------------------- MODULE TupleCodec_proofs --------------------------
(***************************************************************************)
(* Proofs about the tuples of TupleCodec, for every layout, row and width   *)
(* of the integers: what is encoded has the planned size and reads back,    *)
(* and what validates is what the encoder writes.                           *)
(***************************************************************************)
EXTENDS TupleCodec, Formats_proofs

-----------------------------------------------------------------------------
(* Layouts. *)

(* Offsets that only grow cut the bytes between the first and the last into pieces. *)
Grows(f, n) == f \in [0..n -> Nat] /\ \A i \in 1..n : f[i - 1] =< f[i]

LEMMA GrowsTo ==
    ASSUME NEW n \in Nat, NEW f, Grows(f, n), NEW j \in 0..n, NEW i \in 0..j
    PROVE  f[i] =< f[j]
<1> DEFINE T == {m \in 0..j : \A l \in 0..m : f[l] =< f[m]}
<1>1. f \in [0..n -> Nat] /\ \A m \in 1..n : f[m - 1] =< f[m]
  BY DEF Grows
<1>2. 0 \in T
  BY <1>1
<1>3. ASSUME NEW m \in 1..j, m - 1 \in T PROVE m \in T
  <2>1. m - 1 \in 0..n /\ m \in 1..n /\ f[m - 1] =< f[m] /\ f[m - 1] \in Nat /\ f[m] \in Nat
    BY <1>1
  <2>2. ASSUME NEW l \in 0..m PROVE f[l] =< f[m]
    <3>1. CASE l = m
      BY <2>1, <3>1
    <3>2. CASE l # m
      <4>1. l \in 0..(m - 1) /\ l \in 0..n /\ f[l] \in Nat
        BY <1>1, <3>2
      <4>2. f[l] =< f[m - 1]
        BY <1>3, <4>1
      <4> QED
        BY <2>1, <4>1, <4>2
    <3> QED
      BY <3>1, <3>2
  <2> QED
    BY <2>2
<1> HIDE DEF T
<1>4. 0..j \subseteq T
  BY <1>2, <1>3, InductionTo
<1> QED
  BY <1>4 DEF T

LEMMA GrowsOver ==
    ASSUME NEW n \in Nat, NEW f, Grows(f, n), NEW k \in (f[0] + 1)..f[n]
    PROVE  \E i \in 1..n : k \in (f[i - 1] + 1)..f[i]
<1> DEFINE T == {m \in 0..n : k =< f[m]}
<1>1. f \in [0..n -> Nat] /\ f[0] \in Nat /\ f[n] \in Nat /\ k \in Nat /\ k > f[0] /\ k =< f[n]
  BY DEF Grows
<1>2. T \in SUBSET Nat /\ n \in T
  BY <1>1
<1>3. PICK m \in T : \A l \in T : m =< l
  <2> HIDE DEF T
  <2> QED
    BY <1>2, LeastElement
<1>4. m \in 1..n /\ m - 1 \in 0..n /\ m - 1 \notin T
  BY <1>1, <1>3
<1>5. f[m - 1] < k /\ k =< f[m] /\ f[m - 1] \in Nat /\ f[m] \in Nat
  BY <1>1, <1>3, <1>4
<1> QED
  BY <1>1, <1>4, <1>5

Count(layout) == Len(layout.columns)

FixedArea(layout) == HeaderSize + layout.null_bitmap_bytes

Type(layout, i) == layout.columns[i].type

Offset(layout, i) == layout.columns[i].fixed_offset

Width(layout, i) == layout.columns[i].fixed_width

LayoutColumn == [type : PhysicalType, nullable : BOOLEAN, fixed_offset : Nat, fixed_width : Nat]

(* What BuildTuplePhysicalLayout builds: columns that follow one another from the bitmap to      *)
(* the payloads.                                                                                 *)
IsLayout(layout) ==
    /\ layout.columns \in Seq(LayoutColumn)
    /\ layout.schema_version \in 1..MaxOf(WordSize)
    /\ layout.null_bitmap_bytes = NullBitmapBytes(Count(layout))
    /\ layout.null_bitmap_bytes \in 0..MaxOf(HalfSize)
    /\ layout.varlen_payload_offset \in FixedArea(layout)..MaxTuple
    /\ \A i \in 1..Count(layout) :
          /\ Width(layout, i) = PhysicalTypeWidth(Type(layout, i))
          /\ FixedArea(layout) =< Offset(layout, i)
          /\ Offset(layout, i) + Width(layout, i) =< layout.varlen_payload_offset
    /\ \A i, j \in 1..Count(layout) :
          i < j => Offset(layout, i) + Width(layout, i) =< Offset(layout, j)
    /\ \A k \in (FixedArea(layout) + 1)..layout.varlen_payload_offset :
          \E i \in 1..Count(layout) :
             k \in (Offset(layout, i) + 1)..(Offset(layout, i) + Width(layout, i))

LEMMA TypeWidth ==
    ASSUME NEW type \in PhysicalType
    PROVE  /\ PhysicalTypeWidth(type) \in Nat \ {0}
           /\ type = "BOOLEAN" => PhysicalTypeWidth(type) = 1
           /\ type \in {"INT32", "DATE"} => PhysicalTypeWidth(type) = WordSize
           /\ type \in {"INT64", "FLOAT64", "TIMESTAMP", "VARCHAR"}
                 => PhysicalTypeWidth(type) = 2 * WordSize
<1>1. WordSize \in Nat \ {0} /\ 2 * WordSize \in Nat \ {0}
  BY EncodingAssumption
<1>2. CASE type = "BOOLEAN"
  BY <1>1, <1>2 DEF PhysicalTypeWidth
<1>3. CASE type \in {"INT32", "DATE"}
  <2>1. PhysicalTypeWidth(type) = WordSize
    BY <1>3 DEF PhysicalTypeWidth
  <2> QED
    BY <1>1, <1>3, <2>1
<1>4. CASE type \in {"INT64", "FLOAT64", "TIMESTAMP", "VARCHAR"}
  <2>1. PhysicalTypeWidth(type) = 2 * WordSize
    BY <1>4 DEF PhysicalTypeWidth
  <2> QED
    BY <1>1, <1>4, <2>1
<1> QED
  BY <1>2, <1>3, <1>4 DEF PhysicalType

LEMMA BitmapSize ==
    ASSUME NEW count \in Nat
    PROVE  /\ NullBitmapBytes(count) \in Nat
           /\ count % ByteBits \in 0..(ByteBits - 1) /\ count \div ByteBits \in Nat
           /\ count = (count \div ByteBits) * ByteBits + (count % ByteBits)
           /\ NullBitmapBytes(count)
                 = IF count % ByteBits # 0 THEN (count \div ByteBits) + 1 ELSE count \div ByteBits
<1>1. ByteBits \in Nat \ {0}
  BY EncodingAssumption
<1>2. /\ count \div ByteBits \in Nat /\ count % ByteBits \in 0..(ByteBits - 1)
      /\ count = (count \div ByteBits) * ByteBits + (count % ByteBits)
  BY <1>1, DivMod
<1> QED
  BY <1>2 DEF NullBitmapBytes

LEMMA HeaderRoom == HeaderSize \in Nat \ {0} /\ HeaderSize =< MaxOf(HalfSize) /\ MaxOf(HalfSize) \in Nat
<1>1. WordSize \in Nat \ {0} /\ HalfSize \in Nat \ {0}
  BY EncodingAssumption
<1>2. HeaderSize = 10 * WordSize + 4 * HalfSize
  BY DEF HeaderSize
<1>3. HeaderSize \in Nat \ {0}
  BY <1>1, <1>2
<1>4. MaxOf(HalfSize) \in Nat
  BY <1>1, MaxOfNat
<1> QED
  BY <1>3, <1>4, HeaderAssumption

ColumnType == [type : PhysicalType, nullable : BOOLEAN]

LEMMA ColumnAt ==
    ASSUME NEW columns \in Seq(ColumnType), NEW i \in 1..Len(columns)
    PROVE  /\ Len(columns) \in Nat
           /\ columns[i] \in ColumnType /\ columns[i].type \in PhysicalType
           /\ columns[i].nullable \in BOOLEAN
<1>1. Len(columns) \in Nat /\ columns[i] \in ColumnType
  OBVIOUS
<1> QED
  BY <1>1 DEF ColumnType

LEMMA OffsetSteps ==
    ASSUME NEW columns \in Seq(ColumnType)
    PROVE  /\ NextOffsets(columns) \in [0..Len(columns) -> Nat]
           /\ NextOffsets(columns)[0] = HeaderSize + NullBitmapBytes(Len(columns))
           /\ \A i \in 1..Len(columns) :
                 NextOffsets(columns)[i] = NextOffsets(columns)[i - 1] + PhysicalTypeWidth(columns[i].type)
<1> DEFINE n == Len(columns)
           w == [i \in 1..n |-> PhysicalTypeWidth(columns[i].type)]
           base == HeaderSize + NullBitmapBytes(n)
           step == [i \in 1..n |-> [x \in Nat |-> x + w[i]]]
           p == NextOffsets(columns)
<1>1. n \in Nat /\ base \in Nat
  <2>1. n \in Nat
    OBVIOUS
  <2>2. NullBitmapBytes(n) \in Nat
    BY <2>1, BitmapSize
  <2>3. HeaderSize \in Nat
    BY HeaderRoom
  <2> QED
    BY <2>1, <2>2, <2>3
<1>2. w \in [1..n -> Nat]
  <2> SUFFICES ASSUME NEW i \in 1..n PROVE PhysicalTypeWidth(columns[i].type) \in Nat
    OBVIOUS
  <2>1. columns[i].type \in PhysicalType
    BY ColumnAt
  <2> QED
    BY <2>1, TypeWidth
<1>3. \A i \in 1..n : w[i] = PhysicalTypeWidth(columns[i].type)
  OBVIOUS
<1> HIDE DEF n, w, base
<1>4. step \in [1..n -> [Nat -> Nat]]
  BY <1>2
<1>5. \A i \in 1..n, x \in Nat : step[i][x] = x + w[i]
  OBVIOUS
<1> HIDE DEF step
<1>6. PICK f : Iterates(f, n, Nat, base, step)
  BY <1>1, <1>4, RecursiveFunction
<1>7. f \in [0..n -> Nat] /\ f[0] = base /\ \A i \in 1..n : f[i] = f[i - 1] + w[i]
  <2>1. f \in [0..n -> Nat] /\ f[0] = base /\ \A i \in 1..n : f[i] = step[i][f[i - 1]]
    BY <1>6 DEF Iterates
  <2>2. ASSUME NEW i \in 1..n PROVE f[i] = f[i - 1] + w[i]
    <3>1. f[i - 1] \in Nat
      BY <1>1, <2>1
    <3> QED
      BY <1>5, <2>1, <3>1
  <2> QED
    BY <2>1, <2>2
<1>8. f = [i \in 0..n |-> IF i = 0 THEN base ELSE f[i - 1] + PhysicalTypeWidth(columns[i].type)]
  BY <1>1, <1>3, <1>7
<1>9. \E g : g = [i \in 0..n |-> IF i = 0 THEN base
                                 ELSE g[i - 1] + PhysicalTypeWidth(columns[i].type)]
  BY <1>8
<1>10. p = [i \in 0..n |-> IF i = 0 THEN base ELSE p[i - 1] + PhysicalTypeWidth(columns[i].type)]
  BY <1>9 DEF NextOffsets, n, base
<1> HIDE DEF p
<1>11. p[0] = base /\ \A i \in 1..n : p[i] = p[i - 1] + w[i]
  BY <1>1, <1>3, <1>10
<1> DEFINE T == {i \in 0..n : p[i] \in Nat}
<1>12. 0 \in T
  BY <1>1, <1>11
<1>13. ASSUME NEW i \in 1..n, i - 1 \in T PROVE i \in T
  <2>1. w[i] \in Nat /\ p[i - 1] \in Nat /\ p[i] = p[i - 1] + w[i] /\ i \in 0..n
    BY <1>1, <1>2, <1>11, <1>13
  <2> QED
    BY <2>1
<1> HIDE DEF T
<1>14. 0..n \subseteq T
  BY <1>1, <1>12, <1>13, InductionTo
<1>15. p \in [0..n -> Nat]
  <2>1. \A i \in 0..n : p[i] \in Nat
    BY <1>14 DEF T
  <2> QED
    BY <1>10, <2>1
<1> QED
  BY <1>3, <1>11, <1>15 DEF p, n, base

LEMMA SequenceFacts ==
    ASSUME NEW S, NEW s \in Seq(S)
    PROVE  Len(s) \in Nat /\ DOMAIN s = 1..Len(s) /\ \A i \in 1..Len(s) : s[i] \in S
OBVIOUS

LEMMA FunctionIsSequence ==
    ASSUME NEW S, NEW n \in Nat, NEW s \in [1..n -> S]
    PROVE  s \in Seq(S) /\ Len(s) = n
OBVIOUS

LEMMA LayoutBuilt ==
    ASSUME NEW columns \in Seq(ColumnType), LayoutFits(columns), NEW version \in 1..MaxOf(WordSize)
    PROVE  /\ IsLayout(BuildTuplePhysicalLayout(columns, version))
           /\ BuildTuplePhysicalLayout(columns, version).schema_version = version
<1> DEFINE n == Len(columns)
           p == NextOffsets(columns)
           L == BuildTuplePhysicalLayout(columns, version)
           w == [i \in 1..n |-> PhysicalTypeWidth(columns[i].type)]
           col == [i \in 1..n |-> [type |-> columns[i].type, nullable |-> columns[i].nullable,
                                   fixed_offset |-> p[i - 1],
                                   fixed_width |-> PhysicalTypeWidth(columns[i].type)]]
<1>1. n \in Nat
  OBVIOUS
<1>2. /\ p \in [0..n -> Nat] /\ p[0] = HeaderSize + NullBitmapBytes(n)
      /\ \A i \in 1..n : p[i] = p[i - 1] + PhysicalTypeWidth(columns[i].type)
  BY OffsetSteps
<1>3. \A i \in 1..n : columns[i].type \in PhysicalType /\ columns[i].nullable \in BOOLEAN
  BY ColumnAt
<1>4. \A i \in 1..n : PhysicalTypeWidth(columns[i].type) \in Nat
  BY <1>3, TypeWidth
<1>5. /\ L.schema_version = version /\ L.null_bitmap_bytes = NullBitmapBytes(n)
      /\ L.varlen_payload_offset = p[n] /\ L.columns = col
  BY DEF BuildTuplePhysicalLayout
<1>6. NullBitmapBytes(n) \in 0..MaxOf(HalfSize) /\ p[n] =< MaxTuple
  <2>1. BuildTuplePhysicalLayout(columns, 0).varlen_payload_offset = p[n]
    BY DEF BuildTuplePhysicalLayout
  <2>2. NullBitmapBytes(n) \in Nat
    BY <1>1, BitmapSize
  <2>3. MaxOf(HalfSize) \in Nat
    BY HeaderRoom
  <2> HIDE DEF p, n
  <2> QED
    BY <2>1, <2>2, <2>3 DEF LayoutFits, n
<1>7. MaxTuple \in Nat
  BY SizeAssumption
<1>8. /\ col \in [1..n -> LayoutColumn]
      /\ \A i \in 1..n : /\ col[i].type = columns[i].type
                         /\ col[i].fixed_offset = p[i - 1]
                         /\ col[i].fixed_width = PhysicalTypeWidth(columns[i].type)
  <2>1. ASSUME NEW i \in 1..n
        PROVE  [type |-> columns[i].type, nullable |-> columns[i].nullable, fixed_offset |-> p[i - 1],
                fixed_width |-> PhysicalTypeWidth(columns[i].type)]
                 \in LayoutColumn
    <3>1. p[i - 1] \in Nat
      BY <1>1, <1>2
    <3> QED
      BY <3>1, <1>3, <1>4 DEF LayoutColumn
  <2> HIDE DEF p, n
  <2> QED
    BY <2>1
<1> HIDE DEF p, n, L, col, w
<1>9. Count(L) = n /\ DOMAIN col = 1..n
  <2>1. Len(col) = n
    BY <1>1, <1>8, FunctionIsSequence
  <2> QED
    BY <1>5, <1>8, <2>1 DEF Count
<1>10. col \in Seq(LayoutColumn)
  BY <1>1, <1>8, FunctionIsSequence
<1>11. \A i \in 1..n : /\ Type(L, i) = columns[i].type
                       /\ Offset(L, i) = p[i - 1]
                       /\ Width(L, i) = PhysicalTypeWidth(columns[i].type)
                       /\ Offset(L, i) + Width(L, i) = p[i]
  BY <1>2, <1>5, <1>8 DEF Type, Offset, Width
<1>12. Grows(p, n)
  <2>1. ASSUME NEW i \in 1..n PROVE p[i - 1] =< p[i]
    <3>1. p[i - 1] \in Nat /\ p[i] = p[i - 1] + PhysicalTypeWidth(columns[i].type)
      BY <1>1, <1>2
    <3> QED
      BY <3>1, <1>4
  <2> QED
    BY <1>2, <2>1 DEF Grows
<1>13. p[0] = FixedArea(L) /\ p[0] \in Nat /\ p[n] \in Nat /\ p[0] =< p[n]
  <2>1. p[0] = FixedArea(L)
    BY <1>2, <1>5 DEF FixedArea
  <2>2. p[0] =< p[n]
    BY <1>1, <1>12, GrowsTo
  <2> QED
    BY <1>1, <1>2, <2>1, <2>2
<1>14. L.varlen_payload_offset \in FixedArea(L)..MaxTuple
  BY <1>5, <1>6, <1>7, <1>13
<1>15. ASSUME NEW i \in 1..n
       PROVE  /\ Width(L, i) = PhysicalTypeWidth(Type(L, i))
              /\ FixedArea(L) =< Offset(L, i)
              /\ Offset(L, i) + Width(L, i) =< L.varlen_payload_offset
  <2>1. p[0] =< p[i - 1]
    <3>1. i - 1 \in 0..n /\ 0 \in 0..(i - 1)
      BY <1>1
    <3> QED
      BY <1>1, <1>12, <3>1, GrowsTo
  <2>2. p[i] =< p[n]
    <3>1. n \in 0..n /\ i \in 0..n
      BY <1>1
    <3> QED
      BY <1>1, <1>12, <3>1, GrowsTo
  <2> QED
    BY <1>5, <1>11, <1>13, <2>1, <2>2
<1>16. ASSUME NEW i \in 1..n, NEW j \in 1..n, i < j
       PROVE  Offset(L, i) + Width(L, i) =< Offset(L, j)
  <2>1. p[i] =< p[j - 1]
    <3>1. j - 1 \in 0..n /\ i \in 0..(j - 1)
      BY <1>1, <1>16
    <3> QED
      BY <1>1, <1>12, <3>1, GrowsTo
  <2> QED
    BY <1>11, <2>1
<1>17. ASSUME NEW k \in (FixedArea(L) + 1)..L.varlen_payload_offset
       PROVE  \E i \in 1..n : k \in (Offset(L, i) + 1)..(Offset(L, i) + Width(L, i))
  <2>1. k \in (p[0] + 1)..p[n]
    BY <1>5, <1>13
  <2>2. PICK i \in 1..n : k \in (p[i - 1] + 1)..p[i]
    BY <1>1, <1>12, <2>1, GrowsOver
  <2> QED
    BY <1>11, <2>2
<1>18. L.columns \in Seq(LayoutColumn)
  BY <1>5, <1>10
<1>19. IsLayout(L)
  BY <1>5, <1>6, <1>9, <1>14, <1>15, <1>16, <1>17, <1>18, Zenon DEF IsLayout
<1> QED
  BY <1>5, <1>19 DEF L

(* The sizes of a layout. *)
LEMMA LayoutRoom ==
    ASSUME NEW layout, IsLayout(layout)
    PROVE  /\ Count(layout) \in Nat /\ Columns(layout) = 1..Count(layout)
           /\ HeaderSize \in Nat \ {0} /\ layout.null_bitmap_bytes \in Nat
           /\ FixedArea(layout) = HeaderSize + layout.null_bitmap_bytes
           /\ layout.varlen_payload_offset \in Nat /\ MaxTuple \in Nat /\ MaxTuple =< MaxOf(WordSize)
           /\ MaxOf(WordSize) \in Nat
           /\ FixedArea(layout) =< layout.varlen_payload_offset
           /\ layout.varlen_payload_offset =< MaxTuple
<1>1. layout.columns \in Seq(LayoutColumn)
  BY DEF IsLayout
<1>2. Count(layout) \in Nat /\ Columns(layout) = 1..Count(layout)
  BY <1>1, SequenceFacts DEF Count, Columns
<1>3. HeaderSize \in Nat \ {0} /\ MaxOf(HalfSize) \in Nat
  BY HeaderRoom
<1>4. layout.null_bitmap_bytes \in Nat
  BY <1>3 DEF IsLayout
<1>5. WordSize \in Nat
  BY EncodingAssumption
<1>6. MaxOf(WordSize) \in Nat
  BY <1>5, MaxOfNat
<1>7. MaxTuple \in Nat /\ MaxTuple =< MaxOf(WordSize)
  BY <1>6, SizeAssumption
<1>8. FixedArea(layout) = HeaderSize + layout.null_bitmap_bytes
  BY DEF FixedArea
<1>9. layout.varlen_payload_offset \in FixedArea(layout)..MaxTuple
  BY DEF IsLayout
<1> QED
  BY <1>2, <1>3, <1>4, <1>6, <1>7, <1>8, <1>9

(* The place of a column's field. *)
LEMMA FieldRoom ==
    ASSUME NEW layout, IsLayout(layout), NEW i \in 1..Count(layout)
    PROVE  /\ Type(layout, i) \in PhysicalType /\ layout.columns[i].nullable \in BOOLEAN
           /\ Width(layout, i) = PhysicalTypeWidth(Type(layout, i))
           /\ Offset(layout, i) \in Nat /\ Width(layout, i) \in Nat \ {0}
           /\ FixedArea(layout) =< Offset(layout, i)
           /\ Offset(layout, i) + Width(layout, i) =< layout.varlen_payload_offset
<1>1. layout.columns \in Seq(LayoutColumn)
  BY DEF IsLayout
<1>2. layout.columns[i] \in LayoutColumn
  BY <1>1, SequenceFacts DEF Count
<1>3. /\ Type(layout, i) \in PhysicalType /\ layout.columns[i].nullable \in BOOLEAN
      /\ Offset(layout, i) \in Nat
  BY <1>2 DEF Type, Offset, LayoutColumn
<1>4. /\ Width(layout, i) = PhysicalTypeWidth(Type(layout, i))
      /\ FixedArea(layout) =< Offset(layout, i)
      /\ Offset(layout, i) + Width(layout, i) =< layout.varlen_payload_offset
  BY DEF IsLayout
<1> QED
  BY <1>3, <1>4, TypeWidth

LEMMA FieldsApart ==
    ASSUME NEW layout, IsLayout(layout), NEW i \in 1..Count(layout), NEW j \in 1..Count(layout),
           i # j, NEW m \in 1..Width(layout, i)
    PROVE  Offset(layout, i) + m \notin (Offset(layout, j) + 1)..(Offset(layout, j) + Width(layout, j))
<1>1. /\ Offset(layout, i) \in Nat /\ Width(layout, i) \in Nat
      /\ Offset(layout, j) \in Nat /\ Width(layout, j) \in Nat /\ Count(layout) \in Nat
  BY FieldRoom, LayoutRoom
<1>2. i < j \/ j < i
  BY <1>1
<1>3. \/ Offset(layout, i) + Width(layout, i) =< Offset(layout, j)
      \/ Offset(layout, j) + Width(layout, j) =< Offset(layout, i)
  BY <1>2 DEF IsLayout
<1> QED
  BY <1>1, <1>3

LEMMA FieldCovers ==
    ASSUME NEW layout, IsLayout(layout),
           NEW k \in (FixedArea(layout) + 1)..layout.varlen_payload_offset
    PROVE  \E i \in 1..Count(layout) : \E m \in 1..Width(layout, i) : k = Offset(layout, i) + m
<1>1. PICK i \in 1..Count(layout) :
         k \in (Offset(layout, i) + 1)..(Offset(layout, i) + Width(layout, i))
  BY DEF IsLayout
<1>2. Offset(layout, i) \in Nat /\ Width(layout, i) \in Nat
  BY FieldRoom
<1>3. k - Offset(layout, i) \in 1..Width(layout, i) /\ k = Offset(layout, i) + (k - Offset(layout, i))
  BY <1>1, <1>2
<1> QED
  BY <1>3

LEMMA HeaderTable == Tiles(HeaderFields, 0, HeaderSize)
<1>1. DOMAIN HeaderFields = {"xmin", "xmax", "cmin", "cmax", "prev_page_no", "prev_slot", "tuple_flags",
                             "header_bytes", "null_bitmap_bytes", "schema_version", "reserved"}
  BY DEF HeaderFields
<1>2. /\ HeaderFields["xmin"] = <<0, 2 * WordSize>>
      /\ HeaderFields["xmax"] = <<2 * WordSize, 2 * WordSize>>
      /\ HeaderFields["cmin"] = <<4 * WordSize, WordSize>>
      /\ HeaderFields["cmax"] = <<5 * WordSize, WordSize>>
      /\ HeaderFields["prev_page_no"] = <<6 * WordSize, 2 * WordSize>>
      /\ HeaderFields["prev_slot"] = <<8 * WordSize, HalfSize>>
      /\ HeaderFields["tuple_flags"] = <<8 * WordSize + HalfSize, HalfSize>>
      /\ HeaderFields["header_bytes"] = <<8 * WordSize + 2 * HalfSize, HalfSize>>
      /\ HeaderFields["null_bitmap_bytes"] = <<8 * WordSize + 3 * HalfSize, HalfSize>>
      /\ HeaderFields["schema_version"] = <<8 * WordSize + 4 * HalfSize, WordSize>>
      /\ HeaderFields["reserved"] = <<9 * WordSize + 4 * HalfSize, WordSize>>
  BY DEF HeaderFields
<1>3. /\ HalfSize \in Nat \ {0} /\ WordSize \in Nat \ {0}
      /\ HeaderSize = 10 * WordSize + 4 * HalfSize
  BY Sizes DEF HeaderSize
<1>4. \A f \in DOMAIN HeaderFields :
          /\ HeaderFields[f][1] \in Nat /\ HeaderFields[f][2] \in Nat
          /\ HeaderFields[f][1] + HeaderFields[f][2] =< HeaderSize
  BY <1>1, <1>2, <1>3
<1>5. \A f, g \in DOMAIN HeaderFields :
          f # g => \/ HeaderFields[f][1] + HeaderFields[f][2] =< HeaderFields[g][1]
                   \/ HeaderFields[g][1] + HeaderFields[g][2] =< HeaderFields[f][1]
  BY <1>1, <1>2, <1>3
<1>6. ASSUME NEW k \in 1..HeaderSize PROVE Covered(HeaderFields, k)
  BY <1>1, <1>2, <1>3 DEF Covered, Covers
<1> QED
  BY <1>4, <1>5, <1>6 DEF IsTable, Tiles

LEMMA DescriptorTable == Tiles(DescriptorFields, 0, 2 * WordSize)
<1>1. DOMAIN DescriptorFields = {"payload_offset", "payload_length"}
  BY DEF DescriptorFields
<1>2. /\ DescriptorFields["payload_offset"] = <<0, WordSize>>
      /\ DescriptorFields["payload_length"] = <<WordSize, WordSize>>
  BY DEF DescriptorFields
<1>3. WordSize \in Nat \ {0}
  BY Sizes
<1>4. \A f \in DOMAIN DescriptorFields :
          /\ DescriptorFields[f][1] \in Nat /\ DescriptorFields[f][2] \in Nat
          /\ DescriptorFields[f][1] + DescriptorFields[f][2] =< 2 * WordSize
  BY <1>1, <1>2, <1>3
<1>5. \A f, g \in DOMAIN DescriptorFields :
          f # g => \/ DescriptorFields[f][1] + DescriptorFields[f][2] =< DescriptorFields[g][1]
                   \/ DescriptorFields[g][1] + DescriptorFields[g][2] =< DescriptorFields[f][1]
  BY <1>1, <1>2, <1>3
<1>6. ASSUME NEW k \in 1..(2 * WordSize) PROVE Covered(DescriptorFields, k)
  BY <1>1, <1>2, <1>3 DEF Covered, Covers
<1> QED
  BY <1>4, <1>5, <1>6 DEF IsTable, Tiles

-----------------------------------------------------------------------------
(* Values of fixed width. *)

LEMMA Halves ==
    ASSUME NEW w \in Nat \ {0}
    PROVE  /\ Power(Base, w) \in Nat \ {0} /\ Power(Base, w) \div 2 \in Nat \ {0}
           /\ Power(Base, w) = 2 * (Power(Base, w) \div 2)
           /\ MaxOf(w) = Power(Base, w) - 1
<1>1. ByteBits - 1 \in Nat /\ w - 1 \in Nat
  BY EncodingAssumption
<1>2. Base = 2 * Power(2, ByteBits - 1) /\ Power(2, ByteBits - 1) \in Nat
  <2>1. Power(2, (ByteBits - 1) + 1) = 2 * Power(2, ByteBits - 1) /\ Power(2, ByteBits - 1) \in Nat
    BY <1>1, PowerSteps
  <2>2. (ByteBits - 1) + 1 = ByteBits
    BY EncodingAssumption
  <2> QED
    BY <2>1, <2>2 DEF Base
<1>3. Base \in Nat
  BY BaseIsPositive
<1>4. Power(Base, w) = Base * Power(Base, w - 1) /\ Power(Base, w - 1) \in Nat
  <2>1. Power(Base, (w - 1) + 1) = Base * Power(Base, w - 1) /\ Power(Base, w - 1) \in Nat
    BY <1>1, <1>3, PowerSteps
  <2>2. (w - 1) + 1 = w
    OBVIOUS
  <2> QED
    BY <2>1, <2>2
<1>5. Power(Base, w) \in Nat \ {0}
  BY MaxOfNat
<1> DEFINE a == Power(2, ByteBits - 1)
           b == Power(Base, w - 1)
           p == Power(Base, w)
<1>6. a \in Nat /\ b \in Nat /\ p \in Nat \ {0} /\ p = (2 * a) * b
  BY <1>2, <1>4, <1>5
<1> HIDE DEF a, b, p
<1>7. a * b \in Nat
  BY <1>6
<1>8. p = 2 * (a * b)
  BY <1>6, Z3
<1> DEFINE h == a * b
<1>9. h \in Nat /\ p = 2 * h
  BY <1>7, <1>8
<1> HIDE DEF h
<1>10. p \div 2 = h /\ h # 0
  BY <1>6, <1>9
<1>11. p \div 2 \in Nat \ {0} /\ p = 2 * (p \div 2)
  BY <1>9, <1>10
<1> QED
  BY <1>5, <1>11 DEF p, MaxOf

LEMMA NegativeMod ==
    ASSUME NEW c \in Nat \ {0}, NEW i \in 0..(c - 1)
    PROVE  i % c = i /\ (i - c) % c = i
BY Z3

(* Signed values come back from their bytes, *)
LEMMA SignedReadBack ==
    ASSUME NEW w \in Nat \ {0},
           NEW v \in (-(Power(Base, w) \div 2))..((Power(Base, w) \div 2) - 1)
    PROVE  /\ EncodeLittleEndian(v, w) \in [1..w -> Byte]
           /\ DecodeSigned(EncodeLittleEndian(v, w)) = v
<1> DEFINE p == Power(Base, w)
           half == p \div 2
           bits == IF v >= 0 THEN v ELSE v + p
<1>1. p \in Nat \ {0} /\ half \in Nat /\ p = 2 * half /\ MaxOf(w) = p - 1 /\ v \in (-half)..(half - 1)
  BY Halves
<1> HIDE DEF p, half
<1>2. bits \in 0..(p - 1) /\ (v = bits \/ v = bits - p) /\ v \in Int
  BY <1>1
<1>3. v % p = bits /\ bits % p = bits
  <2> HIDE DEF bits
  <2> QED
    BY <1>1, <1>2, NegativeMod
<1>4. EncodeLittleEndian(v, w) = EncodeLittleEndian(bits, w)
  BY <1>3 DEF EncodeLittleEndian, p
<1>5. /\ EncodeLittleEndian(bits, w) \in [1..w -> Byte]
      /\ DecodeLittleEndian(EncodeLittleEndian(bits, w)) = bits
  <2>1. bits \in 0..MaxOf(w)
    BY <1>1, <1>2
  <2> HIDE DEF bits
  <2> QED
    BY <2>1, ValueReadBack
<1> DEFINE e == EncodeLittleEndian(v, w)
<1>6. e \in [1..w -> Byte] /\ DecodeLittleEndian(e) = bits
  BY <1>4, <1>5
<1> HIDE DEF e
<1>7. Len(e) = w
  BY <1>6, FunctionIsSequence
<1>8. DecodeSigned(e) = IF 2 * bits >= p THEN bits - p ELSE bits
  BY <1>6, <1>7 DEF DecodeSigned, p
<1>9. (IF 2 * bits >= p THEN bits - p ELSE bits) = v
  BY <1>1, <1>2
<1> QED
  BY <1>6, <1>8, <1>9 DEF e

(* and bytes from the signed value they stand for. *)
LEMMA SignedBytes ==
    ASSUME NEW w \in Nat \ {0}, NEW bytes \in [1..w -> Byte]
    PROVE  /\ DecodeSigned(bytes) \in (-(Power(Base, w) \div 2))..((Power(Base, w) \div 2) - 1)
           /\ EncodeLittleEndian(DecodeSigned(bytes), w) = bytes
<1> DEFINE p == Power(Base, w)
           half == p \div 2
           bits == DecodeLittleEndian(bytes)
           v == IF 2 * bits >= p THEN bits - p ELSE bits
<1>1. p \in Nat \ {0} /\ half \in Nat /\ p = 2 * half /\ MaxOf(w) = p - 1
  BY Halves
<1>2. bits \in 0..(p - 1) /\ EncodeLittleEndian(bits, w) = bytes
  BY <1>1, BytesReadBack
<1>3. Len(bytes) = w
  BY FunctionIsSequence
<1>4. DecodeSigned(bytes) = v
  BY <1>3 DEF DecodeSigned
<1> HIDE DEF p, half, bits
<1>5. v \in (-half)..(half - 1) /\ (v = bits \/ v = bits - p)
  BY <1>1, <1>2
<1> HIDE DEF v
<1>6. v % p = bits /\ bits % p = bits
  BY <1>1, <1>2, <1>5, NegativeMod
<1>7. EncodeLittleEndian(v, w) = EncodeLittleEndian(bits, w)
  BY <1>6 DEF EncodeLittleEndian, p
<1> QED
  BY <1>2, <1>4, <1>5, <1>7 DEF p, half

FixedTypes == {"BOOLEAN", "INT32", "INT64", "FLOAT64", "DATE", "TIMESTAMP"}

SignedTypes == {"INT32", "INT64", "DATE", "TIMESTAMP"}

LEMMA Domains ==
    /\ ValueDomain("BOOLEAN") = BOOLEAN
    /\ ValueDomain("FLOAT64") = 0..MaxOf(PhysicalTypeWidth("FLOAT64"))
    /\ ValueDomain("VARCHAR") = Seq(Byte)
    /\ \A type \in SignedTypes :
          ValueDomain(type) = (-(Power(Base, PhysicalTypeWidth(type)) \div 2))
                                 ..((Power(Base, PhysicalTypeWidth(type)) \div 2) - 1)
<1>1. ASSUME NEW type \in SignedTypes
      PROVE  ValueDomain(type) = (-(Power(Base, PhysicalTypeWidth(type)) \div 2))
                                 ..((Power(Base, PhysicalTypeWidth(type)) \div 2) - 1)
  <2>1. type # "BOOLEAN" /\ type # "FLOAT64" /\ type # "VARCHAR" /\ type \in {"INT32", "INT64", "DATE", "TIMESTAMP"}
    BY DEF SignedTypes
  <2> QED
    BY <2>1 DEF ValueDomain
<1> QED
  BY <1>1 DEF ValueDomain

LEMMA ScalarReadBack ==
    ASSUME NEW type \in FixedTypes, NEW value \in {type} \X ValueDomain(type)
    PROVE  /\ EncodeFixedScalar(type, value) \in [1..PhysicalTypeWidth(type) -> Byte]
           /\ type = "BOOLEAN" => EncodeFixedScalar(type, value)[1] =< 1
           /\ DecodeFixedScalar(type, EncodeFixedScalar(type, value)) = value
<1>1. value = <<type, value[2]>> /\ value[2] \in ValueDomain(type)
  OBVIOUS
<1>2. type \in PhysicalType
  BY DEF FixedTypes, PhysicalType
<1>3. PhysicalTypeWidth(type) \in Nat \ {0}
  BY <1>2, TypeWidth
<1> DEFINE w == PhysicalTypeWidth(type)
<1>4. CASE type = "BOOLEAN"
  <2> DEFINE b == IF value[2] THEN 1 ELSE 0
  <2>1. w = 1 /\ value[2] \in BOOLEAN
    BY <1>1, <1>2, <1>4, TypeWidth, Domains
  <2>2. EncodeFixedScalar(type, value) = <<b>>
    BY <1>4 DEF EncodeFixedScalar
  <2>3. b \in Byte /\ b =< 1
    BY BaseIsPositive
  <2>4. <<b>> \in [1..1 -> Byte] /\ <<b>>[1] = b
    BY <2>3
  <2>5. DecodeFixedScalar(type, <<b>>) = <<type, b = 1>>
    BY <1>4, <2>4 DEF DecodeFixedScalar
  <2>6. (b = 1) = value[2]
    BY <2>1
  <2> QED
    BY <1>1, <2>1, <2>2, <2>3, <2>4, <2>5, <2>6
<1>5. CASE type = "FLOAT64"
  <2>1. value[2] \in 0..MaxOf(w)
    BY <1>1, <1>5, Domains
  <2>2. EncodeFixedScalar(type, value) = EncodeLittleEndian(value[2], w)
    BY <1>5 DEF EncodeFixedScalar
  <2>3. /\ EncodeLittleEndian(value[2], w) \in [1..w -> Byte]
        /\ DecodeLittleEndian(EncodeLittleEndian(value[2], w)) = value[2]
    <3> HIDE DEF w
    <3> QED
      BY <1>3, <2>1, ValueReadBack DEF w
  <2>4. DecodeFixedScalar(type, EncodeLittleEndian(value[2], w))
           = <<type, DecodeLittleEndian(EncodeLittleEndian(value[2], w))>>
    BY <1>5 DEF DecodeFixedScalar
  <2> HIDE DEF w
  <2> QED
    BY <1>1, <1>5, <2>2, <2>3, <2>4 DEF w
<1>6. CASE type \in SignedTypes
  <2>1. value[2] \in (-(Power(Base, w) \div 2))..((Power(Base, w) \div 2) - 1)
    BY <1>1, <1>6, Domains
  <2>2. type # "BOOLEAN" /\ type # "FLOAT64" /\ type \in {"INT32", "INT64", "DATE", "TIMESTAMP"}
    BY <1>6 DEF SignedTypes
  <2>3. EncodeFixedScalar(type, value) = EncodeLittleEndian(value[2], w)
    BY <2>2 DEF EncodeFixedScalar
  <2>4. /\ EncodeLittleEndian(value[2], w) \in [1..w -> Byte]
        /\ DecodeSigned(EncodeLittleEndian(value[2], w)) = value[2]
    <3> HIDE DEF w
    <3> QED
      BY <1>3, <2>1, SignedReadBack DEF w
  <2>5. DecodeFixedScalar(type, EncodeLittleEndian(value[2], w))
           = <<type, DecodeSigned(EncodeLittleEndian(value[2], w))>>
    BY <2>2 DEF DecodeFixedScalar
  <2> HIDE DEF w
  <2> QED
    BY <1>1, <2>2, <2>3, <2>4, <2>5 DEF w
<1> QED
  BY <1>4, <1>5, <1>6 DEF FixedTypes, SignedTypes

LEMMA ScalarBytes ==
    ASSUME NEW type \in FixedTypes, NEW bytes \in [1..PhysicalTypeWidth(type) -> Byte],
           type = "BOOLEAN" => bytes[1] =< 1
    PROVE  /\ DecodeFixedScalar(type, bytes) \in {type} \X ValueDomain(type)
           /\ EncodeFixedScalar(type, DecodeFixedScalar(type, bytes)) = bytes
<1>1. type \in PhysicalType
  BY DEF FixedTypes, PhysicalType
<1>2. PhysicalTypeWidth(type) \in Nat \ {0}
  BY <1>1, TypeWidth
<1> DEFINE w == PhysicalTypeWidth(type)
           value == DecodeFixedScalar(type, bytes)
<1>3. CASE type = "BOOLEAN"
  <2>1. w = 1
    BY <1>1, <1>3, TypeWidth
  <2>2. value = <<type, bytes[1] = 1>>
    BY <1>3 DEF DecodeFixedScalar
  <2>3. bytes[1] \in Byte /\ bytes[1] =< 1 /\ bytes \in [1..1 -> Byte]
    BY <1>3, <2>1
  <2>4. bytes[1] \in 0..1
    BY <2>3, BaseIsPositive
  <2>5. ValueDomain(type) = BOOLEAN
    BY <1>3, Domains
  <2>6. CASE bytes[1] = 1
    <3>1. (bytes[1] = 1) = TRUE
      BY <2>6
    <3>2. value = <<type, TRUE>>
      BY <2>2, <3>1, Zenon
    <3>3. EncodeFixedScalar(type, value) = <<IF value[2] THEN 1 ELSE 0>>
      BY <1>3 DEF EncodeFixedScalar
    <3> HIDE DEF value
    <3>4. value \in {type} \X BOOLEAN /\ value[2] = TRUE
      BY <3>2
    <3>5. (IF value[2] THEN 1 ELSE 0) = 1
      BY <3>4
    <3>6. <<1>> \in [1..1 -> Byte] /\ \A k \in 1..1 : <<1>>[k] = bytes[k]
      BY <2>3, <2>6
    <3>7. <<1>> = bytes
      BY <2>3, <3>6, SameBytes
    <3>8. EncodeFixedScalar(type, value) = bytes
      BY <3>3, <3>5, <3>7, Zenon
    <3>9. value \in {type} \X ValueDomain(type)
      BY <2>5, <3>4, Zenon
    <3> QED
      BY <3>8, <3>9 DEF value
  <2>7. CASE bytes[1] = 0
    <3>1. (bytes[1] = 1) = FALSE
      BY <2>7
    <3>2. value = <<type, FALSE>>
      BY <2>2, <3>1, Zenon
    <3>3. EncodeFixedScalar(type, value) = <<IF value[2] THEN 1 ELSE 0>>
      BY <1>3 DEF EncodeFixedScalar
    <3> HIDE DEF value
    <3>4. value \in {type} \X BOOLEAN /\ value[2] = FALSE
      BY <3>2
    <3>5. (IF value[2] THEN 1 ELSE 0) = 0
      BY <3>4
    <3>6. <<0>> \in [1..1 -> Byte] /\ \A k \in 1..1 : <<0>>[k] = bytes[k]
      BY <2>3, <2>7
    <3>7. <<0>> = bytes
      BY <2>3, <3>6, SameBytes
    <3>8. EncodeFixedScalar(type, value) = bytes
      BY <3>3, <3>5, <3>7, Zenon
    <3>9. value \in {type} \X ValueDomain(type)
      BY <2>5, <3>4, Zenon
    <3> QED
      BY <3>8, <3>9 DEF value
  <2> QED
    BY <2>4, <2>6, <2>7
<1>4. CASE type = "FLOAT64"
  <2>1. value = <<type, DecodeLittleEndian(bytes)>>
    BY <1>4 DEF DecodeFixedScalar
  <2>2. /\ DecodeLittleEndian(bytes) \in 0..MaxOf(w)
        /\ EncodeLittleEndian(DecodeLittleEndian(bytes), w) = bytes
    <3> HIDE DEF w
    <3> QED
      BY <1>2, BytesReadBack DEF w
  <2>3. EncodeFixedScalar(type, value) = EncodeLittleEndian(value[2], w)
    BY <1>4 DEF EncodeFixedScalar
  <2>4. DecodeLittleEndian(bytes) \in ValueDomain(type)
    BY <1>4, <2>2, Domains
  <2> HIDE DEF w, value
  <2>5. value[2] = DecodeLittleEndian(bytes) /\ value \in {type} \X ValueDomain(type)
    BY <2>1, <2>4
  <2> QED
    BY <2>2, <2>3, <2>5 DEF w, value
<1>5. CASE type \in SignedTypes
  <2>1. type # "BOOLEAN" /\ type # "FLOAT64" /\ type \in {"INT32", "INT64", "DATE", "TIMESTAMP"}
    BY <1>5 DEF SignedTypes
  <2>2. value = <<type, DecodeSigned(bytes)>>
    BY <2>1 DEF DecodeFixedScalar
  <2>3. /\ DecodeSigned(bytes) \in (-(Power(Base, w) \div 2))..((Power(Base, w) \div 2) - 1)
        /\ EncodeLittleEndian(DecodeSigned(bytes), w) = bytes
    <3> HIDE DEF w
    <3> QED
      BY <1>2, SignedBytes DEF w
  <2>4. EncodeFixedScalar(type, value) = EncodeLittleEndian(value[2], w)
    BY <2>1 DEF EncodeFixedScalar
  <2>5. DecodeSigned(bytes) \in ValueDomain(type)
    BY <1>5, <2>3, Domains
  <2> HIDE DEF w, value
  <2>6. value[2] = DecodeSigned(bytes) /\ value \in {type} \X ValueDomain(type)
    BY <2>2, <2>5
  <2> QED
    BY <2>3, <2>4, <2>6 DEF w, value
<1> QED
  BY <1>3, <1>4, <1>5 DEF FixedTypes, SignedTypes

(* A record that was read from bytes, written back. *)
ReadFrom(fields, record, page) == \A f \in DOMAIN fields : record[f] = DecodeFields(fields, page)[f]

LEMMA RestoredAt ==
    ASSUME NEW fields, NEW n \in Nat, Tiles(fields, 0, n),
           NEW m \in Nat, n \in 0..m, NEW page \in [1..m -> Byte],
           NEW record, ReadFrom(fields, record, page),
           NEW l \in Nat, n \in 0..l, NEW bytes \in [1..l -> Byte], NEW k \in 1..n
    PROVE  EncodeFields(fields, record, bytes)[k] = page[k]
<1>1. IsTable(fields, n) /\ \A j \in 1..n : Covered(fields, j) <=> j > 0
  BY DEF Tiles
<1>2. Covered(fields, k) /\ k \in 1..l
  BY <1>1
<1>3. \A f \in DOMAIN fields : record[f] = DecodeFields(fields, page)[f]
  BY DEF ReadFrom
<1> QED
  BY <1>1, <1>2, <1>3, FieldsRestored

-----------------------------------------------------------------------------
(* Descriptors. *)

LEMMA DescriptorRoom == WordSize \in Nat \ {0} /\ 2 * WordSize \in Nat \ {0} /\ MaxOf(WordSize) \in Nat
<1>1. WordSize \in Nat \ {0}
  BY EncodingAssumption
<1> QED
  BY <1>1, MaxOfNat

LEMMA DescriptorNames ==
    /\ DOMAIN DescriptorFields = {"payload_offset", "payload_length"}
    /\ DescriptorFields["payload_offset"] = <<0, WordSize>>
    /\ DescriptorFields["payload_length"] = <<WordSize, WordSize>>
BY DEF DescriptorFields

LEMMA DecodedDescriptor ==
    ASSUME NEW bytes, NEW offset, NEW length,
           DecodeFields(DescriptorFields, bytes)["payload_offset"] = offset,
           DecodeFields(DescriptorFields, bytes)["payload_length"] = length
    PROVE  DecodeVarcharDescriptor(bytes) = [payload_offset |-> offset, payload_length |-> length]
<1> DEFINE d == DecodeFields(DescriptorFields, bytes)
<1>1. d = [f \in {"payload_offset", "payload_length"} |-> d[f]]
  BY DescriptorNames DEF DecodeFields
<1> HIDE DEF d
<1>2. d["payload_offset"] = offset /\ d["payload_length"] = length
  BY DEF d
<1>3. d = [payload_offset |-> offset, payload_length |-> length]
  BY <1>1, <1>2
<1> QED
  BY <1>3 DEF d, DecodeVarcharDescriptor

IsImageOf(bytes, fields, record, n) ==
    /\ bytes \in [1..n -> Byte]
    /\ \E empty \in [1..n -> Byte] : bytes = EncodeFields(fields, record, empty)

LEMMA WholeReadBack ==
    ASSUME NEW fields, NEW n \in Nat, IsTable(fields, n), NEW record, NEW bytes,
           IsImageOf(bytes, fields, record, n),
           NEW f \in DOMAIN fields, record[f] \in 0..MaxOf(fields[f][2])
    PROVE  DecodeFields(fields, bytes)[f] = record[f]
<1>1. PICK empty \in [1..n -> Byte] : bytes = EncodeFields(fields, record, empty)
  BY DEF IsImageOf
<1>2. \A k \in 1..n : Covers(fields[f], k) => bytes[k] = EncodeFields(fields, record, empty)[k]
  BY <1>1
<1>3. bytes \in [1..n -> Byte] /\ n =< n
  BY DEF IsImageOf
<1> QED
  BY <1>2, <1>3, FieldReadBack

LEMMA DescriptorReadBack ==
    ASSUME NEW offset \in 0..MaxOf(WordSize), NEW length \in 0..MaxOf(WordSize)
    PROVE  /\ EncodeVarcharDescriptor(offset, length) \in [1..(2 * WordSize) -> Byte]
           /\ DecodeVarcharDescriptor(EncodeVarcharDescriptor(offset, length))
                 = [payload_offset |-> offset, payload_length |-> length]
<1> DEFINE n == 2 * WordSize
           d == [payload_offset |-> offset, payload_length |-> length]
           bytes == EncodeFields(DescriptorFields, d, Zeroes(n))
<1>1. n \in Nat /\ Zeroes(n) \in [1..n -> Byte] /\ MaxOf(WordSize) \in Nat
  BY DescriptorRoom, ZeroesType
<1>2. IsTable(DescriptorFields, n)
  BY DescriptorTable DEF Tiles
<1>3. /\ d["payload_offset"] = offset /\ d["payload_length"] = length
      /\ d["payload_offset"] \in 0..MaxOf(DescriptorFields["payload_offset"][2])
      /\ d["payload_length"] \in 0..MaxOf(DescriptorFields["payload_length"][2])
  BY DescriptorNames
<1>4. \A f \in DOMAIN DescriptorFields : d[f] \in Int
  BY <1>1, <1>3, DescriptorNames
<1> HIDE DEF n, d
<1>5. bytes \in [1..n -> Byte]
  BY <1>1, <1>2, <1>4, EncodedType
<1>6. IsImageOf(bytes, DescriptorFields, d, n)
  BY <1>1, <1>5 DEF IsImageOf
<1> HIDE DEF bytes
<1>7. "payload_offset" \in DOMAIN DescriptorFields /\ "payload_length" \in DOMAIN DescriptorFields
  BY DescriptorNames
<1>8. DecodeFields(DescriptorFields, bytes)["payload_offset"] = d["payload_offset"]
  <2>1. d["payload_offset"] \in 0..MaxOf(DescriptorFields["payload_offset"][2])
    BY <1>3
  <2> QED
    BY <1>1, <1>2, <1>6, <1>7, <2>1, WholeReadBack
<1>9. DecodeFields(DescriptorFields, bytes)["payload_length"] = d["payload_length"]
  <2>1. d["payload_length"] \in 0..MaxOf(DescriptorFields["payload_length"][2])
    BY <1>3
  <2> QED
    BY <1>1, <1>2, <1>6, <1>7, <2>1, WholeReadBack
<1>10. DecodeVarcharDescriptor(bytes) = [payload_offset |-> offset, payload_length |-> length]
  BY <1>3, <1>8, <1>9, DecodedDescriptor
<1>11. bytes = EncodeVarcharDescriptor(offset, length)
  BY DEF bytes, n, d, EncodeVarcharDescriptor
<1> QED
  BY <1>5, <1>10, <1>11 DEF n

LEMMA RestoredFields ==
    ASSUME NEW fields, NEW n \in Nat, Tiles(fields, 0, n), NEW page \in [1..n -> Byte],
           NEW record, ReadFrom(fields, record, page), HoldsIntegers(fields, record)
    PROVE  EncodeFields(fields, record, Zeroes(n)) = page
<1>1. Zeroes(n) \in [1..n -> Byte] /\ n \in 0..n
  BY ZeroesType
<1>2. IsTable(fields, n) /\ \A f \in DOMAIN fields : record[f] \in Int
  BY DEF Tiles, HoldsIntegers
<1>3. EncodeFields(fields, record, Zeroes(n)) \in [1..n -> Byte]
  BY <1>1, <1>2, EncodedType
<1>4. ASSUME NEW k \in 1..n PROVE EncodeFields(fields, record, Zeroes(n))[k] = page[k]
  BY <1>1, <1>4, RestoredAt
<1> QED
  BY <1>3, <1>4, SameBytes

LEMMA DescriptorBytes ==
    ASSUME NEW bytes \in [1..(2 * WordSize) -> Byte]
    PROVE  /\ DecodeVarcharDescriptor(bytes).payload_offset \in 0..MaxOf(WordSize)
           /\ DecodeVarcharDescriptor(bytes).payload_length \in 0..MaxOf(WordSize)
           /\ EncodeVarcharDescriptor(DecodeVarcharDescriptor(bytes).payload_offset,
                                      DecodeVarcharDescriptor(bytes).payload_length) = bytes
<1> DEFINE d == DecodeFields(DescriptorFields, bytes)
           offset == d["payload_offset"]
           length == d["payload_length"]
           r == [payload_offset |-> offset, payload_length |-> length]
<1>1. 2 * WordSize \in Nat /\ 2 * WordSize =< 2 * WordSize
  BY DescriptorRoom
<1>2. IsTable(DescriptorFields, 2 * WordSize)
  BY DescriptorTable DEF Tiles
<1>3. "payload_offset" \in DOMAIN DescriptorFields /\ "payload_length" \in DOMAIN DescriptorFields
  BY DescriptorNames
<1>5. /\ offset \in 0..MaxOf(DescriptorFields["payload_offset"][2])
      /\ length \in 0..MaxOf(DescriptorFields["payload_length"][2])
  BY <1>1, <1>2, <1>3, DecodedType
<1>6. offset \in 0..MaxOf(WordSize) /\ length \in 0..MaxOf(WordSize)
  BY <1>5, DescriptorNames
<1>7. MaxOf(WordSize) \in Nat
  BY DescriptorRoom
<1>8. ReadFrom(DescriptorFields, r, bytes)
  BY DescriptorNames DEF ReadFrom
<1>9. HoldsIntegers(DescriptorFields, r)
  <2> HIDE DEF offset, length, d
  <2> QED
    BY <1>6, <1>7, DescriptorNames DEF HoldsIntegers
<1> HIDE DEF offset, length, d
<1>10. EncodeFields(DescriptorFields, r, Zeroes(2 * WordSize)) = bytes
  <2> HIDE DEF r
  <2> QED
    BY <1>1, <1>8, <1>9, DescriptorTable, RestoredFields
<1>11. EncodeVarcharDescriptor(offset, length) = bytes
  BY <1>10 DEF EncodeVarcharDescriptor
<1>12. /\ DecodeVarcharDescriptor(bytes).payload_offset = offset
       /\ DecodeVarcharDescriptor(bytes).payload_length = length
  BY DEF d, offset, length, DecodeVarcharDescriptor
<1> QED
  BY <1>6, <1>11, <1>12

LEMMA ZeroSpan ==
    ASSUME NEW n \in Nat, NEW offset \in Nat, NEW count \in Nat, offset + count =< n
    PROVE  Subspan(Zeroes(n), offset, count) = Zeroes(count)
<1>1. Zeroes(n) \in [1..n -> Byte] /\ \A k \in 1..n : Zeroes(n)[k] = 0
  BY ZeroesType
<1>2. Zeroes(count) \in [1..count -> Byte] /\ \A k \in 1..count : Zeroes(count)[k] = 0
  BY ZeroesType
<1>3. /\ Subspan(Zeroes(n), offset, count) \in [1..count -> Byte]
      /\ \A k \in 1..count : Subspan(Zeroes(n), offset, count)[k] = Zeroes(n)[offset + k]
  BY <1>1, SubspanAt
<1>4. ASSUME NEW k \in 1..count PROVE Subspan(Zeroes(n), offset, count)[k] = Zeroes(count)[k]
  <2>1. offset + k \in 1..n
    OBVIOUS
  <2> QED
    BY <1>1, <1>2, <1>3, <2>1
<1> QED
  BY <1>2, <1>3, <1>4, SameBytes

(* The zero descriptor. *)
LEMMA ZeroDescriptor ==
    /\ DecodeVarcharDescriptor(Zeroes(2 * WordSize)) = [payload_offset |-> 0, payload_length |-> 0]
    /\ \A bytes \in [1..(2 * WordSize) -> Byte] :
          DecodeVarcharDescriptor(bytes) = [payload_offset |-> 0, payload_length |-> 0]
             => bytes = Zeroes(2 * WordSize)
<1> DEFINE n == 2 * WordSize
           zero == EncodeVarcharDescriptor(0, 0)
<1>1. n \in Nat /\ Zeroes(n) \in [1..n -> Byte] /\ 0 \in 0..MaxOf(WordSize)
  BY DescriptorRoom, ZeroesType
<1>2. EncodeVarcharDescriptor(0, 0) = Zeroes(n)
  <2> DEFINE d == [payload_offset |-> 0, payload_length |-> 0]
             bytes == EncodeFields(DescriptorFields, d, Zeroes(n))
  <2>1. WordSize \in Nat /\ n = 2 * WordSize
    BY DescriptorRoom
  <2>6. Subspan(Zeroes(n), 0, WordSize) = Zeroes(WordSize)
    <3>1. 0 \in Nat /\ 0 + WordSize =< n
      BY <2>1
    <3> HIDE DEF n
    <3> QED
      BY <1>1, <2>1, <3>1, ZeroSpan
  <2>7. Subspan(Zeroes(n), WordSize, WordSize) = Zeroes(WordSize)
    <3>1. WordSize + WordSize =< n
      BY <2>1
    <3> HIDE DEF n
    <3> QED
      BY <1>1, <2>1, <3>1, ZeroSpan
  <2>8. /\ DecodeFields(DescriptorFields, Zeroes(n))["payload_offset"] = 0
        /\ DecodeFields(DescriptorFields, Zeroes(n))["payload_length"] = 0
    <3>1. /\ DecodeFields(DescriptorFields, Zeroes(n))["payload_offset"]
                = DecodeLittleEndian(Subspan(Zeroes(n), 0, WordSize))
          /\ DecodeFields(DescriptorFields, Zeroes(n))["payload_length"]
                = DecodeLittleEndian(Subspan(Zeroes(n), WordSize, WordSize))
      <4> HIDE DEF n
      <4> QED
        BY DescriptorNames DEF DecodeFields
    <3>2. DecodeLittleEndian(Zeroes(WordSize)) = 0
      BY <2>1, ZeroDecodes
    <3> HIDE DEF n
    <3> QED
      BY <2>6, <2>7, <3>1, <3>2
  <2>9. /\ DecodeVarcharDescriptor(Zeroes(n)).payload_offset = 0
        /\ DecodeVarcharDescriptor(Zeroes(n)).payload_length = 0
    <3> HIDE DEF n
    <3> QED
      BY <2>8 DEF DecodeVarcharDescriptor
  <2>10. EncodeVarcharDescriptor(DecodeVarcharDescriptor(Zeroes(n)).payload_offset,
                                 DecodeVarcharDescriptor(Zeroes(n)).payload_length) = Zeroes(n)
    BY <1>1, DescriptorBytes
  <2> QED
    BY <2>9, <2>10
<1>3. DecodeVarcharDescriptor(EncodeVarcharDescriptor(0, 0)) = [payload_offset |-> 0, payload_length |-> 0]
  BY <1>1, DescriptorReadBack
<1>4. ASSUME NEW bytes \in [1..n -> Byte],
             DecodeVarcharDescriptor(bytes) = [payload_offset |-> 0, payload_length |-> 0]
      PROVE  bytes = Zeroes(n)
  <2>1. /\ DecodeVarcharDescriptor(bytes).payload_offset = 0
        /\ DecodeVarcharDescriptor(bytes).payload_length = 0
    BY <1>4
  <2>2. EncodeVarcharDescriptor(DecodeVarcharDescriptor(bytes).payload_offset,
                                DecodeVarcharDescriptor(bytes).payload_length) = bytes
    BY DescriptorBytes
  <2> QED
    BY <1>2, <2>1, <2>2
<1> QED
  BY <1>2, <1>3, <1>4

-----------------------------------------------------------------------------
(* Headers. *)

(* A header whose fields have their widths. *)
IsHeader(header) ==
    /\ DOMAIN header = DOMAIN HeaderFields
    /\ header = [f \in DOMAIN HeaderFields |-> header[f]]
    /\ \A f \in DOMAIN HeaderFields : header[f] \in 0..MaxOf(HeaderFields[f][2])

LEMMA HeaderWidths ==
    ASSUME NEW f \in DOMAIN HeaderFields
    PROVE  HeaderFields[f][2] \in Nat /\ MaxOf(HeaderFields[f][2]) \in Nat
<1>1. HeaderFields[f][2] \in Nat
  BY HeaderTable DEF Tiles, IsTable
<1> QED
  BY <1>1, MaxOfNat

LEMMA HeaderIntegers ==
    ASSUME NEW header, IsHeader(header)
    PROVE  HoldsIntegers(HeaderFields, header)
<1>1. ASSUME NEW f \in DOMAIN HeaderFields PROVE header[f] \in Int
  BY HeaderWidths DEF IsHeader
<1> QED
  BY <1>1 DEF HoldsIntegers

LEMMA HeaderEncoded ==
    ASSUME NEW header, IsHeader(header)
    PROVE  EncodeTupleHeader(header) \in [1..HeaderSize -> Byte]
<1>1. HeaderSize \in Nat
  BY HeaderRoom
<1>2. Zeroes(HeaderSize) \in [1..HeaderSize -> Byte]
  BY <1>1, ZeroesType
<1>3. IsTable(HeaderFields, HeaderSize) /\ \A f \in DOMAIN HeaderFields : header[f] \in Int
  BY HeaderTable, HeaderIntegers DEF Tiles, HoldsIntegers
<1> QED
  BY <1>1, <1>2, <1>3, EncodedType DEF EncodeTupleHeader

LEMMA HeaderReadBack ==
    ASSUME NEW header, IsHeader(header),
           NEW m \in Nat, HeaderSize =< m, NEW bytes \in [1..m -> Byte],
           \A k \in 1..HeaderSize : bytes[k] = EncodeTupleHeader(header)[k]
    PROVE  DecodeTupleHeader(bytes) = header
<1>1. HeaderSize \in Nat /\ HeaderSize =< HeaderSize
  BY HeaderRoom
<1>2. Zeroes(HeaderSize) \in [1..HeaderSize -> Byte]
  BY <1>1, ZeroesType
<1>3. IsTable(HeaderFields, HeaderSize)
  BY HeaderTable DEF Tiles
<1>4. ASSUME NEW f \in DOMAIN HeaderFields
      PROVE  DecodeFields(HeaderFields, bytes)[f] = header[f]
  <2>1. header[f] \in 0..MaxOf(HeaderFields[f][2])
    BY DEF IsHeader
  <2>2. \A k \in 1..HeaderSize : Covers(HeaderFields[f], k)
           => bytes[k] = EncodeFields(HeaderFields, header, Zeroes(HeaderSize))[k]
    BY DEF EncodeTupleHeader
  <2> QED
    BY <1>1, <1>2, <1>3, <2>1, <2>2, FieldReadBack
<1>5. DecodeFields(HeaderFields, bytes) = [f \in DOMAIN HeaderFields |-> DecodeFields(HeaderFields, bytes)[f]]
  BY DEF DecodeFields
<1>6. header = [f \in DOMAIN HeaderFields |-> header[f]]
  BY DEF IsHeader
<1> QED
  BY <1>4, <1>5, <1>6 DEF DecodeTupleHeader

LEMMA HeaderBytes ==
    ASSUME NEW m \in Nat, HeaderSize =< m, NEW bytes \in [1..m -> Byte]
    PROVE  /\ IsHeader(DecodeTupleHeader(bytes))
           /\ \A k \in 1..HeaderSize : EncodeTupleHeader(DecodeTupleHeader(bytes))[k] = bytes[k]
<1> DEFINE header == DecodeTupleHeader(bytes)
<1>1. HeaderSize \in Nat /\ HeaderSize \in 0..m /\ HeaderSize \in 0..HeaderSize
  BY HeaderRoom
<1>2. Zeroes(HeaderSize) \in [1..HeaderSize -> Byte]
  BY <1>1, ZeroesType
<1>3. IsTable(HeaderFields, HeaderSize)
  BY HeaderTable DEF Tiles
<1>4. \A f \in DOMAIN HeaderFields : DecodeFields(HeaderFields, bytes)[f] \in 0..MaxOf(HeaderFields[f][2])
  BY <1>1, <1>3, DecodedType
<1>5. DOMAIN header = DOMAIN HeaderFields /\ header = [f \in DOMAIN HeaderFields |-> header[f]]
  BY DEF DecodeTupleHeader, DecodeFields
<1>6. IsHeader(header)
  BY <1>4, <1>5 DEF IsHeader, DecodeTupleHeader
<1>7. ReadFrom(HeaderFields, header, bytes)
  BY DEF ReadFrom, DecodeTupleHeader
<1> HIDE DEF header
<1>8. ASSUME NEW k \in 1..HeaderSize
      PROVE  EncodeFields(HeaderFields, header, Zeroes(HeaderSize))[k] = bytes[k]
  BY <1>1, <1>2, <1>7, <1>8, HeaderTable, RestoredAt
<1> QED
  BY <1>6, <1>8 DEF header, EncodeTupleHeader

-----------------------------------------------------------------------------
(* The null bitmap. *)

LEMMA SameBitList ==
    ASSUME NEW d \in [1..ByteBits -> 0..1], NEW e \in [1..ByteBits -> 0..1],
           \A bit \in 1..ByteBits : d[bit] = e[bit]
    PROVE  d = e
<1>1. d = [bit \in 1..ByteBits |-> d[bit]] /\ e = [bit \in 1..ByteBits |-> e[bit]]
  OBVIOUS
<1>2. [bit \in 1..ByteBits |-> d[bit]] = [bit \in 1..ByteBits |-> e[bit]]
  OBVIOUS
<1> QED
  BY <1>1, <1>2

LEMMA OneChanged ==
    ASSUME NEW S, NEW T, NEW f \in [S -> T], NEW x \in S, NEW v \in T
    PROVE  /\ [f EXCEPT ![x] = v] \in [S -> T]
           /\ \A y \in S : [f EXCEPT ![x] = v][y] = IF y = x THEN v ELSE f[y]
OBVIOUS

LEMMA BitsReadBack ==
    ASSUME NEW d \in [1..ByteBits -> 0..1]
    PROVE  Number(d, 2) \in Byte /\ Bits(Number(d, 2)) = d
<1>1. ByteBits \in Nat /\ 2 \in Nat \ {0} /\ 0..(2 - 1) = 0..1
  BY EncodingAssumption
<1>2. Number(d, 2) \in 0..(Power(2, ByteBits) - 1) /\ Digits(Number(d, 2), 2, ByteBits) = d
  BY <1>1, DigitsOfNumber
<1> QED
  BY <1>2 DEF Bits, Byte, Base

LEMMA BitsType ==
    ASSUME NEW byte \in Byte
    PROVE  Bits(byte) \in [1..ByteBits -> 0..1] /\ Number(Bits(byte), 2) = byte
<1>1. ByteBits \in Nat /\ 2 \in Nat \ {0} /\ 0..(2 - 1) = 0..1
  BY EncodingAssumption
<1>2. byte \in 0..(Power(2, ByteBits) - 1)
  BY DEF Byte, Base
<1>3. /\ Digits(byte, 2, ByteBits) \in [1..ByteBits -> 0..(2 - 1)]
      /\ Number(Digits(byte, 2, ByteBits), 2) = byte
  BY <1>1, <1>2, NumberOfDigits
<1> QED
  BY <1>1, <1>3 DEF Bits

LEMMA SameByte ==
    ASSUME NEW a \in Byte, NEW b \in Byte, \A bit \in 1..ByteBits : Bits(a)[bit] = Bits(b)[bit]
    PROVE  a = b
<1>1. /\ Bits(a) \in [1..ByteBits -> 0..1] /\ Number(Bits(a), 2) = a
      /\ Bits(b) \in [1..ByteBits -> 0..1] /\ Number(Bits(b), 2) = b
  BY BitsType
<1>2. Bits(a) = Bits(b)
  BY <1>1, SameBitList, Zenon
<1> QED
  BY <1>1, <1>2

LEMMA ZeroBits ==
    /\ 0 \in Byte
    /\ \A bit \in 1..ByteBits : Bits(0)[bit] = 0
<1>1. ByteBits \in Nat /\ 2 \in Nat \ {0} /\ 0 \in 0..ByteBits
  BY EncodingAssumption
<1>2. 0 < Power(2, 0)
  BY PowerSteps
<1>3. ASSUME NEW bit \in 1..ByteBits PROVE Bits(0)[bit] = 0
  <2>1. bit \in (0 + 1)..ByteBits
    OBVIOUS
  <2>2. Digits(0, 2, ByteBits)[bit] = 0
    BY <1>1, <1>2, <2>1, DigitsBeyond
  <2> QED
    BY <2>2 DEF Bits
<1> QED
  BY <1>3, BaseIsPositive

(* The bit of a column, and the column of a bit. *)
LEMMA BitPlace ==
    ASSUME NEW i \in Nat \ {0}
    PROVE  /\ BitmapByte(i) \in Nat \ {0} /\ NullBit(i) \in 1..ByteBits
           /\ (BitmapByte(i) - 1) * ByteBits + NullBit(i) = i
<1>1. i - 1 \in Nat /\ ByteBits \in Nat \ {0}
  BY EncodingAssumption
<1> DEFINE q == (i - 1) \div ByteBits
           r == (i - 1) % ByteBits
<1>2. q \in Nat /\ r \in 0..(ByteBits - 1) /\ i - 1 = q * ByteBits + r
  BY <1>1, DivMod
<1>3. BitmapByte(i) = q + 1 /\ NullBit(i) = r + 1
  BY DEF BitmapByte, NullBit
<1> HIDE DEF q, r
<1>4. q + 1 \in Nat \ {0} /\ r + 1 \in 1..ByteBits /\ (q + 1) - 1 = q
  BY <1>1, <1>2
<1>5. q * ByteBits \in Nat
  BY <1>1, <1>2
<1>6. q * ByteBits + (r + 1) = i
  BY <1>1, <1>2, <1>5
<1> QED
  BY <1>3, <1>4, <1>6

LEMMA PlaceOfBit ==
    ASSUME NEW b \in Nat \ {0}, NEW bit \in 1..ByteBits
    PROVE  /\ (b - 1) * ByteBits + bit \in Nat \ {0}
           /\ BitmapByte((b - 1) * ByteBits + bit) = b
           /\ NullBit((b - 1) * ByteBits + bit) = bit
<1>1. b - 1 \in Nat /\ bit - 1 \in 0..(ByteBits - 1) /\ ByteBits \in Nat \ {0}
  BY EncodingAssumption
<1> DEFINE p == (b - 1) * ByteBits
<1>2. p \in Nat
  BY <1>1
<1>3. (p + (bit - 1)) \div ByteBits = b - 1 /\ (p + (bit - 1)) % ByteBits = bit - 1
  BY <1>1, DivModUnique
<1> HIDE DEF p
<1>4. p + bit \in Nat \ {0} /\ (p + bit) - 1 = p + (bit - 1)
  BY <1>1, <1>2
<1>5. /\ BitmapByte(p + bit) = (((p + bit) - 1) \div ByteBits) + 1
      /\ NullBit(p + bit) = (((p + bit) - 1) % ByteBits) + 1
  BY DEF BitmapByte, NullBit
<1>6. BitmapByte(p + bit) = (b - 1) + 1 /\ NullBit(p + bit) = (bit - 1) + 1
  BY <1>3, <1>4, <1>5
<1>7. BitmapByte(p + bit) = b /\ NullBit(p + bit) = bit
  BY <1>6
<1> QED
  BY <1>4, <1>7 DEF p

(* The bitmap has a bit for every column; the bits beyond are in its last byte. *)
LEMMA BitmapEnds ==
    ASSUME NEW count \in Nat, NEW b \in Nat \ {0}, NEW bit \in 1..ByteBits
    PROVE  /\ (b - 1) * ByteBits + bit =< count => b =< NullBitmapBytes(count)
           /\ b =< NullBitmapBytes(count) /\ (b - 1) * ByteBits + bit > count
                 => /\ count % ByteBits # 0 /\ b = NullBitmapBytes(count)
                    /\ bit \in ((count % ByteBits) + 1)..ByteBits
<1> DEFINE q == count \div ByteBits
           r == count % ByteBits
           n == NullBitmapBytes(count)
           a == b - 1
<1>1. ByteBits \in Nat \ {0} /\ a \in Nat /\ b = a + 1
  BY EncodingAssumption
<1>2. /\ q \in Nat /\ r \in 0..(ByteBits - 1) /\ count = q * ByteBits + r
      /\ n = IF r # 0 THEN q + 1 ELSE q
  BY BitmapSize
<1> HIDE DEF q, r, n, a
<1> DEFINE c == ByteBits
<1>3. c \in Nat \ {0} /\ r \in 0..(c - 1) /\ bit \in 1..c /\ count = q * c + r
  BY <1>1, <1>2
<1>10. a * c \in Nat /\ q * c \in Nat
  BY <1>1, <1>2, <1>3
<1>4. a > q => a * c >= q * c + c
  <2> SUFFICES ASSUME a > q PROVE a * c >= q * c + c
    OBVIOUS
  <2>1. PICK e \in Nat : a = q + 1 + e
    <3>1. a - q - 1 \in Nat /\ a = q + 1 + (a - q - 1)
      BY <1>1, <1>2
    <3> QED
      BY <3>1
  <2>2. a * c = q * c + c + e * c
    BY <2>1, <1>2, <1>3, Z3
  <2>3. e * c \in Nat
    BY <2>1, <1>3
  <2> HIDE DEF c
  <2> QED
    BY <1>3, <1>10, <2>2, <2>3
<1>5. a < q => q * c >= a * c + c
  <2> SUFFICES ASSUME a < q PROVE q * c >= a * c + c
    OBVIOUS
  <2>1. PICK e \in Nat : q = a + 1 + e
    <3>1. q - a - 1 \in Nat /\ q = a + 1 + (q - a - 1)
      BY <1>1, <1>2
    <3> QED
      BY <3>1
  <2>2. q * c = a * c + c + e * c
    BY <2>1, <1>1, <1>3, Z3
  <2>3. e * c \in Nat
    BY <2>1, <1>3
  <2> HIDE DEF c
  <2> QED
    BY <1>3, <1>10, <2>2, <2>3
<1> DEFINE ac == a * c
           qc == q * c
<1>6. /\ ac \in Nat /\ qc \in Nat /\ (a > q => ac >= qc + c) /\ (a < q => qc >= ac + c)
      /\ (a = q => ac = qc) /\ count = qc + r
  BY <1>3, <1>10, <1>4, <1>5
<1> HIDE DEF ac, qc, c
<1>7. ac + bit =< count => b =< n
  BY <1>1, <1>2, <1>3, <1>6
<1>8. b =< n /\ ac + bit > count => r # 0 /\ b = n /\ bit \in (r + 1)..c
  BY <1>1, <1>2, <1>3, <1>6
<1>9. (b - 1) * ByteBits = ac
  BY DEF ac, a, c
<1> QED
  BY <1>7, <1>8, <1>9 DEF r, n, c

LEMMA SetNullAt ==
    ASSUME NEW size \in Nat, NEW bitmap \in [1..size -> Byte],
           NEW i \in Nat \ {0}, BitmapByte(i) \in 1..size
    PROVE  /\ SetNull(bitmap, i) \in [1..size -> Byte]
           /\ \A b \in 1..size, bit \in 1..ByteBits :
                 Bits(SetNull(bitmap, i)[b])[bit]
                    = IF (b - 1) * ByteBits + bit = i THEN 1 ELSE Bits(bitmap[b])[bit]
<1> DEFINE home == BitmapByte(i)
           place == NullBit(i)
           bits == [Bits(bitmap[home]) EXCEPT ![place] = 1]
<1>1. /\ place \in 1..ByteBits /\ (home - 1) * ByteBits + place = i
      /\ home \in Nat \ {0}
  BY BitPlace
<1>2. bitmap[home] \in Byte
  OBVIOUS
<1>3. Bits(bitmap[home]) \in [1..ByteBits -> 0..1]
  BY <1>2, BitsType
<1>4. /\ bits \in [1..ByteBits -> 0..1]
      /\ \A bit \in 1..ByteBits : bits[bit] = IF bit = place THEN 1 ELSE Bits(bitmap[home])[bit]
  <2> DEFINE old == Bits(bitmap[home])
  <2>1. old \in [1..ByteBits -> 0..1] /\ 1 \in 0..1
    BY <1>3
  <2> HIDE DEF old, place
  <2>2. /\ [old EXCEPT ![place] = 1] \in [1..ByteBits -> 0..1]
        /\ \A bit \in 1..ByteBits : [old EXCEPT ![place] = 1][bit] = IF bit = place THEN 1 ELSE old[bit]
    BY <1>1, <2>1, OneChanged
  <2> QED
    BY <2>2 DEF old
<1>5. Number(bits, 2) \in Byte /\ Bits(Number(bits, 2)) = bits
  <2> HIDE DEF bits
  <2> QED
    BY <1>4, BitsReadBack
<1>6. SetNull(bitmap, i) = [bitmap EXCEPT ![home] = Number(bits, 2)]
  BY DEF SetNull
<1> HIDE DEF bits
<1>8. SetNull(bitmap, i) \in [1..size -> Byte]
  BY <1>5, <1>6
<1>9. ASSUME NEW b \in 1..size, NEW bit \in 1..ByteBits
      PROVE  Bits(SetNull(bitmap, i)[b])[bit]
                = IF (b - 1) * ByteBits + bit = i THEN 1 ELSE Bits(bitmap[b])[bit]
  <2>1. (b - 1) * ByteBits + bit = i => b = home /\ bit = place
    <3>1. b \in Nat \ {0}
      OBVIOUS
    <3>2. /\ BitmapByte((b - 1) * ByteBits + bit) = b
          /\ NullBit((b - 1) * ByteBits + bit) = bit
      BY <3>1, PlaceOfBit
    <3> QED
      BY <3>2
  <2>2. CASE b = home
    <3>1. SetNull(bitmap, i)[b] = Number(bits, 2)
      BY <1>6, <2>2
    <3>2. Bits(SetNull(bitmap, i)[b])[bit] = IF bit = place THEN 1 ELSE Bits(bitmap[b])[bit]
      BY <1>4, <1>5, <2>2, <3>1
    <3>3. bit = place <=> (b - 1) * ByteBits + bit = i
      BY <1>1, <2>1, <2>2
    <3> QED
      BY <3>2, <3>3
  <2>3. CASE b # home
    <3>1. SetNull(bitmap, i)[b] = bitmap[b]
      BY <1>6, <2>3
    <3> QED
      BY <2>1, <2>3, <3>1
  <2> QED
    BY <2>2, <2>3
<1> QED
  BY <1>8, <1>9

-----------------------------------------------------------------------------
(* Rows of values. *)

TupleValue == {NULL} \cup UNION {{type} \X ValueDomain(type) : type \in PhysicalType}

(* Values that EncodeTuple accepts for the columns of a layout. *)
IsRow(layout, values) ==
    /\ values \in [1..Count(layout) -> TupleValue]
    /\ \A i \in 1..Count(layout) :
          IF values[i] = NULL THEN layout.columns[i].nullable ELSE values[i][1] = Type(layout, i)

Varlen(layout, i) == Type(layout, i) = "VARCHAR"

LEMMA ColumnNames ==
    ASSUME NEW layout, NEW i
    PROVE  /\ layout.columns[i].type = Type(layout, i)
           /\ layout.columns[i].fixed_offset = Offset(layout, i)
           /\ layout.columns[i].fixed_width = Width(layout, i)
           /\ IsVarlen(layout, i) <=> Varlen(layout, i)
BY DEF Type, Offset, Width, IsVarlen, Varlen

LEMMA ValueIsNotNull ==
    ASSUME NEW type \in PhysicalType, NEW D, NEW value \in {type} \X D
    PROVE  value # NULL /\ value[1] = type /\ value[2] \in D /\ value = <<value[1], value[2]>>
<1>1. value[1] = type /\ value[2] \in D /\ value = <<value[1], value[2]>>
  OBVIOUS
<1>2. type # "NULL"
  BY DEF PhysicalType
<1>3. NULL[1] = "NULL"
  BY DEF NULL
<1> QED
  BY <1>1, <1>2, <1>3

LEMMA RowAt ==
    ASSUME NEW layout, IsLayout(layout), NEW values, IsRow(layout, values), NEW i \in 1..Count(layout)
    PROVE  /\ values[i] = NULL => layout.columns[i].nullable
           /\ values[i] # NULL => values[i] \in {Type(layout, i)} \X ValueDomain(Type(layout, i))
<1>1. /\ values[i] \in TupleValue
      /\ IF values[i] = NULL THEN layout.columns[i].nullable ELSE values[i][1] = Type(layout, i)
  BY DEF IsRow
<1>2. ASSUME values[i] # NULL
      PROVE  values[i] \in {Type(layout, i)} \X ValueDomain(Type(layout, i))
  <2>1. PICK type \in PhysicalType : values[i] \in {type} \X ValueDomain(type)
    BY <1>1, <1>2, Zenon DEF TupleValue
  <2>2. values[i][1] = type
    BY <2>1, ValueIsNotNull
  <2>3. type = Type(layout, i)
    BY <1>1, <1>2, <2>2
  <2> QED
    BY <2>1, <2>3, Zenon
<1> QED
  BY <1>1, <1>2

LEMMA PayloadValue ==
    ASSUME NEW layout, IsLayout(layout), NEW values, IsRow(layout, values), NEW i \in 1..Count(layout),
           Varlen(layout, i), values[i] # NULL
    PROVE  /\ values[i][2] \in Seq(Byte) /\ Len(values[i][2]) \in Nat
           /\ values[i][2] \in [1..Len(values[i][2]) -> Byte]
           /\ values[i] = <<"VARCHAR", values[i][2]>>
<1>1. "VARCHAR" \in PhysicalType /\ Type(layout, i) = "VARCHAR"
  BY DEF PhysicalType, Varlen
<1>2. values[i] \in {"VARCHAR"} \X Seq(Byte)
  <2>1. values[i] \in {Type(layout, i)} \X ValueDomain(Type(layout, i))
    BY RowAt
  <2> QED
    BY <1>1, <2>1, Domains, Zenon
<1>3. values[i][2] \in Seq(Byte) /\ values[i] = <<values[i][1], values[i][2]>> /\ values[i][1] = "VARCHAR"
  BY <1>1, <1>2, ValueIsNotNull
<1> DEFINE s == values[i][2]
<1>4. s \in Seq(Byte)
  BY <1>3
<1> HIDE DEF s
<1>5. Len(s) \in Nat /\ s \in [1..Len(s) -> Byte]
  BY <1>4
<1> QED
  BY <1>3, <1>4, <1>5 DEF s

LEMMA LengthsAt ==
    ASSUME NEW layout, IsLayout(layout), NEW values, IsRow(layout, values)
    PROVE  /\ VarlenLengths(layout, values) \in [1..Count(layout) -> Nat]
           /\ Len(VarlenLengths(layout, values)) = Count(layout) /\ Len(values) = Count(layout)
           /\ DOMAIN values = 1..Count(layout) /\ Count(layout) \in Nat
           /\ \A i \in 1..Count(layout) :
                 /\ values[i] = NULL \/ ~Varlen(layout, i) => VarlenLengths(layout, values)[i] = 0
                 /\ values[i] # NULL /\ Varlen(layout, i)
                       => VarlenLengths(layout, values)[i] = Len(values[i][2])
<1> DEFINE n == Count(layout)
           lengths == VarlenLengths(layout, values)
<1>1. n \in Nat
  BY LayoutRoom
<1>2. values \in [1..n -> TupleValue] /\ DOMAIN values = 1..n
  BY DEF IsRow
<1>3. lengths = [i \in 1..n |-> IF Varlen(layout, i) /\ values[i] # NULL THEN Len(values[i][2]) ELSE 0]
  BY <1>2, ColumnNames DEF VarlenLengths
<1> HIDE DEF lengths, n
<1>4. ASSUME NEW i \in 1..n
      PROVE  /\ lengths[i] \in Nat
             /\ values[i] = NULL \/ ~Varlen(layout, i) => lengths[i] = 0
             /\ values[i] # NULL /\ Varlen(layout, i) => lengths[i] = Len(values[i][2])
  <2>1. CASE Varlen(layout, i) /\ values[i] # NULL
    <3>1. Len(values[i][2]) \in Nat
      BY <2>1, PayloadValue DEF n
    <3> QED
      BY <1>3, <2>1, <3>1
  <2>2. CASE ~(Varlen(layout, i) /\ values[i] # NULL)
    BY <1>3, <2>2
  <2> QED
    BY <2>1, <2>2
<1>5. lengths \in [1..n -> Nat]
  BY <1>3, <1>4
<1>6. Len(lengths) = n /\ Len(values) = n
  BY <1>1, <1>2, <1>5, FunctionIsSequence
<1> QED
  BY <1>1, <1>2, <1>4, <1>5, <1>6 DEF n, lengths

(* The sizes that PlanTupleSize adds up. *)
RowSizes(layout, values) == PlannedSizes(layout, VarlenLengths(layout, values))

LEMMA AddedUp ==
    ASSUME NEW n \in Nat, NEW w \in [1..n -> Nat], NEW base \in Nat,
           NEW p, p = [i \in 0..n |-> p[i]], p[0] = base, \A i \in 1..n : p[i] = p[i - 1] + w[i]
    PROVE  p \in [0..n -> Nat]
<1> DEFINE T == {i \in 0..n : p[i] \in Nat}
<1>2. 0 \in T
  OBVIOUS
<1>3. ASSUME NEW i \in 1..n, i - 1 \in T PROVE i \in T
  <2>1. p[i - 1] \in Nat
    BY <1>3
  <2>2. w[i] \in Nat /\ i \in 0..n
    OBVIOUS
  <2>3. p[i] = p[i - 1] + w[i]
    OBVIOUS
  <2>4. p[i] \in Nat
    BY <2>1, <2>2, <2>3
  <2> QED
    BY <2>2, <2>4
<1> HIDE DEF T
<1>4. 0..n \subseteq T
  BY <1>2, <1>3, InductionTo
<1>5. \A i \in 0..n : p[i] \in Nat
  BY <1>4 DEF T
<1> QED
  BY <1>5

Sums(n, w, base, f) == f = [i \in 0..n |-> IF i = 0 THEN base ELSE f[i - 1] + w[i]]

LEMMA SumExists ==
    ASSUME NEW n \in Nat, NEW w \in [1..n -> Nat], NEW base \in Nat
    PROVE  \E f : Sums(n, w, base, f)
<1> DEFINE step == [i \in 1..n |-> [x \in Nat |-> x + w[i]]]
<1>1. step \in [1..n -> [Nat -> Nat]]
  OBVIOUS
<1>2. \A i \in 1..n, x \in Nat : step[i][x] = x + w[i]
  OBVIOUS
<1> HIDE DEF step
<1>3. PICK f : Iterates(f, n, Nat, base, step)
  BY <1>1, RecursiveFunction
<1>4. f \in [0..n -> Nat] /\ f[0] = base /\ \A i \in 1..n : f[i] = step[i][f[i - 1]]
  BY <1>3 DEF Iterates
<1>5. ASSUME NEW i \in 1..n PROVE f[i] = f[i - 1] + w[i]
  <2>1. f[i - 1] \in Nat
    BY <1>4
  <2> QED
    BY <1>2, <1>4, <2>1
<1>6. Sums(n, w, base, f)
  BY <1>4, <1>5 DEF Sums
<1> QED
  BY <1>6

LEMMA SizesAddUp ==
    ASSUME NEW n \in Nat, NEW lengths \in [1..n -> Nat],
           NEW layout, layout.varlen_payload_offset \in Nat
    PROVE  /\ PlannedSizes(layout, lengths) \in [0..n -> Nat]
           /\ PlannedSizes(layout, lengths)[0] = layout.varlen_payload_offset
           /\ \A i \in 1..n :
                 PlannedSizes(layout, lengths)[i] = PlannedSizes(layout, lengths)[i - 1] + lengths[i]
           /\ Grows(PlannedSizes(layout, lengths), n)
<1> DEFINE base == layout.varlen_payload_offset
           p == PlannedSizes(layout, lengths)
<1>1. base \in Nat
  OBVIOUS
<1> HIDE DEF base
<1>3. Len(lengths) = n
  BY FunctionIsSequence
<1>4. \E f : Sums(n, lengths, base, f)
  BY <1>1, SumExists
<1>5. p = [i \in 0..n |-> IF i = 0 THEN base ELSE p[i - 1] + lengths[i]]
  BY <1>3, <1>4 DEF PlannedSizes, Sums, base
<1> HIDE DEF p
<1>50. p = [i \in 0..n |-> p[i]] /\ p[0] = base /\ \A i \in 1..n : p[i] = p[i - 1] + lengths[i]
  BY <1>5
<1>6. /\ p \in [0..n -> Nat] /\ p[0] = base
      /\ \A i \in 1..n : p[i] = p[i - 1] + lengths[i]
  BY <1>1, <1>50, AddedUp
<1>7. ASSUME NEW i \in 1..n PROVE p[i - 1] =< p[i]
  <2>1. i - 1 \in 0..n /\ lengths[i] \in Nat
    OBVIOUS
  <2>2. p[i - 1] \in Nat /\ p[i] = p[i - 1] + lengths[i]
    BY <1>6, <2>1
  <2> QED
    BY <2>1, <2>2
<1>8. Grows(p, n)
  BY <1>6, <1>7 DEF Grows
<1> QED
  BY <1>6, <1>8 DEF p, base

LEMMA SizeSteps ==
    ASSUME NEW layout, IsLayout(layout), NEW lengths, lengths \in [1..Count(layout) -> Nat]
    PROVE  /\ PlannedSizes(layout, lengths) \in [0..Count(layout) -> Nat]
           /\ PlannedSizes(layout, lengths)[0] = layout.varlen_payload_offset
           /\ \A i \in 1..Count(layout) :
                 PlannedSizes(layout, lengths)[i] = PlannedSizes(layout, lengths)[i - 1] + lengths[i]
           /\ Grows(PlannedSizes(layout, lengths), Count(layout))
<1>1. Count(layout) \in Nat /\ layout.varlen_payload_offset \in Nat
  BY LayoutRoom
<1> QED
  BY <1>1, SizesAddUp

-----------------------------------------------------------------------------
(* Encoding column by column. *)

LEMMA DescriptorType ==
    ASSUME NEW offset \in Nat, NEW length \in Nat
    PROVE  EncodeVarcharDescriptor(offset, length) \in [1..(2 * WordSize) -> Byte]
<1> DEFINE d == [payload_offset |-> offset, payload_length |-> length]
<1>1. 2 * WordSize \in Nat /\ Zeroes(2 * WordSize) \in [1..(2 * WordSize) -> Byte]
  BY DescriptorRoom, ZeroesType
<1>2. IsTable(DescriptorFields, 2 * WordSize)
  BY DescriptorTable DEF Tiles
<1>3. \A f \in DOMAIN DescriptorFields : d[f] \in Int
  BY DescriptorNames
<1>4. EncodeFields(DescriptorFields, d, Zeroes(2 * WordSize)) \in [1..(2 * WordSize) -> Byte]
  <2> HIDE DEF d
  <2> QED
    BY <1>1, <1>2, <1>3, EncodedType
<1> QED
  BY <1>4 DEF EncodeVarcharDescriptor

LEMMA FixedType ==
    ASSUME NEW layout, IsLayout(layout), NEW i \in 1..Count(layout), ~Varlen(layout, i)
    PROVE  Type(layout, i) \in FixedTypes
<1>1. Type(layout, i) \in PhysicalType /\ Type(layout, i) # "VARCHAR"
  BY FieldRoom DEF Varlen
<1> QED
  BY <1>1 DEF PhysicalType, FixedTypes

(* The bytes that EncodeColumn writes to the field of a column. *)
FieldImage(layout, values, sizes, i) ==
    IF values[i] = NULL THEN Zeroes(Width(layout, i))
    ELSE IF Varlen(layout, i) THEN EncodeVarcharDescriptor(sizes[i - 1], Len(values[i][2]))
    ELSE EncodeFixedScalar(Type(layout, i), values[i])

LEMMA FieldImageType ==
    ASSUME NEW layout, IsLayout(layout), NEW values, IsRow(layout, values),
           NEW i \in 1..Count(layout), NEW sizes, sizes[i - 1] \in Nat
    PROVE  FieldImage(layout, values, sizes, i) \in [1..Width(layout, i) -> Byte]
<1>1. Width(layout, i) \in Nat /\ Width(layout, i) = PhysicalTypeWidth(Type(layout, i))
  BY FieldRoom
<1>2. CASE values[i] = NULL
  <2>1. Zeroes(Width(layout, i)) \in [1..Width(layout, i) -> Byte]
    BY <1>1, ZeroesType
  <2> QED
    BY <1>2, <2>1 DEF FieldImage
<1>3. CASE values[i] # NULL /\ Varlen(layout, i)
  <2>1. Len(values[i][2]) \in Nat
    BY <1>3, PayloadValue
  <2>2. Width(layout, i) = 2 * WordSize
    <3>1. "VARCHAR" \in PhysicalType /\ Type(layout, i) = "VARCHAR"
      BY <1>3 DEF PhysicalType, Varlen
    <3> QED
      BY <1>1, <3>1, TypeWidth
  <2>3. EncodeVarcharDescriptor(sizes[i - 1], Len(values[i][2])) \in [1..(2 * WordSize) -> Byte]
    BY <2>1, DescriptorType
  <2> QED
    BY <1>3, <2>2, <2>3 DEF FieldImage
<1>4. CASE values[i] # NULL /\ ~Varlen(layout, i)
  <2>1. values[i] \in {Type(layout, i)} \X ValueDomain(Type(layout, i))
    BY <1>4, RowAt
  <2>2. EncodeFixedScalar(Type(layout, i), values[i]) \in [1..PhysicalTypeWidth(Type(layout, i)) -> Byte]
    BY <1>4, <2>1, FixedType, ScalarReadBack
  <2> QED
    BY <1>1, <1>4, <2>2 DEF FieldImage
<1> QED
  BY <1>2, <1>3, <1>4

LEMMA BitmapAt ==
    ASSUME NEW layout, IsLayout(layout), NEW m \in Nat, layout.varlen_payload_offset =< m,
           NEW t \in [1..m -> Byte]
    PROVE  /\ Bitmap(layout, t) \in [1..layout.null_bitmap_bytes -> Byte]
           /\ \A b \in 1..layout.null_bitmap_bytes : Bitmap(layout, t)[b] = t[HeaderSize + b]
<1>1. /\ HeaderSize \in Nat /\ layout.null_bitmap_bytes \in Nat
      /\ HeaderSize + layout.null_bitmap_bytes =< m
  BY LayoutRoom
<1> QED
  BY <1>1, SubspanAt DEF Bitmap

LEMMA BitOfColumn ==
    ASSUME NEW layout, IsLayout(layout), NEW i \in 1..Count(layout)
    PROVE  /\ BitmapByte(i) \in 1..layout.null_bitmap_bytes /\ NullBit(i) \in 1..ByteBits
           /\ (BitmapByte(i) - 1) * ByteBits + NullBit(i) = i
<1>1. Count(layout) \in Nat /\ i \in Nat \ {0} /\ i =< Count(layout)
  BY LayoutRoom
<1>2. /\ BitmapByte(i) \in Nat \ {0} /\ NullBit(i) \in 1..ByteBits
      /\ (BitmapByte(i) - 1) * ByteBits + NullBit(i) = i
  BY <1>1, BitPlace
<1>3. BitmapByte(i) =< NullBitmapBytes(Count(layout))
  BY <1>1, <1>2, BitmapEnds
<1>4. layout.null_bitmap_bytes = NullBitmapBytes(Count(layout)) /\ layout.null_bitmap_bytes \in Nat
  BY LayoutRoom DEF IsLayout
<1> QED
  BY <1>2, <1>3, <1>4

(* What EncodeColumn does to a tuple, a cursor and a flag. *)
Progress(t, cursor, malformed) == [tuple |-> t, cursor |-> cursor, malformed |-> malformed]

Overruns(t, cursor, length) == cursor > MaxOf(WordSize) \/ cursor + length > Len(t)

LEMMA ColumnNull ==
    ASSUME NEW layout, NEW values, NEW t, NEW c, NEW f, NEW i, values[i] = NULL
    PROVE  EncodeColumn(layout, values, Progress(t, c, f), i)
              = Progress(Overwrite(t, HeaderSize, SetNull(Bitmap(layout, t), i)), c, f)
BY DEF EncodeColumn, Progress

LEMMA ColumnFixed ==
    ASSUME NEW layout, NEW values, NEW t, NEW c, NEW f, NEW i,
           values[i] # NULL, ~Varlen(layout, i)
    PROVE  EncodeColumn(layout, values, Progress(t, c, f), i)
              = Progress(Overwrite(t, Offset(layout, i), EncodeFixedScalar(Type(layout, i), values[i])), c, f)
BY ColumnNames DEF EncodeColumn, Progress

LEMMA ColumnVarlen ==
    ASSUME NEW layout, NEW values, NEW t, NEW c, NEW f, NEW i,
           values[i] # NULL, Varlen(layout, i),
           ~Overruns(t, c, Len(values[i][2]))
    PROVE  EncodeColumn(layout, values, Progress(t, c, f), i)
              = Progress(Overwrite(Overwrite(t, Offset(layout, i),
                                             EncodeVarcharDescriptor(c, Len(values[i][2]))),
                                   c, values[i][2]),
                         c + Len(values[i][2]), f)
BY ColumnNames DEF EncodeColumn, Progress, Overruns

Progresses(m) == [tuple : [1..m -> Byte], cursor : Nat, malformed : BOOLEAN]

LEMMA ProgressParts ==
    ASSUME NEW m, NEW done \in Progresses(m)
    PROVE  /\ done = Progress(done.tuple, done.cursor, done.malformed)
           /\ done.tuple \in [1..m -> Byte] /\ done.cursor \in Nat /\ done.malformed \in BOOLEAN
BY DEF Progress, Progresses

LEMMA ProgressType ==
    ASSUME NEW m, NEW t, t \in [1..m -> Byte], NEW c, c \in Nat, NEW f, f \in BOOLEAN,
           NEW done, done = Progress(t, c, f)
    PROVE  done \in Progresses(m)
BY DEF Progress, Progresses

LEMMA ProgressFlags ==
    ASSUME NEW m, NEW t, t \in [1..m -> Byte], NEW c, c \in Nat
    PROVE  Progress(t, c, TRUE) \in Progresses(m) /\ Progress(t, c, FALSE) \in Progresses(m)
BY DEF Progress, Progresses

LEMMA ColumnOverrun ==
    ASSUME NEW layout, NEW values, NEW m, NEW t, t \in [1..m -> Byte], NEW c, c \in Nat, NEW f, NEW i,
           values[i] # NULL, Varlen(layout, i), Overruns(t, c, Len(values[i][2]))
    PROVE  EncodeColumn(layout, values, Progress(t, c, f), i) \in Progresses(m)
<1>1. EncodeColumn(layout, values, Progress(t, c, f), i) = Progress(t, c, TRUE)
  BY ColumnNames DEF EncodeColumn, Progress, Overruns
<1>2. Progress(t, c, TRUE) \in Progresses(m)
  BY ProgressFlags
<1> QED
  BY <1>1, <1>2

LEMMA PayloadWritten ==
    ASSUME NEW m \in Nat, NEW t \in [1..m -> Byte], NEW offset \in Nat, NEW c \in Nat,
           NEW payload, NEW length \in Nat, payload \in [1..length -> Byte]
    PROVE  Overwrite(Overwrite(t, offset, EncodeVarcharDescriptor(c, length)), c, payload) \in [1..m -> Byte]
<1>1. EncodeVarcharDescriptor(c, length) \in [1..(2 * WordSize) -> Byte] /\ 2 * WordSize \in Nat
  BY DescriptorType, DescriptorRoom
<1>2. Overwrite(t, offset, EncodeVarcharDescriptor(c, length)) \in [1..m -> Byte]
  BY <1>1, OverwriteAt
<1> QED
  BY <1>2, OverwriteAt

LEMMA ColumnProgress ==
    ASSUME NEW layout, IsLayout(layout), NEW values, IsRow(layout, values),
           NEW m \in Nat, layout.varlen_payload_offset =< m,
           NEW t \in [1..m -> Byte], NEW c \in Nat, NEW f \in BOOLEAN, NEW i \in 1..Count(layout)
    PROVE  EncodeColumn(layout, values, Progress(t, c, f), i) \in Progresses(m)
<1>1. /\ HeaderSize \in Nat /\ layout.null_bitmap_bytes \in Nat
      /\ Offset(layout, i) \in Nat /\ Width(layout, i) \in Nat
      /\ Width(layout, i) = PhysicalTypeWidth(Type(layout, i))
  BY LayoutRoom, FieldRoom
<1>2. CASE values[i] = NULL
  <2> DEFINE new == SetNull(Bitmap(layout, t), i)
  <2>1. Bitmap(layout, t) \in [1..layout.null_bitmap_bytes -> Byte]
    BY BitmapAt
  <2>2. BitmapByte(i) \in 1..layout.null_bitmap_bytes /\ i \in Nat \ {0}
    BY BitOfColumn
  <2>3. new \in [1..layout.null_bitmap_bytes -> Byte]
    BY <1>1, <2>1, <2>2, SetNullAt
  <2> HIDE DEF new
  <2>4. Overwrite(t, HeaderSize, new) \in [1..m -> Byte]
    BY <1>1, <2>3, OverwriteAt
  <2>5. EncodeColumn(layout, values, Progress(t, c, f), i) = Progress(Overwrite(t, HeaderSize, new), c, f)
    BY <1>2, ColumnNull DEF new
  <2> QED
    BY <2>4, <2>5, ProgressType
<1>3. CASE values[i] # NULL /\ ~Varlen(layout, i)
  <2> DEFINE new == EncodeFixedScalar(Type(layout, i), values[i])
  <2>1. new \in [1..Width(layout, i) -> Byte]
    <3>1. values[i] \in {Type(layout, i)} \X ValueDomain(Type(layout, i))
      BY <1>3, RowAt
    <3>2. new \in [1..PhysicalTypeWidth(Type(layout, i)) -> Byte]
      BY <1>3, <3>1, FixedType, ScalarReadBack
    <3> QED
      BY <1>1, <3>2
  <2> HIDE DEF new
  <2>2. Overwrite(t, Offset(layout, i), new) \in [1..m -> Byte]
    BY <1>1, <2>1, OverwriteAt
  <2>3. EncodeColumn(layout, values, Progress(t, c, f), i)
           = Progress(Overwrite(t, Offset(layout, i), new), c, f)
    BY <1>3, ColumnFixed DEF new
  <2> QED
    BY <2>2, <2>3, ProgressType
<1>4. CASE values[i] # NULL /\ Varlen(layout, i)
  <2>1. Len(values[i][2]) \in Nat /\ values[i][2] \in [1..Len(values[i][2]) -> Byte]
    BY <1>4, PayloadValue
  <2>2. CASE Overruns(t, c, Len(values[i][2]))
    BY <1>4, <2>2, ColumnOverrun
  <2>3. CASE ~Overruns(t, c, Len(values[i][2]))
    <3>1. EncodeColumn(layout, values, Progress(t, c, f), i)
             = Progress(Overwrite(Overwrite(t, Offset(layout, i),
                                            EncodeVarcharDescriptor(c, Len(values[i][2]))),
                                  c, values[i][2]),
                        c + Len(values[i][2]), f)
      BY <1>4, <2>3, ColumnVarlen
    <3>2. Overwrite(Overwrite(t, Offset(layout, i), EncodeVarcharDescriptor(c, Len(values[i][2]))),
                    c, values[i][2]) \in [1..m -> Byte]
      BY <1>1, <2>1, PayloadWritten
    <3>3. c + Len(values[i][2]) \in Nat
      BY <2>1
    <3> QED
      BY <3>1, <3>2, <3>3, ProgressType
  <2> QED
    BY <2>2, <2>3
<1> QED
  BY <1>2, <1>3, <1>4

LEMMA ColumnSteps ==
    ASSUME NEW layout, IsLayout(layout), NEW values, IsRow(layout, values),
           NEW m \in Nat, layout.varlen_payload_offset =< m, NEW empty \in [1..m -> Byte]
    PROVE  /\ EncodedColumns(layout, values, empty)[0]
                = Progress(empty, layout.varlen_payload_offset, FALSE)
           /\ \A i \in 1..Count(layout) :
                 EncodedColumns(layout, values, empty)[i]
                    = EncodeColumn(layout, values, EncodedColumns(layout, values, empty)[i - 1], i)
<1> DEFINE n == Count(layout)
           base == Progress(empty, layout.varlen_payload_offset, FALSE)
           X == Progresses(m)
           step == [i \in 1..n |-> [x \in X |-> EncodeColumn(layout, values, x, i)]]
           p == EncodedColumns(layout, values, empty)
<1>1. n \in Nat /\ layout.varlen_payload_offset \in Nat /\ Len(values) = n
  BY LayoutRoom, LengthsAt
<1>2. base \in X
  BY <1>1, ProgressFlags
<1>3. ASSUME NEW i \in 1..n, NEW x \in X PROVE EncodeColumn(layout, values, x, i) \in X
  <2>1. /\ x = Progress(x.tuple, x.cursor, x.malformed)
        /\ x.tuple \in [1..m -> Byte] /\ x.cursor \in Nat /\ x.malformed \in BOOLEAN
    BY ProgressParts
  <2>2. EncodeColumn(layout, values, Progress(x.tuple, x.cursor, x.malformed), i) \in X
    BY <2>1, ColumnProgress
  <2> QED
    BY <2>1, <2>2
<1> HIDE DEF X, n
<1>4. step \in [1..n -> [X -> X]]
  BY <1>3
<1>5. \A i \in 1..n, x \in X : step[i][x] = EncodeColumn(layout, values, x, i)
  OBVIOUS
<1> HIDE DEF step
<1>6. PICK f : Iterates(f, n, X, base, step)
  <2> HIDE DEF base
  <2> QED
    BY <1>1, <1>2, <1>4, RecursiveFunction
<1>7. f \in [0..n -> X] /\ f[0] = base /\ \A i \in 1..n : f[i] = EncodeColumn(layout, values, f[i - 1], i)
  <2>1. f \in [0..n -> X] /\ f[0] = base /\ \A i \in 1..n : f[i] = step[i][f[i - 1]]
    BY <1>6 DEF Iterates
  <2>2. ASSUME NEW i \in 1..n PROVE f[i] = EncodeColumn(layout, values, f[i - 1], i)
    <3>1. f[i - 1] \in X
      BY <1>1, <2>1
    <3> QED
      BY <1>5, <2>1, <3>1
  <2> QED
    BY <2>1, <2>2
<1> HIDE DEF base
<1>8. f = [i \in 0..n |-> IF i = 0 THEN base ELSE EncodeColumn(layout, values, f[i - 1], i)]
  BY <1>1, <1>7
<1>9. \E g : g = [i \in 0..n |-> IF i = 0 THEN base ELSE EncodeColumn(layout, values, g[i - 1], i)]
  BY <1>8
<1>10. p = [i \in 0..n |-> IF i = 0 THEN base ELSE EncodeColumn(layout, values, p[i - 1], i)]
  BY <1>1, <1>9 DEF EncodedColumns, base, Progress
<1> HIDE DEF p
<1>11. p[0] = base /\ \A i \in 1..n : p[i] = EncodeColumn(layout, values, p[i - 1], i)
  BY <1>1, <1>10
<1> QED
  BY <1>11 DEF p, n, base

-----------------------------------------------------------------------------
(* The tuple after some of the columns. *)

Payload(values, i) == values[i][2]

Length(values, i) == Len(Payload(values, i))

LEMMA PayloadAt ==
    ASSUME NEW layout, IsLayout(layout), NEW values, IsRow(layout, values), NEW i \in 1..Count(layout),
           Varlen(layout, i), values[i] # NULL
    PROVE  /\ Payload(values, i) \in Seq(Byte) /\ Length(values, i) \in Nat
           /\ Payload(values, i) \in [1..Length(values, i) -> Byte]
           /\ values[i] = <<"VARCHAR", Payload(values, i)>>
  BY PayloadValue DEF Payload, Length

(* Where the payload of each column ends, the last at the end of the tuple. *)
Sized(layout, values, sizes, m) ==
    /\ sizes \in [0..Count(layout) -> Nat]
    /\ sizes[0] = layout.varlen_payload_offset
    /\ Grows(sizes, Count(layout))
    /\ sizes[Count(layout)] = m
    /\ \A i \in 1..Count(layout) :
          /\ values[i] = NULL \/ ~Varlen(layout, i) => sizes[i] = sizes[i - 1]
          /\ values[i] # NULL /\ Varlen(layout, i) => sizes[i] = sizes[i - 1] + Length(values, i)

HeaderKept(t, empty) == \A k \in 1..HeaderSize : t[k] = empty[k]

NullDigit(values, i, p) == IF p \in 1..i /\ values[p] = NULL THEN 1 ELSE 0

NullsMarked(layout, values, i, t) ==
    \A b \in 1..layout.null_bitmap_bytes, bit \in 1..ByteBits :
       Bits(t[HeaderSize + b])[bit] = NullDigit(values, i, (b - 1) * ByteBits + bit)

FieldsWritten(layout, values, sizes, i, t) ==
    \A j \in 1..Count(layout) : \A q \in 1..Width(layout, j) :
       t[Offset(layout, j) + q] = IF j =< i THEN FieldImage(layout, values, sizes, j)[q] ELSE 0

PayloadsWritten(layout, values, sizes, i, t) ==
    \A j \in 1..i : values[j] # NULL /\ Varlen(layout, j) =>
       \A q \in 1..Length(values, j) : t[sizes[j - 1] + q] = Payload(values, j)[q]

Filled(layout, values, sizes, m, empty, i, t) ==
    /\ t \in [1..m -> Byte]
    /\ HeaderKept(t, empty)
    /\ NullsMarked(layout, values, i, t)
    /\ FieldsWritten(layout, values, sizes, i, t)
    /\ PayloadsWritten(layout, values, sizes, i, t)

LEMMA SizedRow ==
    ASSUME NEW layout, IsLayout(layout), NEW values, IsRow(layout, values)
    PROVE  Sized(layout, values, RowSizes(layout, values), RowSizes(layout, values)[Count(layout)])
<1> DEFINE n == Count(layout)
           lengths == VarlenLengths(layout, values)
           sizes == RowSizes(layout, values)
<1>1. /\ lengths \in [1..n -> Nat]
      /\ \A i \in 1..n : /\ values[i] = NULL \/ ~Varlen(layout, i) => lengths[i] = 0
                         /\ values[i] # NULL /\ Varlen(layout, i) => lengths[i] = Length(values, i)
  BY LengthsAt DEF Length, Payload
<1>2. /\ sizes \in [0..n -> Nat] /\ sizes[0] = layout.varlen_payload_offset /\ Grows(sizes, n)
      /\ \A i \in 1..n : sizes[i] = sizes[i - 1] + lengths[i]
  <2> HIDE DEF lengths
  <2> QED
    BY <1>1, SizeSteps DEF RowSizes, lengths
<1>3. n \in Nat
  BY LayoutRoom
<1> HIDE DEF lengths, sizes, n
<1>4. ASSUME NEW i \in 1..n
      PROVE  /\ values[i] = NULL \/ ~Varlen(layout, i) => sizes[i] = sizes[i - 1]
             /\ values[i] # NULL /\ Varlen(layout, i) => sizes[i] = sizes[i - 1] + Length(values, i)
  <2>1. i - 1 \in 0..n
    BY <1>3
  <2>2. sizes[i - 1] \in Nat /\ sizes[i] = sizes[i - 1] + lengths[i]
    BY <1>2, <2>1
  <2> QED
    BY <1>1, <2>2
<1> QED
  BY <1>2, <1>4 DEF Sized, sizes, n

LEMMA SizedAt ==
    ASSUME NEW layout, IsLayout(layout), NEW values, NEW sizes, NEW m, Sized(layout, values, sizes, m)
    PROVE  /\ m \in Nat /\ layout.varlen_payload_offset =< m
           /\ \A i \in 1..Count(layout) :
                 /\ sizes[i - 1] \in Nat /\ sizes[i] \in Nat
                 /\ layout.varlen_payload_offset =< sizes[i - 1]
                 /\ sizes[i - 1] =< sizes[i] /\ sizes[i] =< m
<1> DEFINE n == Count(layout)
<1>1. n \in Nat /\ layout.varlen_payload_offset \in Nat
  BY LayoutRoom
<1>2. /\ sizes \in [0..n -> Nat] /\ sizes[0] = layout.varlen_payload_offset
      /\ Grows(sizes, n) /\ sizes[n] = m
  BY DEF Sized
<1> HIDE DEF n
<1>3. ASSUME NEW i \in 0..n PROVE sizes[i] \in Nat /\ layout.varlen_payload_offset =< sizes[i] /\ sizes[i] =< m
  <2>1. 0 \in 0..i /\ n \in 0..n
    BY <1>1
  <2>2. sizes[0] =< sizes[i]
    BY <1>1, <1>2, <2>1, GrowsTo
  <2>3. sizes[i] =< sizes[n]
    BY <1>1, <1>2, <2>1, GrowsTo
  <2> QED
    BY <1>2, <2>2, <2>3
<1>4. m \in Nat /\ layout.varlen_payload_offset =< m
  <2>1. 0 \in 0..n /\ n \in 0..n
    BY <1>1
  <2>2. sizes[n] \in Nat /\ layout.varlen_payload_offset =< sizes[n]
    BY <1>3, <2>1
  <2> QED
    BY <1>2, <2>2
<1>5. ASSUME NEW i \in 1..n
      PROVE  /\ sizes[i - 1] \in Nat /\ sizes[i] \in Nat
             /\ layout.varlen_payload_offset =< sizes[i - 1]
             /\ sizes[i - 1] =< sizes[i] /\ sizes[i] =< m
  <2>1. i - 1 \in 0..n /\ i \in 0..n
    BY <1>1
  <2>2. sizes[i - 1] =< sizes[i]
    BY <1>2 DEF Grows
  <2> QED
    BY <1>3, <2>1, <2>2
<1> QED
  BY <1>4, <1>5 DEF n

LEMMA PayloadsApart ==
    ASSUME NEW layout, IsLayout(layout), NEW values, NEW sizes, NEW m, Sized(layout, values, sizes, m),
           NEW i \in 1..Count(layout), NEW j \in 1..Count(layout), j < i
    PROVE  sizes[j] =< sizes[i - 1]
<1>1. Count(layout) \in Nat
  BY LayoutRoom
<1>2. i - 1 \in 0..Count(layout) /\ j \in 0..(i - 1)
  BY <1>1
<1>3. Grows(sizes, Count(layout))
  BY DEF Sized
<1> QED
  BY <1>1, <1>2, <1>3, GrowsTo

(* Where the parts of a tuple are. *)
LEMMA HeaderIndex ==
    ASSUME NEW layout, IsLayout(layout), NEW m \in Nat, layout.varlen_payload_offset =< m,
           NEW k \in 1..HeaderSize
    PROVE  k \in 1..m /\ k \in Nat /\ k =< FixedArea(layout) /\ k =< layout.varlen_payload_offset
<1>1. /\ HeaderSize \in Nat /\ layout.null_bitmap_bytes \in Nat
      /\ FixedArea(layout) = HeaderSize + layout.null_bitmap_bytes
      /\ layout.varlen_payload_offset \in Nat /\ FixedArea(layout) =< layout.varlen_payload_offset
  BY LayoutRoom
<1> QED
  BY <1>1

LEMMA BitmapIndex ==
    ASSUME NEW layout, IsLayout(layout), NEW m \in Nat, layout.varlen_payload_offset =< m,
           NEW b \in 1..layout.null_bitmap_bytes
    PROVE  /\ HeaderSize + b \in 1..m /\ HeaderSize + b > HeaderSize
           /\ HeaderSize + b =< FixedArea(layout) /\ HeaderSize + b =< layout.varlen_payload_offset
<1>1. /\ HeaderSize \in Nat /\ layout.null_bitmap_bytes \in Nat
      /\ FixedArea(layout) = HeaderSize + layout.null_bitmap_bytes
      /\ layout.varlen_payload_offset \in Nat /\ FixedArea(layout) =< layout.varlen_payload_offset
  BY LayoutRoom
<1> QED
  BY <1>1

LEMMA FieldIndex ==
    ASSUME NEW layout, IsLayout(layout), NEW m \in Nat, layout.varlen_payload_offset =< m,
           NEW j \in 1..Count(layout), NEW q \in 1..Width(layout, j)
    PROVE  /\ Offset(layout, j) + q \in 1..m /\ Offset(layout, j) + q > FixedArea(layout)
           /\ Offset(layout, j) + q > HeaderSize
           /\ Offset(layout, j) + q =< layout.varlen_payload_offset
<1>1. /\ HeaderSize \in Nat /\ layout.null_bitmap_bytes \in Nat
      /\ FixedArea(layout) = HeaderSize + layout.null_bitmap_bytes
      /\ layout.varlen_payload_offset \in Nat
  BY LayoutRoom
<1>2. /\ Offset(layout, j) \in Nat /\ Width(layout, j) \in Nat
      /\ FixedArea(layout) =< Offset(layout, j)
      /\ Offset(layout, j) + Width(layout, j) =< layout.varlen_payload_offset
  BY FieldRoom
<1> QED
  BY <1>1, <1>2

LEMMA WithinPayload ==
    ASSUME NEW a \in Nat, NEW b, NEW v \in Nat, NEW m \in Nat, NEW l \in Nat, b = a + l, v =< a, b =< m,
           NEW q \in 1..l
    PROVE  a + q \in 1..m /\ a + q > v /\ a + q > a /\ a + q =< b
OBVIOUS

LEMMA PayloadIndex ==
    ASSUME NEW layout, IsLayout(layout), NEW values, IsRow(layout, values),
           NEW sizes, NEW m, Sized(layout, values, sizes, m),
           NEW j \in 1..Count(layout), values[j] # NULL, Varlen(layout, j),
           NEW q \in 1..Length(values, j)
    PROVE  /\ sizes[j - 1] + q \in 1..m /\ sizes[j - 1] + q > layout.varlen_payload_offset
           /\ sizes[j - 1] + q > sizes[j - 1] /\ sizes[j - 1] + q =< sizes[j]
<1>1. /\ sizes[j - 1] \in Nat /\ sizes[j] \in Nat /\ layout.varlen_payload_offset =< sizes[j - 1]
      /\ sizes[j] =< m /\ m \in Nat
  BY SizedAt
<1>2. sizes[j] = sizes[j - 1] + Length(values, j)
  BY DEF Sized
<1>3. Length(values, j) \in Nat
  BY PayloadAt
<1>4. layout.varlen_payload_offset \in Nat
  BY LayoutRoom
<1> DEFINE a == sizes[j - 1]
           b == sizes[j]
           v == layout.varlen_payload_offset
           l == Length(values, j)
<1>5. /\ a \in Nat /\ v \in Nat /\ m \in Nat /\ l \in Nat /\ b = a + l
      /\ v =< a /\ b =< m /\ q \in 1..l
  BY <1>1, <1>2, <1>3, <1>4
<1> HIDE DEF a, b, v, l
<1>6. a + q \in 1..m /\ a + q > v /\ a + q > a /\ a + q =< b
  BY <1>5, WithinPayload
<1> QED
  BY <1>6 DEF a, b, v

-----------------------------------------------------------------------------
(* What an overwritten span leaves alone. *)

SameOutside(new, old, m, low, high) == \A k \in 1..m : k =< low \/ k > high => new[k] = old[k]

LEMMA OverwriteWithin ==
    ASSUME NEW m \in Nat, NEW t \in [1..m -> Byte], NEW offset \in Nat,
           NEW l \in Nat, NEW span \in [1..l -> Byte], offset + l =< m
    PROVE  /\ Overwrite(t, offset, span) \in [1..m -> Byte]
           /\ \A q \in 1..l : Overwrite(t, offset, span)[offset + q] = span[q]
           /\ SameOutside(Overwrite(t, offset, span), t, m, offset, offset + l)
<1> DEFINE u == Overwrite(t, offset, span)
<1>1. /\ u \in [1..m -> Byte]
      /\ \A k \in 1..m : k \in (offset + 1)..(offset + l) => u[k] = span[k - offset]
      /\ \A k \in 1..m : k \notin (offset + 1)..(offset + l) => u[k] = t[k]
  BY OverwriteAt
<1> HIDE DEF u
<1>2. ASSUME NEW q \in 1..l PROVE u[offset + q] = span[q]
  <2>1. /\ offset + q \in 1..m /\ offset + q \in (offset + 1)..(offset + l)
        /\ (offset + q) - offset = q
    OBVIOUS
  <2>2. u[offset + q] = span[(offset + q) - offset]
    BY <1>1, <2>1
  <2> QED
    BY <2>1, <2>2
<1>3. ASSUME NEW k \in 1..m, k =< offset \/ k > offset + l PROVE u[k] = t[k]
  <2>1. k \notin (offset + 1)..(offset + l)
    BY <1>3
  <2> QED
    BY <1>1, <2>1
<1>4. SameOutside(u, t, m, offset, offset + l)
  BY <1>3 DEF SameOutside
<1> QED
  BY <1>1, <1>2, <1>4 DEF u

HeaderAlike(new, old) == \A k \in 1..HeaderSize : new[k] = old[k]

BitmapAlike(layout, new, old) ==
    \A b \in 1..layout.null_bitmap_bytes : new[HeaderSize + b] = old[HeaderSize + b]

FieldAlike(layout, j, new, old) ==
    \A q \in 1..Width(layout, j) : new[Offset(layout, j) + q] = old[Offset(layout, j) + q]

OthersAlike(layout, i, new, old) == \A j \in 1..Count(layout) : j # i => FieldAlike(layout, j, new, old)

PayloadAlike(values, sizes, j, new, old) ==
    \A q \in 1..Length(values, j) : new[sizes[j - 1] + q] = old[sizes[j - 1] + q]

PayloadsAlike(layout, values, sizes, i, new, old) ==
    \A j \in 1..(i - 1) : values[j] # NULL /\ Varlen(layout, j) => PayloadAlike(values, sizes, j, new, old)

FieldWritten(layout, values, sizes, i, t) ==
    \A q \in 1..Width(layout, i) : t[Offset(layout, i) + q] = FieldImage(layout, values, sizes, i)[q]

PayloadIsWritten(values, sizes, i, t) ==
    \A q \in 1..Length(values, i) : t[sizes[i - 1] + q] = Payload(values, i)[q]

LEMMA AboveFixedArea ==
    ASSUME NEW layout, IsLayout(layout), NEW m \in Nat, layout.varlen_payload_offset =< m,
           NEW new, NEW old, NEW low \in Nat, NEW high, FixedArea(layout) =< low,
           SameOutside(new, old, m, low, high)
    PROVE  HeaderAlike(new, old) /\ BitmapAlike(layout, new, old)
<1>1. /\ FixedArea(layout) \in Nat /\ layout.null_bitmap_bytes \in Nat /\ HeaderSize \in Nat
  BY LayoutRoom
<1>2. ASSUME NEW k \in 1..HeaderSize PROVE new[k] = old[k]
  <2>1. k \in 1..m /\ k \in Nat /\ k =< FixedArea(layout)
    BY HeaderIndex
  <2>2. k =< low
    BY <1>1, <2>1
  <2> QED
    BY <2>1, <2>2 DEF SameOutside
<1>3. ASSUME NEW b \in 1..layout.null_bitmap_bytes PROVE new[HeaderSize + b] = old[HeaderSize + b]
  <2> DEFINE k == HeaderSize + b
  <2>1. k \in 1..m /\ k =< FixedArea(layout)
    BY BitmapIndex
  <2> HIDE DEF k
  <2>2. k =< low
    BY <1>1, <2>1
  <2>3. new[k] = old[k]
    BY <2>1, <2>2 DEF SameOutside
  <2> QED
    BY <2>3 DEF k
<1> QED
  BY <1>2, <1>3 DEF HeaderAlike, BitmapAlike

(* A change within the bitmap. *)
LEMMA BelowFields ==
    ASSUME NEW layout, IsLayout(layout), NEW m \in Nat, layout.varlen_payload_offset =< m,
           NEW new, NEW old, NEW low, NEW high \in Nat, high =< FixedArea(layout),
           SameOutside(new, old, m, low, high), NEW j \in 1..Count(layout)
    PROVE  FieldAlike(layout, j, new, old)
<1>1. ASSUME NEW q \in 1..Width(layout, j)
      PROVE  new[Offset(layout, j) + q] = old[Offset(layout, j) + q]
  <2> DEFINE k == Offset(layout, j) + q
  <2>1. k \in 1..m /\ k > FixedArea(layout)
    BY FieldIndex
  <2>2. FixedArea(layout) \in Nat
    BY LayoutRoom
  <2> HIDE DEF k
  <2>3. k > high
    BY <2>1, <2>2
  <2>4. new[k] = old[k]
    BY <2>1, <2>3 DEF SameOutside
  <2> QED
    BY <2>4 DEF k
<1> QED
  BY <1>1 DEF FieldAlike

(* A change to the field of another column. *)
LEMMA OtherField ==
    ASSUME NEW layout, IsLayout(layout), NEW m \in Nat, layout.varlen_payload_offset =< m,
           NEW i \in 1..Count(layout), NEW new, NEW old,
           SameOutside(new, old, m, Offset(layout, i), Offset(layout, i) + Width(layout, i))
    PROVE  OthersAlike(layout, i, new, old)
<1>1. ASSUME NEW j \in 1..Count(layout), j # i, NEW q \in 1..Width(layout, j)
      PROVE  new[Offset(layout, j) + q] = old[Offset(layout, j) + q]
  <2> DEFINE k == Offset(layout, j) + q
             low == Offset(layout, i)
             high == Offset(layout, i) + Width(layout, i)
  <2>1. k \in 1..m
    BY FieldIndex
  <2>2. k \notin (low + 1)..high
    BY <1>1, FieldsApart
  <2>3. low \in Nat /\ high \in Nat
    BY FieldRoom
  <2> HIDE DEF k, low, high
  <2>4. k =< low \/ k > high
    BY <2>1, <2>2, <2>3
  <2>5. SameOutside(new, old, m, low, high)
    BY DEF low, high
  <2>6. new[k] = old[k]
    BY <2>1, <2>4, <2>5 DEF SameOutside
  <2> QED
    BY <2>6 DEF k
<1> QED
  BY <1>1 DEF OthersAlike, FieldAlike

(* A change among the payloads. *)
LEMMA AboveFields ==
    ASSUME NEW layout, IsLayout(layout), NEW m \in Nat, layout.varlen_payload_offset =< m,
           NEW new, NEW old, NEW low \in Nat, NEW high, layout.varlen_payload_offset =< low,
           SameOutside(new, old, m, low, high), NEW j \in 1..Count(layout)
    PROVE  FieldAlike(layout, j, new, old)
<1>1. ASSUME NEW q \in 1..Width(layout, j)
      PROVE  new[Offset(layout, j) + q] = old[Offset(layout, j) + q]
  <2> DEFINE k == Offset(layout, j) + q
  <2>1. k \in 1..m /\ k =< layout.varlen_payload_offset
    BY FieldIndex
  <2>2. layout.varlen_payload_offset \in Nat
    BY LayoutRoom
  <2> HIDE DEF k
  <2>3. k =< low
    BY <2>1, <2>2
  <2>4. new[k] = old[k]
    BY <2>1, <2>3 DEF SameOutside
  <2> QED
    BY <2>4 DEF k
<1> QED
  BY <1>1 DEF FieldAlike

(* A change below the payloads. *)
LEMMA BelowPayloads ==
    ASSUME NEW layout, IsLayout(layout), NEW values, IsRow(layout, values),
           NEW sizes, NEW m, Sized(layout, values, sizes, m), NEW i \in 1..Count(layout),
           NEW new, NEW old, NEW low, NEW high \in Nat, high =< layout.varlen_payload_offset,
           SameOutside(new, old, m, low, high)
    PROVE  PayloadsAlike(layout, values, sizes, i, new, old)
<1>0. Count(layout) \in Nat /\ layout.varlen_payload_offset \in Nat /\ m \in Nat
  BY LayoutRoom, SizedAt
<1>1. ASSUME NEW j \in 1..(i - 1), values[j] # NULL, Varlen(layout, j), NEW q \in 1..Length(values, j)
      PROVE  new[sizes[j - 1] + q] = old[sizes[j - 1] + q]
  <2>1. j \in 1..Count(layout)
    BY <1>0
  <2> DEFINE k == sizes[j - 1] + q
  <2>2. k \in 1..m /\ k > layout.varlen_payload_offset
    BY <1>1, <2>1, PayloadIndex
  <2> HIDE DEF k
  <2>3. k > high
    BY <1>0, <2>2
  <2>4. new[k] = old[k]
    BY <2>2, <2>3 DEF SameOutside
  <2> QED
    BY <2>4 DEF k
<1> QED
  BY <1>1 DEF PayloadsAlike, PayloadAlike

(* A change to the payload of this column. *)
LEMMA LaterPayload ==
    ASSUME NEW layout, IsLayout(layout), NEW values, IsRow(layout, values),
           NEW sizes, NEW m, Sized(layout, values, sizes, m), NEW i \in 1..Count(layout),
           NEW new, NEW old, NEW high, SameOutside(new, old, m, sizes[i - 1], high)
    PROVE  PayloadsAlike(layout, values, sizes, i, new, old)
<1>0. Count(layout) \in Nat /\ m \in Nat /\ sizes[i - 1] \in Nat
  BY LayoutRoom, SizedAt
<1>1. ASSUME NEW j \in 1..(i - 1), values[j] # NULL, Varlen(layout, j), NEW q \in 1..Length(values, j)
      PROVE  new[sizes[j - 1] + q] = old[sizes[j - 1] + q]
  <2>1. j \in 1..Count(layout) /\ j < i
    BY <1>0
  <2> DEFINE k == sizes[j - 1] + q
             low == sizes[i - 1]
             end == sizes[j]
  <2>2. k \in 1..m /\ k =< end
    BY <1>1, <2>1, PayloadIndex
  <2>3. end =< low /\ end \in Nat /\ low \in Nat
    BY <1>0, <2>1, PayloadsApart, SizedAt
  <2>4. SameOutside(new, old, m, low, high)
    OBVIOUS
  <2> HIDE DEF k, low, end
  <2>5. k =< low
    BY <2>2, <2>3
  <2>6. new[k] = old[k]
    BY <2>2, <2>4, <2>5 DEF SameOutside
  <2> QED
    BY <2>6 DEF k
<1> QED
  BY <1>1 DEF PayloadsAlike, PayloadAlike

(* One column more. *)
LEMMA FilledStep ==
    ASSUME NEW layout, IsLayout(layout), NEW values, IsRow(layout, values),
           NEW sizes, NEW m, Sized(layout, values, sizes, m), NEW empty, NEW i \in 1..Count(layout),
           NEW old, Filled(layout, values, sizes, m, empty, i - 1, old),
           NEW new \in [1..m -> Byte], HeaderAlike(new, old),
           NullsMarked(layout, values, i, new),
           FieldWritten(layout, values, sizes, i, new), OthersAlike(layout, i, new, old),
           PayloadsAlike(layout, values, sizes, i, new, old),
           values[i] # NULL /\ Varlen(layout, i) => PayloadIsWritten(values, sizes, i, new)
    PROVE  Filled(layout, values, sizes, m, empty, i, new)
<1>1. HeaderKept(new, empty)
  BY DEF Filled, HeaderKept, HeaderAlike
<1>2. Count(layout) \in Nat
  BY LayoutRoom
<1>3. ASSUME NEW j \in 1..Count(layout), NEW q \in 1..Width(layout, j)
      PROVE  new[Offset(layout, j) + q] = IF j =< i THEN FieldImage(layout, values, sizes, j)[q] ELSE 0
  <2>1. CASE j = i
    <3>1. i =< i
      BY <1>2
    <3> QED
      BY <2>1, <3>1 DEF FieldWritten
  <2>2. CASE j # i
    <3>1. new[Offset(layout, j) + q] = old[Offset(layout, j) + q]
      BY <2>2 DEF OthersAlike, FieldAlike
    <3>2. old[Offset(layout, j) + q] = IF j =< i - 1 THEN FieldImage(layout, values, sizes, j)[q] ELSE 0
      BY DEF Filled, FieldsWritten
    <3>3. j =< i - 1 <=> j =< i
      BY <1>2, <2>2
    <3> QED
      BY <3>1, <3>2, <3>3
  <2> QED
    BY <2>1, <2>2
<1>4. ASSUME NEW j \in 1..i, values[j] # NULL, Varlen(layout, j), NEW q \in 1..Length(values, j)
      PROVE  new[sizes[j - 1] + q] = Payload(values, j)[q]
  <2>1. CASE j = i
    BY <1>4, <2>1 DEF PayloadIsWritten
  <2>2. CASE j # i
    <3>1. j \in 1..(i - 1)
      BY <1>2, <2>2
    <3>2. new[sizes[j - 1] + q] = old[sizes[j - 1] + q]
      BY <1>4, <3>1 DEF PayloadsAlike, PayloadAlike
    <3>3. old[sizes[j - 1] + q] = Payload(values, j)[q]
      BY <1>4, <3>1 DEF Filled, PayloadsWritten
    <3> QED
      BY <3>2, <3>3
  <2> QED
    BY <2>1, <2>2
<1>5. FieldsWritten(layout, values, sizes, i, new)
  BY <1>3 DEF FieldsWritten
<1>6. PayloadsWritten(layout, values, sizes, i, new)
  BY <1>4 DEF PayloadsWritten
<1> QED
  BY <1>1, <1>5, <1>6 DEF Filled

-----------------------------------------------------------------------------
(* The three ways to write a column. *)

LEMMA DigitOfColumn ==
    ASSUME NEW values, NEW i \in Nat \ {0}, NEW p
    PROVE  /\ values[i] # NULL => NullDigit(values, i, p) = NullDigit(values, i - 1, p)
           /\ values[i] = NULL => NullDigit(values, i, p)
                                     = IF p = i THEN 1 ELSE NullDigit(values, i - 1, p)
<1>1. p \in 1..i <=> p = i \/ p \in 1..(i - 1)
  OBVIOUS
<1>2. i \notin 1..(i - 1)
  OBVIOUS
<1> QED
  BY <1>1, <1>2 DEF NullDigit

LEMMA NullsStay ==
    ASSUME NEW layout, NEW values, NEW i \in Nat \ {0}, values[i] # NULL, NEW old, NEW new,
           NullsMarked(layout, values, i - 1, old), BitmapAlike(layout, new, old)
    PROVE  NullsMarked(layout, values, i, new)
<1>1. ASSUME NEW b \in 1..layout.null_bitmap_bytes, NEW bit \in 1..ByteBits
      PROVE  Bits(new[HeaderSize + b])[bit] = NullDigit(values, i, (b - 1) * ByteBits + bit)
  <2>1. new[HeaderSize + b] = old[HeaderSize + b]
    BY DEF BitmapAlike
  <2>2. Bits(old[HeaderSize + b])[bit] = NullDigit(values, i - 1, (b - 1) * ByteBits + bit)
    BY DEF NullsMarked
  <2>3. NullDigit(values, i, (b - 1) * ByteBits + bit)
           = NullDigit(values, i - 1, (b - 1) * ByteBits + bit)
    BY DigitOfColumn
  <2> QED
    BY <2>1, <2>2, <2>3, Zenon
<1> QED
  BY <1>1 DEF NullsMarked

LEMMA BitmapOverwritten ==
    ASSUME NEW m \in Nat, NEW t \in [1..m -> Byte], NEW offset \in Nat, NEW size \in Nat,
           offset + size =< m, NEW bitmap \in [1..size -> Byte],
           NEW i \in Nat \ {0}, BitmapByte(i) \in 1..size
    PROVE  /\ Overwrite(t, offset, SetNull(bitmap, i)) \in [1..m -> Byte]
           /\ \A b \in 1..size, bit \in 1..ByteBits :
                 Bits(Overwrite(t, offset, SetNull(bitmap, i))[offset + b])[bit]
                    = IF (b - 1) * ByteBits + bit = i THEN 1 ELSE Bits(bitmap[b])[bit]
           /\ SameOutside(Overwrite(t, offset, SetNull(bitmap, i)), t, m, offset, offset + size)
<1> DEFINE set == SetNull(bitmap, i)
           new == Overwrite(t, offset, set)
<1>1. /\ set \in [1..size -> Byte]
      /\ \A b \in 1..size, bit \in 1..ByteBits :
            Bits(set[b])[bit] = IF (b - 1) * ByteBits + bit = i THEN 1 ELSE Bits(bitmap[b])[bit]
  BY SetNullAt
<1> HIDE DEF set
<1>4. set \in [1..size -> Byte]
  BY <1>1
<1>2. /\ new \in [1..m -> Byte] /\ \A b \in 1..size : new[offset + b] = set[b]
      /\ SameOutside(new, t, m, offset, offset + size)
  BY <1>4, OverwriteWithin
<1> HIDE DEF new
<1>3. ASSUME NEW b \in 1..size, NEW bit \in 1..ByteBits
      PROVE  Bits(new[offset + b])[bit] = IF (b - 1) * ByteBits + bit = i THEN 1 ELSE Bits(bitmap[b])[bit]
  <2>1. new[offset + b] = set[b]
    BY <1>2
  <2>2. Bits(set[b])[bit] = IF (b - 1) * ByteBits + bit = i THEN 1 ELSE Bits(bitmap[b])[bit]
    BY <1>1
  <2> QED
    BY <2>1, <2>2
<1> QED
  BY <1>2, <1>3 DEF new, set

LEMMA NullStep ==
    ASSUME NEW layout, IsLayout(layout), NEW values, IsRow(layout, values),
           NEW sizes, NEW m, Sized(layout, values, sizes, m), NEW empty, NEW i \in 1..Count(layout),
           values[i] = NULL, NEW old, Filled(layout, values, sizes, m, empty, i - 1, old)
    PROVE  Filled(layout, values, sizes, m, empty, i,
                  Overwrite(old, HeaderSize, SetNull(Bitmap(layout, old), i)))
<1> DEFINE bitmap == Bitmap(layout, old)
           set == SetNull(bitmap, i)
           new == Overwrite(old, HeaderSize, set)
           size == layout.null_bitmap_bytes
<1>1. /\ m \in Nat /\ layout.varlen_payload_offset =< m /\ old \in [1..m -> Byte]
      /\ HeaderSize \in Nat /\ size \in Nat /\ HeaderSize + size = FixedArea(layout)
      /\ FixedArea(layout) \in Nat /\ FixedArea(layout) =< layout.varlen_payload_offset
      /\ layout.varlen_payload_offset \in Nat /\ i \in Nat \ {0} /\ Count(layout) \in Nat
  BY LayoutRoom, SizedAt DEF Filled
<1>2. bitmap \in [1..size -> Byte] /\ \A b \in 1..size : bitmap[b] = old[HeaderSize + b]
  BY <1>1, BitmapAt
<1>3. BitmapByte(i) \in 1..size
  BY BitOfColumn
<1>5. HeaderSize + size =< m
  BY <1>1
<1> HIDE DEF bitmap, size
<1>6. /\ new \in [1..m -> Byte]
      /\ \A b \in 1..size, bit \in 1..ByteBits :
            Bits(new[HeaderSize + b])[bit]
               = IF (b - 1) * ByteBits + bit = i THEN 1 ELSE Bits(bitmap[b])[bit]
      /\ SameOutside(new, old, m, HeaderSize, HeaderSize + size)
  BY <1>1, <1>2, <1>3, <1>5, BitmapOverwritten
<1> HIDE DEF new
<1>7. HeaderAlike(new, old)
  <2>1. ASSUME NEW k \in 1..HeaderSize PROVE new[k] = old[k]
    <3>1. k \in 1..m /\ k =< HeaderSize
      BY <1>1, <1>5
    <3>2. SameOutside(new, old, m, HeaderSize, HeaderSize + size)
      BY <1>6
    <3> QED
      BY <3>1, <3>2 DEF SameOutside
  <2> QED
    BY <2>1 DEF HeaderAlike
<1>8. NullsMarked(layout, values, i, new)
  <2>1. ASSUME NEW b \in 1..layout.null_bitmap_bytes, NEW bit \in 1..ByteBits
        PROVE  Bits(new[HeaderSize + b])[bit] = NullDigit(values, i, (b - 1) * ByteBits + bit)
    <3> DEFINE p == (b - 1) * ByteBits + bit
    <3>2. Bits(new[HeaderSize + b])[bit] = IF p = i THEN 1 ELSE Bits(bitmap[b])[bit]
      BY <1>6 DEF size
    <3>3. bitmap[b] = old[HeaderSize + b]
      BY <1>2 DEF size
    <3>4. Bits(old[HeaderSize + b])[bit] = NullDigit(values, i - 1, p)
      BY DEF Filled, NullsMarked
    <3>5. NullDigit(values, i, p) = IF p = i THEN 1 ELSE NullDigit(values, i - 1, p)
      BY <1>1, DigitOfColumn
    <3> HIDE DEF p
    <3>6. Bits(new[HeaderSize + b])[bit] = NullDigit(values, i, p)
      BY <3>2, <3>3, <3>4, <3>5
    <3> QED
      BY <3>6 DEF p
  <2> QED
    BY <2>1 DEF NullsMarked
<1>9. ASSUME NEW j \in 1..Count(layout) PROVE FieldAlike(layout, j, new, old)
  <2>1. HeaderSize + size \in Nat /\ HeaderSize + size =< FixedArea(layout)
    BY <1>1
  <2> QED
    BY <1>1, <1>6, <2>1, BelowFields
<1>10. FieldWritten(layout, values, sizes, i, new)
  <2>1. ASSUME NEW q \in 1..Width(layout, i)
        PROVE  new[Offset(layout, i) + q] = FieldImage(layout, values, sizes, i)[q]
    <3>1. new[Offset(layout, i) + q] = old[Offset(layout, i) + q]
      BY <1>9 DEF FieldAlike
    <3>2. ~(i =< i - 1)
      BY <1>1
    <3>3. old[Offset(layout, i) + q] = 0
      BY <3>2 DEF Filled, FieldsWritten
    <3>4. FieldImage(layout, values, sizes, i) = Zeroes(Width(layout, i))
      BY DEF FieldImage
    <3>5. Zeroes(Width(layout, i))[q] = 0
      BY DEF Zeroes
    <3> QED
      BY <3>1, <3>3, <3>4, <3>5
  <2> QED
    BY <2>1 DEF FieldWritten
<1>11. OthersAlike(layout, i, new, old)
  BY <1>9 DEF OthersAlike
<1>12. PayloadsAlike(layout, values, sizes, i, new, old)
  <2>1. HeaderSize + size \in Nat /\ HeaderSize + size =< layout.varlen_payload_offset
    BY <1>1
  <2> QED
    BY <1>6, <2>1, BelowPayloads
<1>13. Filled(layout, values, sizes, m, empty, i, new)
  BY <1>6, <1>7, <1>8, <1>10, <1>11, <1>12, FilledStep
<1> QED
  BY <1>13 DEF new, set, bitmap

LEMMA FieldOverwritten ==
    ASSUME NEW layout, IsLayout(layout), NEW values, IsRow(layout, values),
           NEW sizes, NEW m, Sized(layout, values, sizes, m), NEW i \in 1..Count(layout),
           NEW old \in [1..m -> Byte], NEW new,
           new = Overwrite(old, Offset(layout, i), FieldImage(layout, values, sizes, i))
    PROVE  /\ new \in [1..m -> Byte] /\ HeaderAlike(new, old) /\ BitmapAlike(layout, new, old)
           /\ FieldWritten(layout, values, sizes, i, new) /\ OthersAlike(layout, i, new, old)
           /\ PayloadsAlike(layout, values, sizes, i, new, old)
<1> DEFINE offset == Offset(layout, i)
           width == Width(layout, i)
           span == FieldImage(layout, values, sizes, i)
<1>1. /\ offset \in Nat /\ width \in Nat /\ FixedArea(layout) =< offset
      /\ offset + width =< layout.varlen_payload_offset
  BY FieldRoom
<1>2. /\ m \in Nat /\ layout.varlen_payload_offset =< m /\ sizes[i - 1] \in Nat
      /\ layout.varlen_payload_offset \in Nat
  BY LayoutRoom, SizedAt
<1>3. span \in [1..width -> Byte]
  BY <1>2, FieldImageType
<1>4. new = Overwrite(old, offset, span)
  OBVIOUS
<1> HIDE DEF offset, width, span
<1>5. offset + width =< m /\ offset + width \in Nat
  BY <1>1, <1>2
<1>6. /\ new \in [1..m -> Byte] /\ \A q \in 1..width : new[offset + q] = span[q]
      /\ SameOutside(new, old, m, offset, offset + width)
  BY <1>1, <1>2, <1>3, <1>4, <1>5, OverwriteWithin
<1>7. HeaderAlike(new, old) /\ BitmapAlike(layout, new, old)
  BY <1>1, <1>2, <1>6, AboveFixedArea
<1>8. FieldWritten(layout, values, sizes, i, new)
  BY <1>6 DEF FieldWritten, offset, width, span
<1>9. OthersAlike(layout, i, new, old)
  <2>1. SameOutside(new, old, m, Offset(layout, i), Offset(layout, i) + Width(layout, i))
    BY <1>6 DEF offset, width
  <2> QED
    BY <1>2, <2>1, OtherField
<1>10. PayloadsAlike(layout, values, sizes, i, new, old)
  BY <1>1, <1>5, <1>6, BelowPayloads
<1> QED
  BY <1>6, <1>7, <1>8, <1>9, <1>10

LEMMA FixedStep ==
    ASSUME NEW layout, IsLayout(layout), NEW values, IsRow(layout, values),
           NEW sizes, NEW m, Sized(layout, values, sizes, m), NEW empty, NEW i \in 1..Count(layout),
           values[i] # NULL, ~Varlen(layout, i),
           NEW old, Filled(layout, values, sizes, m, empty, i - 1, old)
    PROVE  Filled(layout, values, sizes, m, empty, i,
                  Overwrite(old, Offset(layout, i), EncodeFixedScalar(Type(layout, i), values[i])))
<1> DEFINE new == Overwrite(old, Offset(layout, i), EncodeFixedScalar(Type(layout, i), values[i]))
<1>1. new = Overwrite(old, Offset(layout, i), FieldImage(layout, values, sizes, i))
  BY DEF FieldImage
<1> HIDE DEF new
<1>2. old \in [1..m -> Byte] /\ NullsMarked(layout, values, i - 1, old)
  BY DEF Filled
<1>3. /\ new \in [1..m -> Byte] /\ HeaderAlike(new, old) /\ BitmapAlike(layout, new, old)
      /\ FieldWritten(layout, values, sizes, i, new) /\ OthersAlike(layout, i, new, old)
      /\ PayloadsAlike(layout, values, sizes, i, new, old)
  BY <1>1, <1>2, FieldOverwritten
<1>4. i \in Nat \ {0}
  BY LayoutRoom
<1>5. NullsMarked(layout, values, i, new)
  BY <1>2, <1>3, <1>4, NullsStay
<1>6. Filled(layout, values, sizes, m, empty, i, new)
  BY <1>3, <1>5, FilledStep
<1> QED
  BY <1>6 DEF new

LEMMA PayloadOverwritten ==
    ASSUME NEW layout, IsLayout(layout), NEW values, IsRow(layout, values),
           NEW sizes, NEW m, Sized(layout, values, sizes, m), NEW i \in 1..Count(layout),
           values[i] # NULL, Varlen(layout, i),
           NEW old \in [1..m -> Byte], NEW new,
           new = Overwrite(old, sizes[i - 1], Payload(values, i))
    PROVE  /\ new \in [1..m -> Byte] /\ HeaderAlike(new, old) /\ BitmapAlike(layout, new, old)
           /\ \A j \in 1..Count(layout) : FieldAlike(layout, j, new, old)
           /\ PayloadIsWritten(values, sizes, i, new)
           /\ PayloadsAlike(layout, values, sizes, i, new, old)
<1> DEFINE offset == sizes[i - 1]
           end == sizes[i]
           length == Length(values, i)
           span == Payload(values, i)
<1>1. /\ offset \in Nat /\ end \in Nat /\ layout.varlen_payload_offset =< offset /\ end =< m
      /\ m \in Nat /\ layout.varlen_payload_offset =< m
      /\ layout.varlen_payload_offset \in Nat /\ FixedArea(layout) \in Nat
      /\ FixedArea(layout) =< layout.varlen_payload_offset
  <2>1. /\ sizes[i - 1] \in Nat /\ sizes[i] \in Nat
        /\ layout.varlen_payload_offset =< sizes[i - 1] /\ sizes[i] =< m
        /\ m \in Nat /\ layout.varlen_payload_offset =< m
    BY SizedAt
  <2>2. /\ layout.varlen_payload_offset \in Nat /\ FixedArea(layout) \in Nat
        /\ FixedArea(layout) =< layout.varlen_payload_offset
    BY LayoutRoom
  <2> QED
    BY <2>1, <2>2
<1>2. end = offset + length
  BY DEF Sized
<1>3. length \in Nat /\ span \in [1..length -> Byte]
  BY PayloadAt
<1>4. new = Overwrite(old, offset, span)
  OBVIOUS
<1> HIDE DEF offset, end, length, span
<1>5. /\ new \in [1..m -> Byte] /\ \A q \in 1..length : new[offset + q] = span[q]
      /\ SameOutside(new, old, m, offset, offset + length)
  <2>1. offset + length =< m
    BY <1>1, <1>2
  <2> QED
    BY <1>1, <1>3, <1>4, <2>1, OverwriteWithin
<1>6. FixedArea(layout) =< offset
  BY <1>1
<1>7. HeaderAlike(new, old) /\ BitmapAlike(layout, new, old)
  BY <1>1, <1>5, <1>6, AboveFixedArea
<1>8. ASSUME NEW j \in 1..Count(layout) PROVE FieldAlike(layout, j, new, old)
  BY <1>1, <1>5, AboveFields
<1>9. PayloadIsWritten(values, sizes, i, new)
  BY <1>5 DEF PayloadIsWritten, offset, length, span
<1>10. PayloadsAlike(layout, values, sizes, i, new, old)
  BY <1>5, LaterPayload DEF offset
<1> QED
  BY <1>5, <1>7, <1>8, <1>9, <1>10

LEMMA VarlenStep ==
    ASSUME NEW layout, IsLayout(layout), NEW values, IsRow(layout, values),
           NEW sizes, NEW m, Sized(layout, values, sizes, m), NEW empty, NEW i \in 1..Count(layout),
           values[i] # NULL, Varlen(layout, i),
           NEW old, Filled(layout, values, sizes, m, empty, i - 1, old)
    PROVE  Filled(layout, values, sizes, m, empty, i,
                  Overwrite(Overwrite(old, Offset(layout, i),
                                      EncodeVarcharDescriptor(sizes[i - 1], Length(values, i))),
                            sizes[i - 1], Payload(values, i)))
<1> DEFINE mid == Overwrite(old, Offset(layout, i),
                            EncodeVarcharDescriptor(sizes[i - 1], Length(values, i)))
           new == Overwrite(mid, sizes[i - 1], Payload(values, i))
<1>1. mid = Overwrite(old, Offset(layout, i), FieldImage(layout, values, sizes, i))
  BY DEF FieldImage, Length, Payload
<1> HIDE DEF mid
<1>2. old \in [1..m -> Byte] /\ NullsMarked(layout, values, i - 1, old)
  BY DEF Filled
<1>3. /\ mid \in [1..m -> Byte] /\ HeaderAlike(mid, old) /\ BitmapAlike(layout, mid, old)
      /\ FieldWritten(layout, values, sizes, i, mid) /\ OthersAlike(layout, i, mid, old)
      /\ PayloadsAlike(layout, values, sizes, i, mid, old)
  BY <1>1, <1>2, FieldOverwritten
<1>4. new = Overwrite(mid, sizes[i - 1], Payload(values, i))
  OBVIOUS
<1> HIDE DEF new
<1>5. /\ new \in [1..m -> Byte] /\ HeaderAlike(new, mid) /\ BitmapAlike(layout, new, mid)
      /\ \A j \in 1..Count(layout) : FieldAlike(layout, j, new, mid)
      /\ PayloadIsWritten(values, sizes, i, new)
      /\ PayloadsAlike(layout, values, sizes, i, new, mid)
  BY <1>3, <1>4, PayloadOverwritten
<1>6. HeaderAlike(new, old)
  BY <1>3, <1>5 DEF HeaderAlike
<1>7. BitmapAlike(layout, new, old)
  BY <1>3, <1>5 DEF BitmapAlike
<1>8. FieldWritten(layout, values, sizes, i, new)
  BY <1>3, <1>5 DEF FieldWritten, FieldAlike
<1>9. OthersAlike(layout, i, new, old)
  <2>1. ASSUME NEW j \in 1..Count(layout), j # i, NEW q \in 1..Width(layout, j)
        PROVE  new[Offset(layout, j) + q] = old[Offset(layout, j) + q]
    <3>1. new[Offset(layout, j) + q] = mid[Offset(layout, j) + q]
      BY <1>5 DEF FieldAlike
    <3>2. mid[Offset(layout, j) + q] = old[Offset(layout, j) + q]
      BY <1>3, <2>1 DEF OthersAlike, FieldAlike
    <3> QED
      BY <3>1, <3>2
  <2> QED
    BY <2>1 DEF OthersAlike, FieldAlike
<1>10. PayloadsAlike(layout, values, sizes, i, new, old)
  <2>1. ASSUME NEW j \in 1..(i - 1), values[j] # NULL, Varlen(layout, j), NEW q \in 1..Length(values, j)
        PROVE  new[sizes[j - 1] + q] = old[sizes[j - 1] + q]
    <3>1. new[sizes[j - 1] + q] = mid[sizes[j - 1] + q]
      BY <1>5, <2>1 DEF PayloadsAlike, PayloadAlike
    <3>2. mid[sizes[j - 1] + q] = old[sizes[j - 1] + q]
      BY <1>3, <2>1 DEF PayloadsAlike, PayloadAlike
    <3> QED
      BY <3>1, <3>2
  <2> QED
    BY <2>1 DEF PayloadsAlike, PayloadAlike
<1>11. i \in Nat \ {0}
  BY LayoutRoom
<1>12. NullsMarked(layout, values, i, new)
  BY <1>2, <1>7, <1>11, NullsStay
<1>13. Filled(layout, values, sizes, m, empty, i, new)
  BY <1>5, <1>6, <1>8, <1>9, <1>10, <1>12, FilledStep
<1> QED
  BY <1>13 DEF new, mid

(* The tuple before the first column. *)
LEMMA FilledStart ==
    ASSUME NEW layout, IsLayout(layout), NEW values, NEW sizes, NEW m \in Nat,
           layout.varlen_payload_offset =< m, NEW empty \in [1..m -> Byte],
           \A k \in 1..m : k > HeaderSize => empty[k] = 0
    PROVE  Filled(layout, values, sizes, m, empty, 0, empty)
<1>1. HeaderKept(empty, empty)
  BY DEF HeaderKept
<1>2. ASSUME NEW b \in 1..layout.null_bitmap_bytes, NEW bit \in 1..ByteBits
      PROVE  Bits(empty[HeaderSize + b])[bit] = NullDigit(values, 0, (b - 1) * ByteBits + bit)
  <2> DEFINE k == HeaderSize + b
             p == (b - 1) * ByteBits + bit
  <2>1. k \in 1..m /\ k > HeaderSize
    BY BitmapIndex
  <2> HIDE DEF k, p
  <2>2. empty[k] = 0
    BY <2>1
  <2>3. Bits(empty[k])[bit] = 0
    BY <2>2, ZeroBits
  <2>4. NullDigit(values, 0, p) = 0
    BY DEF NullDigit
  <2>5. Bits(empty[k])[bit] = NullDigit(values, 0, p)
    BY <2>3, <2>4
  <2> QED
    BY <2>5 DEF k, p
<1>3. ASSUME NEW j \in 1..Count(layout), NEW q \in 1..Width(layout, j)
      PROVE  empty[Offset(layout, j) + q]
                = IF j =< 0 THEN FieldImage(layout, values, sizes, j)[q] ELSE 0
  <2> DEFINE k == Offset(layout, j) + q
  <2>1. k \in 1..m /\ k > HeaderSize
    BY FieldIndex
  <2>2. ~(j =< 0)
    BY LayoutRoom
  <2> HIDE DEF k
  <2>3. empty[k] = 0
    BY <2>1
  <2> QED
    BY <2>2, <2>3 DEF k
<1>4. NullsMarked(layout, values, 0, empty)
  BY <1>2 DEF NullsMarked
<1>5. FieldsWritten(layout, values, sizes, 0, empty)
  BY <1>3 DEF FieldsWritten
<1>6. PayloadsWritten(layout, values, sizes, 0, empty)
  BY DEF PayloadsWritten
<1> QED
  BY <1>1, <1>4, <1>5, <1>6 DEF Filled

LEMMA NoOverrun ==
    ASSUME NEW m \in Nat, m =< MaxOf(WordSize), NEW t \in [1..m -> Byte], NEW c \in Nat,
           NEW l \in Nat, c + l =< m
    PROVE  ~Overruns(t, c, l)
<1>1. Len(t) = m
  OBVIOUS
<1>2. MaxOf(WordSize) \in Nat
  BY Maxima
<1> QED
  BY <1>1, <1>2 DEF Overruns

LEMMA ColumnStep ==
    ASSUME NEW layout, IsLayout(layout), NEW values, IsRow(layout, values),
           NEW sizes, NEW m, Sized(layout, values, sizes, m), m =< MaxOf(WordSize),
           NEW empty, NEW i \in 1..Count(layout), NEW f,
           NEW old, Filled(layout, values, sizes, m, empty, i - 1, old)
    PROVE  \E new : /\ EncodeColumn(layout, values, Progress(old, sizes[i - 1], f), i)
                          = Progress(new, sizes[i], f)
                    /\ Filled(layout, values, sizes, m, empty, i, new)
<1>1. CASE values[i] = NULL
  <2> DEFINE new == Overwrite(old, HeaderSize, SetNull(Bitmap(layout, old), i))
  <2>1. EncodeColumn(layout, values, Progress(old, sizes[i - 1], f), i) = Progress(new, sizes[i - 1], f)
    BY <1>1, ColumnNull
  <2>2. Filled(layout, values, sizes, m, empty, i, new)
    BY <1>1, NullStep
  <2>3. sizes[i] = sizes[i - 1]
    BY <1>1 DEF Sized
  <2> HIDE DEF new
  <2> QED
    BY <2>1, <2>2, <2>3
<1>2. CASE values[i] # NULL /\ ~Varlen(layout, i)
  <2> DEFINE new == Overwrite(old, Offset(layout, i), EncodeFixedScalar(Type(layout, i), values[i]))
  <2>1. EncodeColumn(layout, values, Progress(old, sizes[i - 1], f), i) = Progress(new, sizes[i - 1], f)
    BY <1>2, ColumnFixed
  <2>2. Filled(layout, values, sizes, m, empty, i, new)
    BY <1>2, FixedStep
  <2>3. sizes[i] = sizes[i - 1]
    BY <1>2 DEF Sized
  <2> HIDE DEF new
  <2> QED
    BY <2>1, <2>2, <2>3
<1>3. CASE values[i] # NULL /\ Varlen(layout, i)
  <2> DEFINE c == sizes[i - 1]
             l == Length(values, i)
             new == Overwrite(Overwrite(old, Offset(layout, i), EncodeVarcharDescriptor(c, l)),
                              c, Payload(values, i))
  <2>1. sizes[i] = c + l
    BY <1>3 DEF Sized
  <2>2. Filled(layout, values, sizes, m, empty, i, new)
    BY <1>3, VarlenStep
  <2>3. m \in Nat /\ c \in Nat /\ sizes[i] =< m
    BY SizedAt
  <2>4. l \in Nat
    BY <1>3, PayloadAt
  <2>5. old \in [1..m -> Byte]
    BY DEF Filled
  <2>6. ~Overruns(old, c, l)
    <3> HIDE DEF c, l
    <3> QED
      BY <2>1, <2>3, <2>4, <2>5, NoOverrun
  <2>7. EncodeColumn(layout, values, Progress(old, c, f), i) = Progress(new, c + l, f)
    <3>1. l = Len(values[i][2]) /\ Payload(values, i) = values[i][2]
      BY DEF Length, Payload
    <3>2. ~Overruns(old, c, Len(values[i][2]))
      BY <2>6, <3>1
    <3>3. EncodeColumn(layout, values, Progress(old, c, f), i)
             = Progress(Overwrite(Overwrite(old, Offset(layout, i),
                                            EncodeVarcharDescriptor(c, Len(values[i][2]))),
                                  c, values[i][2]),
                        c + Len(values[i][2]), f)
      <4> HIDE DEF c, l, new
      <4>1. values[i] # NULL /\ Varlen(layout, i)
        BY <1>3
      <4> QED
        BY <3>2, <4>1, ColumnVarlen
    <3> QED
      BY <3>1, <3>3 DEF Length, Payload
  <2> HIDE DEF new, l
  <2> QED
    BY <2>1, <2>2, <2>7
<1> QED
  BY <1>1, <1>2, <1>3

LEMMA AllColumns ==
    ASSUME NEW layout, IsLayout(layout), NEW values, IsRow(layout, values),
           NEW sizes, NEW m, Sized(layout, values, sizes, m), m =< MaxOf(WordSize),
           NEW empty \in [1..m -> Byte], \A k \in 1..m : k > HeaderSize => empty[k] = 0
    PROVE  \E new : /\ EncodedColumns(layout, values, empty)[Count(layout)] = Progress(new, m, FALSE)
                    /\ Filled(layout, values, sizes, m, empty, Count(layout), new)
<1> DEFINE n == Count(layout)
           E == EncodedColumns(layout, values, empty)
           Done(i) == \E new : /\ E[i] = Progress(new, sizes[i], FALSE)
                               /\ Filled(layout, values, sizes, m, empty, i, new)
           T == {i \in 0..n : Done(i)}
<1>1. n \in Nat /\ m \in Nat /\ layout.varlen_payload_offset =< m
  BY LayoutRoom, SizedAt
<1>2. /\ E[0] = Progress(empty, layout.varlen_payload_offset, FALSE)
      /\ \A i \in 1..n : E[i] = EncodeColumn(layout, values, E[i - 1], i)
  BY <1>1, ColumnSteps
<1> HIDE DEF E
<1>3. sizes[0] = layout.varlen_payload_offset /\ sizes[n] = m
  BY DEF Sized
<1>4. Done(0)
  BY <1>1, <1>2, <1>3, FilledStart
<1>5. ASSUME NEW i \in 1..n, Done(i - 1) PROVE Done(i)
  <2>1. PICK old : /\ E[i - 1] = Progress(old, sizes[i - 1], FALSE)
                   /\ Filled(layout, values, sizes, m, empty, i - 1, old)
    BY <1>5
  <2>2. E[i] = EncodeColumn(layout, values, Progress(old, sizes[i - 1], FALSE), i)
    BY <1>2, <2>1
  <2>3. \E new : /\ EncodeColumn(layout, values, Progress(old, sizes[i - 1], FALSE), i)
                       = Progress(new, sizes[i], FALSE)
                 /\ Filled(layout, values, sizes, m, empty, i, new)
    BY <2>1, ColumnStep
  <2> QED
    BY <2>2, <2>3
<1> HIDE DEF Done
<1>6. 0 \in T
  BY <1>1, <1>4
<1>7. ASSUME NEW i \in 1..n, i - 1 \in T PROVE i \in T
  BY <1>1, <1>5, <1>7
<1>8. 0..n \subseteq T
  <2> HIDE DEF T, n
  <2> QED
    BY <1>1, <1>6, <1>7, InductionTo
<1>9. Done(n)
  BY <1>1, <1>8
<1> QED
  BY <1>3, <1>9 DEF Done, E

-----------------------------------------------------------------------------
(* The whole tuple. *)

MetadataFits(metadata) ==
    /\ metadata.xmin \in 0..MaxOf(2 * WordSize) /\ metadata.xmax \in 0..MaxOf(2 * WordSize)
    /\ metadata.cmin \in 0..MaxOf(WordSize) /\ metadata.cmax \in 0..MaxOf(WordSize)
    /\ metadata.prev_page_no \in 0..MaxOf(2 * WordSize) /\ metadata.prev_slot \in 0..MaxOf(HalfSize)

HasNulls(values) == \E i \in DOMAIN values : values[i] = NULL

LEMMA Flags ==
    ASSUME NEW header, NEW N, NEW V,
           header.tuple_flags = (IF N THEN TUPLE_FLAG_HAS_NULLS ELSE 0)
                                   + (IF V THEN TUPLE_FLAG_HAS_VARLEN ELSE 0)
    PROVE  /\ header.tuple_flags \in 0..3
           /\ HasFlag(header, TUPLE_FLAG_HAS_NULLS) <=> N
           /\ HasFlag(header, TUPLE_FLAG_HAS_VARLEN) <=> V
<1> DEFINE flags == header.tuple_flags
<1>1. /\ HasFlag(header, TUPLE_FLAG_HAS_NULLS) <=> (flags \div 1) % 2 = 1
      /\ HasFlag(header, TUPLE_FLAG_HAS_VARLEN) <=> (flags \div 2) % 2 = 1
  BY DEF HasFlag, TUPLE_FLAG_HAS_NULLS, TUPLE_FLAG_HAS_VARLEN
<1>2. flags = (IF N THEN 1 ELSE 0) + (IF V THEN 2 ELSE 0)
  BY DEF TUPLE_FLAG_HAS_NULLS, TUPLE_FLAG_HAS_VARLEN
<1> HIDE DEF flags
<1>3. CASE N /\ V
  <2>1. flags = 3
    BY <1>2, <1>3
  <2> QED
    BY <1>1, <1>3, <2>1 DEF flags
<1>4. CASE N /\ ~V
  <2>1. flags = 1
    BY <1>2, <1>4
  <2> QED
    BY <1>1, <1>4, <2>1 DEF flags
<1>5. CASE ~N /\ V
  <2>1. flags = 2
    BY <1>2, <1>5
  <2> QED
    BY <1>1, <1>5, <2>1 DEF flags
<1>6. CASE ~N /\ ~V
  <2>1. flags = 0
    BY <1>2, <1>6
  <2> QED
    BY <1>1, <1>6, <2>1 DEF flags
<1> QED
  BY <1>3, <1>4, <1>5, <1>6

LEMMA EncodedHeaderAt ==
    ASSUME NEW layout, NEW metadata, NEW values
    PROVE  /\ EncodedHeader(layout, metadata, values).xmin = metadata.xmin
           /\ EncodedHeader(layout, metadata, values).xmax = metadata.xmax
           /\ EncodedHeader(layout, metadata, values).cmin = metadata.cmin
           /\ EncodedHeader(layout, metadata, values).cmax = metadata.cmax
           /\ EncodedHeader(layout, metadata, values).prev_page_no = metadata.prev_page_no
           /\ EncodedHeader(layout, metadata, values).prev_slot = metadata.prev_slot
           /\ EncodedHeader(layout, metadata, values).tuple_flags
                 = (IF HasNulls(values) THEN TUPLE_FLAG_HAS_NULLS ELSE 0)
                      + (IF HasVarlenColumns(layout) THEN TUPLE_FLAG_HAS_VARLEN ELSE 0)
           /\ EncodedHeader(layout, metadata, values).header_bytes = HeaderSize
           /\ EncodedHeader(layout, metadata, values).null_bitmap_bytes = layout.null_bitmap_bytes
           /\ EncodedHeader(layout, metadata, values).schema_version = layout.schema_version
           /\ EncodedHeader(layout, metadata, values).reserved = 0
BY DEF EncodedHeader, HasNulls

LEMMA HeaderDomain ==
    /\ DOMAIN HeaderFields = {"xmin", "xmax", "cmin", "cmax", "prev_page_no", "prev_slot", "tuple_flags",
                              "header_bytes", "null_bitmap_bytes", "schema_version", "reserved"}
    /\ HeaderFields["xmin"][2] = 2 * WordSize /\ HeaderFields["xmax"][2] = 2 * WordSize
    /\ HeaderFields["cmin"][2] = WordSize /\ HeaderFields["cmax"][2] = WordSize
    /\ HeaderFields["prev_page_no"][2] = 2 * WordSize /\ HeaderFields["prev_slot"][2] = HalfSize
    /\ HeaderFields["tuple_flags"][2] = HalfSize /\ HeaderFields["header_bytes"][2] = HalfSize
    /\ HeaderFields["null_bitmap_bytes"][2] = HalfSize
    /\ HeaderFields["schema_version"][2] = WordSize /\ HeaderFields["reserved"][2] = WordSize
BY DEF HeaderFields

LEMMA HeaderFits ==
    ASSUME NEW layout, IsLayout(layout), NEW metadata, MetadataFits(metadata), NEW values
    PROVE  IsHeader(EncodedHeader(layout, metadata, values))
<1> DEFINE h == EncodedHeader(layout, metadata, values)
<1>1. DOMAIN h = DOMAIN HeaderFields /\ h = [f \in DOMAIN HeaderFields |-> h[f]]
  BY HeaderDomain DEF EncodedHeader
<1>2. /\ h.xmin \in 0..MaxOf(2 * WordSize) /\ h.xmax \in 0..MaxOf(2 * WordSize)
      /\ h.cmin \in 0..MaxOf(WordSize) /\ h.cmax \in 0..MaxOf(WordSize)
      /\ h.prev_page_no \in 0..MaxOf(2 * WordSize) /\ h.prev_slot \in 0..MaxOf(HalfSize)
  BY EncodedHeaderAt DEF MetadataFits
<1>3. MaxOf(HalfSize) \in Nat /\ MaxOf(WordSize) \in Nat /\ 4 =< MaxOf(HalfSize)
  <2>1. WordSize \in Nat \ {0} /\ HalfSize \in Nat \ {0}
    BY EncodingAssumption
  <2>2. 4 =< HeaderSize
    BY <2>1 DEF HeaderSize
  <2> QED
    BY <2>2, Maxima, HeaderRoom
<1>4. h.tuple_flags \in 0..MaxOf(HalfSize)
  <2>1. h.tuple_flags \in 0..3
    <3> HIDE DEF h
    <3>1. h.tuple_flags = (IF HasNulls(values) THEN TUPLE_FLAG_HAS_NULLS ELSE 0)
                             + (IF HasVarlenColumns(layout) THEN TUPLE_FLAG_HAS_VARLEN ELSE 0)
      BY EncodedHeaderAt DEF h
    <3> QED
      BY <3>1 DEF TUPLE_FLAG_HAS_NULLS, TUPLE_FLAG_HAS_VARLEN
  <2> HIDE DEF h
  <2> QED
    BY <1>3, <2>1
<1>5. h.header_bytes \in 0..MaxOf(HalfSize)
  BY <1>3, EncodedHeaderAt, LayoutRoom, HeaderAssumption
<1>6. h.null_bitmap_bytes \in 0..MaxOf(HalfSize) /\ h.schema_version \in 0..MaxOf(WordSize)
  BY <1>3, EncodedHeaderAt DEF IsLayout
<1>7. h.reserved \in 0..MaxOf(WordSize)
  BY <1>3, EncodedHeaderAt
<1> HIDE DEF h
<1>8. ASSUME NEW f \in DOMAIN HeaderFields PROVE h[f] \in 0..MaxOf(HeaderFields[f][2])
  BY <1>2, <1>4, <1>5, <1>6, <1>7, <1>8, HeaderDomain
<1> QED
  BY <1>1, <1>8 DEF IsHeader, h

(* What EncodeTuple leaves: every part of the tuple at its place. *)
Complete(layout, header, values, sizes, m, t) ==
    /\ Sized(layout, values, sizes, m)
    /\ t \in [1..m -> Byte]
    /\ \A k \in 1..HeaderSize : t[k] = EncodeTupleHeader(header)[k]
    /\ NullsMarked(layout, values, Count(layout), t)
    /\ \A j \in 1..Count(layout) :
          /\ FieldWritten(layout, values, sizes, j, t)
          /\ values[j] # NULL /\ Varlen(layout, j) => PayloadIsWritten(values, sizes, j, t)

LEMMA FilledIsComplete ==
    ASSUME NEW layout, IsLayout(layout), NEW values, NEW sizes, NEW m, Sized(layout, values, sizes, m),
           NEW header, NEW empty, NEW t, Filled(layout, values, sizes, m, empty, Count(layout), t),
           \A k \in 1..HeaderSize : empty[k] = EncodeTupleHeader(header)[k]
    PROVE  Complete(layout, header, values, sizes, m, t)
<1>1. Count(layout) \in Nat
  BY LayoutRoom
<1>2. ASSUME NEW j \in 1..Count(layout) PROVE FieldWritten(layout, values, sizes, j, t)
  <2>1. j =< Count(layout)
    BY <1>1
  <2> QED
    BY <2>1 DEF FieldWritten, Filled, FieldsWritten
<1>3. ASSUME NEW j \in 1..Count(layout), values[j] # NULL, Varlen(layout, j)
      PROVE  PayloadIsWritten(values, sizes, j, t)
  BY <1>3 DEF PayloadIsWritten, Filled, PayloadsWritten
<1>4. \A k \in 1..HeaderSize : t[k] = EncodeTupleHeader(header)[k]
  BY DEF Filled, HeaderKept
<1> QED
  BY <1>2, <1>3, <1>4 DEF Complete, Filled

LEMMA EmptyTuple ==
    ASSUME NEW m \in Nat, HeaderSize =< m, NEW header, IsHeader(header)
    PROVE  /\ Overwrite(Zeroes(m), 0, EncodeTupleHeader(header)) \in [1..m -> Byte]
           /\ \A k \in 1..HeaderSize :
                 Overwrite(Zeroes(m), 0, EncodeTupleHeader(header))[k] = EncodeTupleHeader(header)[k]
           /\ \A k \in 1..m : k > HeaderSize
                 => Overwrite(Zeroes(m), 0, EncodeTupleHeader(header))[k] = 0
<1> DEFINE span == EncodeTupleHeader(header)
           zero == Zeroes(m)
           empty == Overwrite(zero, 0, span)
<1>1. HeaderSize \in Nat /\ 0 \in Nat
  BY Sizes DEF HeaderSize
<1>2. span \in [1..HeaderSize -> Byte]
  BY HeaderEncoded
<1>3. zero \in [1..m -> Byte] /\ \A k \in 1..m : zero[k] = 0
  BY ZeroesType
<1> HIDE DEF span, zero
<1>4. 0 + HeaderSize =< m /\ 0 + HeaderSize = HeaderSize
  BY <1>1
<1>5. /\ empty \in [1..m -> Byte]
      /\ \A q \in 1..HeaderSize : empty[0 + q] = span[q]
      /\ SameOutside(empty, zero, m, 0, 0 + HeaderSize)
  BY <1>1, <1>2, <1>3, <1>4, OverwriteWithin
<1> HIDE DEF empty
<1>6. ASSUME NEW k \in 1..HeaderSize PROVE empty[k] = span[k]
  <2>1. empty[0 + k] = span[k] /\ 0 + k = k
    BY <1>1, <1>5
  <2> QED
    BY <2>1
<1>7. ASSUME NEW k \in 1..m, k > HeaderSize PROVE empty[k] = 0
  <2>1. empty[k] = zero[k]
    BY <1>4, <1>5, <1>7 DEF SameOutside
  <2> QED
    BY <1>3, <2>1
<1> QED
  BY <1>5, <1>6, <1>7 DEF empty, zero, span

LEMMA PlanAt ==
    ASSUME NEW layout, IsLayout(layout), NEW values, IsRow(layout, values)
    PROVE  PlanTupleSize(layout, VarlenLengths(layout, values)).total_size
              = RowSizes(layout, values)[Count(layout)]
<1>1. Len(VarlenLengths(layout, values)) = Count(layout)
  BY LengthsAt
<1> QED
  BY <1>1 DEF PlanTupleSize, RowSizes

(* EncodeTuple of a row whose size fits. *)
LEMMA EncodedTuple ==
    ASSUME NEW layout, IsLayout(layout), NEW metadata, MetadataFits(metadata),
           NEW values, IsRow(layout, values), RowSizes(layout, values)[Count(layout)] =< MaxTuple
    PROVE  /\ EncodeTuple(layout, metadata, values).code = "OK"
           /\ Complete(layout, EncodedHeader(layout, metadata, values), values,
                       RowSizes(layout, values), RowSizes(layout, values)[Count(layout)],
                       EncodeTuple(layout, metadata, values).tuple)
<1> DEFINE n == Count(layout)
           sizes == RowSizes(layout, values)
           m == sizes[n]
           header == EncodedHeader(layout, metadata, values)
           empty == Overwrite(Zeroes(m), 0, EncodeTupleHeader(header))
           last == EncodedColumns(layout, values, empty)[n]
           result == EncodeTuple(layout, metadata, values)
<1>1. Sized(layout, values, sizes, m)
  BY SizedRow
<1>2. IsHeader(header)
  BY HeaderFits
<1>3. Len(values) = n
  BY LengthsAt
<1>4. PlanTupleSize(layout, VarlenLengths(layout, values)).total_size = m
  BY PlanAt
<1>5. result = [code |-> IF last.malformed \/ last.cursor # m THEN "MALFORMED_TUPLE" ELSE "OK",
                tuple |-> last.tuple]
  BY <1>3, <1>4 DEF EncodeTuple
<1> HIDE DEF sizes, header, result
<1>6. /\ m \in Nat /\ layout.varlen_payload_offset =< m /\ HeaderSize =< m /\ m =< MaxOf(WordSize)
      /\ HeaderSize \in Nat
  <2>1. m \in Nat /\ layout.varlen_payload_offset =< m
    BY <1>1, SizedAt
  <2>2. m =< MaxTuple
    BY DEF sizes
  <2>3. /\ MaxTuple \in Nat /\ MaxTuple =< MaxOf(WordSize) /\ MaxOf(WordSize) \in Nat
        /\ HeaderSize \in Nat /\ layout.null_bitmap_bytes \in Nat
        /\ FixedArea(layout) = HeaderSize + layout.null_bitmap_bytes
        /\ layout.varlen_payload_offset \in Nat /\ FixedArea(layout) =< layout.varlen_payload_offset
    BY LayoutRoom
  <2> HIDE DEF m
  <2> QED
    BY <2>1, <2>2, <2>3
<1> HIDE DEF m
<1>7. /\ empty \in [1..m -> Byte]
      /\ \A k \in 1..HeaderSize : empty[k] = EncodeTupleHeader(header)[k]
      /\ \A k \in 1..m : k > HeaderSize => empty[k] = 0
  BY <1>2, <1>6, EmptyTuple
<1> HIDE DEF empty
<1>8. PICK new : /\ last = Progress(new, m, FALSE)
                 /\ Filled(layout, values, sizes, m, empty, n, new)
  BY <1>1, <1>6, <1>7, AllColumns
<1> HIDE DEF last
<1>9. last.tuple = new /\ last.cursor = m /\ last.malformed = FALSE
  BY <1>8 DEF Progress
<1>10. result.code = "OK" /\ result.tuple = new
  BY <1>5, <1>9
<1>11. Complete(layout, header, values, sizes, m, new)
  BY <1>1, <1>7, <1>8, FilledIsComplete
<1> QED
  BY <1>10, <1>11 DEF result, m, sizes, header

(* The rows that EncodeTuple accepts. *)
LEMMA AcceptedRow ==
    ASSUME NEW layout, IsLayout(layout), NEW metadata,
           NEW values \in [1..Count(layout) -> TupleValue], EncodeAccepts(layout, metadata, values)
    PROVE  IsRow(layout, values) /\ RowSizes(layout, values)[Count(layout)] =< MaxTuple
<1>1. DOMAIN values = 1..Count(layout)
  OBVIOUS
<1>2. ASSUME NEW i \in 1..Count(layout)
      PROVE  IF values[i] = NULL THEN layout.columns[i].nullable ELSE values[i][1] = Type(layout, i)
  BY <1>1 DEF EncodeAccepts, ValueAllowed, Type
<1>3. IsRow(layout, values)
  BY <1>2 DEF IsRow
<1>4. PlanTupleSize(layout, VarlenLengths(layout, values)).code = "OK"
  BY DEF EncodeAccepts
<1>5. PlannedSizes(layout, VarlenLengths(layout, values))[Len(VarlenLengths(layout, values))] =< MaxTuple
  <2> DEFINE total == PlannedSizes(layout, VarlenLengths(layout, values))[Len(VarlenLengths(layout, values))]
  <2>1. ~(total > MaxTuple)
    BY <1>4 DEF PlanTupleSize
  <2>2. total = RowSizes(layout, values)[Count(layout)]
    BY <1>3, LengthsAt DEF RowSizes
  <2>3. total \in Nat /\ MaxTuple \in Nat
    BY <1>3, <2>2, SizedRow, SizedAt, LayoutRoom
  <2> HIDE DEF total
  <2>4. total =< MaxTuple
    BY <2>1, <2>3
  <2> QED
    BY <2>4 DEF total
<1>6. Len(VarlenLengths(layout, values)) = Count(layout)
  BY <1>3, LengthsAt
<1> QED
  BY <1>3, <1>5, <1>6 DEF RowSizes

-----------------------------------------------------------------------------
(* Reading a complete tuple. *)

LEMMA CompleteRoom ==
    ASSUME NEW layout, IsLayout(layout), NEW header, NEW values, NEW sizes, NEW m, NEW t,
           Complete(layout, header, values, sizes, m, t)
    PROVE  /\ m \in Nat /\ layout.varlen_payload_offset =< m /\ t \in [1..m -> Byte] /\ Len(t) = m
           /\ HeaderSize \in Nat /\ HeaderSize =< m
<1>1. m \in Nat /\ layout.varlen_payload_offset =< m
  BY SizedAt DEF Complete
<1>2. t \in [1..m -> Byte]
  BY DEF Complete
<1>3. Len(t) = m
  BY <1>1, <1>2
<1>4. /\ HeaderSize \in Nat /\ layout.null_bitmap_bytes \in Nat
      /\ FixedArea(layout) = HeaderSize + layout.null_bitmap_bytes
      /\ layout.varlen_payload_offset \in Nat /\ FixedArea(layout) =< layout.varlen_payload_offset
  BY LayoutRoom
<1>5. HeaderSize =< m
  BY <1>1, <1>4
<1> QED
  BY <1>1, <1>2, <1>3, <1>4, <1>5

LEMMA CompleteHeader ==
    ASSUME NEW layout, IsLayout(layout), NEW header, IsHeader(header), NEW values, NEW sizes, NEW m, NEW t,
           Complete(layout, header, values, sizes, m, t)
    PROVE  DecodeTupleHeader(t) = header
<1>1. m \in Nat /\ HeaderSize =< m /\ t \in [1..m -> Byte]
  BY CompleteRoom
<1>2. \A k \in 1..HeaderSize : t[k] = EncodeTupleHeader(header)[k]
  BY DEF Complete
<1> QED
  BY <1>1, <1>2, HeaderReadBack

LEMMA CompleteBit ==
    ASSUME NEW layout, IsLayout(layout), NEW header, NEW values, NEW sizes, NEW m, NEW t,
           Complete(layout, header, values, sizes, m, t),
           NEW b \in 1..layout.null_bitmap_bytes, NEW bit \in 1..ByteBits
    PROVE  Bits(Bitmap(layout, t)[b])[bit] = NullDigit(values, Count(layout), (b - 1) * ByteBits + bit)
<1>1. m \in Nat /\ layout.varlen_payload_offset =< m /\ t \in [1..m -> Byte]
  BY CompleteRoom
<1>2. Bitmap(layout, t)[b] = t[HeaderSize + b]
  BY <1>1, BitmapAt
<1>3. Bits(t[HeaderSize + b])[bit] = NullDigit(values, Count(layout), (b - 1) * ByteBits + bit)
  BY DEF Complete, NullsMarked
<1> QED
  BY <1>2, <1>3

LEMMA CompleteNull ==
    ASSUME NEW layout, IsLayout(layout), NEW header, NEW values, NEW sizes, NEW m, NEW t,
           Complete(layout, header, values, sizes, m, t), NEW i \in 1..Count(layout)
    PROVE  IsNull(Bitmap(layout, t), i) <=> values[i] = NULL
<1> DEFINE b == BitmapByte(i)
           bit == NullBit(i)
<1>1. b \in 1..layout.null_bitmap_bytes /\ bit \in 1..ByteBits /\ (b - 1) * ByteBits + bit = i
  BY BitOfColumn
<1>2. IsNull(Bitmap(layout, t), i) <=> Bits(Bitmap(layout, t)[b])[bit] = 1
  BY DEF IsNull
<1> HIDE DEF b, bit
<1>3. Bits(Bitmap(layout, t)[b])[bit] = NullDigit(values, Count(layout), i)
  <2>1. Bits(Bitmap(layout, t)[b])[bit] = NullDigit(values, Count(layout), (b - 1) * ByteBits + bit)
    BY <1>1, CompleteBit
  <2> QED
    BY <1>1, <2>1
<1>4. NullDigit(values, Count(layout), i) = IF values[i] = NULL THEN 1 ELSE 0
  BY DEF NullDigit
<1> QED
  BY <1>2, <1>3, <1>4

(* A bit of the last byte that stands for no column. *)
LEMMA UnusedPlace ==
    ASSUME NEW count \in Nat, count % ByteBits # 0, NEW bit \in ((count % ByteBits) + 1)..ByteBits
    PROVE  /\ NullBitmapBytes(count) \in Nat \ {0} /\ bit \in 1..ByteBits
           /\ (NullBitmapBytes(count) - 1) * ByteBits + bit \notin 1..count
<1> DEFINE q == count \div ByteBits
           r == count % ByteBits
<1>1. ByteBits \in Nat \ {0}
  BY EncodingAssumption
<1>2. q \in Nat /\ r \in Nat /\ r < ByteBits /\ count = q * ByteBits + r
  BY <1>1
<1>3. NullBitmapBytes(count) = q + 1
  BY DEF NullBitmapBytes
<1>4. bit \in (r + 1)..ByteBits
  OBVIOUS
<1> HIDE DEF q, r
<1>5. q * ByteBits \in Nat
  BY <1>1, <1>2
<1>6. (q + 1) - 1 = q /\ q + 1 \in Nat \ {0} /\ bit \in 1..ByteBits
  BY <1>2, <1>4
<1> DEFINE a == q * ByteBits
<1>7. a \in Nat /\ count = a + r
  BY <1>2, <1>5
<1> HIDE DEF a
<1>8. a + bit \notin 1..count
  BY <1>1, <1>2, <1>4, <1>7
<1>9. (NullBitmapBytes(count) - 1) * ByteBits = a
  BY <1>3, <1>6 DEF a
<1> QED
  BY <1>3, <1>6, <1>8, <1>9

LEMMA CompleteUnused ==
    ASSUME NEW layout, IsLayout(layout), NEW header, NEW values, NEW sizes, NEW m, NEW t,
           Complete(layout, header, values, sizes, m, t)
    PROVE  ~UnusedBitSet(Bitmap(layout, t), Count(layout))
<1> DEFINE n == Count(layout)
           size == layout.null_bitmap_bytes
           bitmap == Bitmap(layout, t)
<1>1. n \in Nat /\ size \in Nat /\ size = NullBitmapBytes(n)
  BY LayoutRoom DEF IsLayout
<1>2. bitmap \in [1..size -> Byte]
  BY CompleteRoom, BitmapAt
<1>3. ASSUME NEW b \in 1..size, NEW bit \in 1..ByteBits
      PROVE  Bits(bitmap[b])[bit] = NullDigit(values, n, (b - 1) * ByteBits + bit)
  BY CompleteBit
<1> HIDE DEF n, size, bitmap
<1>4. ASSUME n % ByteBits # 0, NEW bit \in ((n % ByteBits) + 1)..ByteBits
      PROVE  Bits(Last(bitmap))[bit] # 1
  <2>1. size \in 1..size /\ bit \in 1..ByteBits /\ (size - 1) * ByteBits + bit \notin 1..n
    BY <1>1, <1>4, UnusedPlace
  <2>2. Bits(bitmap[size])[bit] = NullDigit(values, n, (size - 1) * ByteBits + bit)
    BY <1>3, <2>1
  <2>3. NullDigit(values, n, (size - 1) * ByteBits + bit) = 0
    BY <2>1 DEF NullDigit
  <2>4. Last(bitmap) = bitmap[size]
    <3>1. Len(bitmap) = size
      BY <1>1, <1>2
    <3> QED
      BY <3>1 DEF Last
  <2> QED
    BY <2>2, <2>3, <2>4
<1>5. ~UnusedBitSet(bitmap, n)
  BY <1>4 DEF UnusedBitSet
<1> QED
  BY <1>5 DEF bitmap, n

(* A column's field reads as the bytes that were written for it. *)
LEMMA FieldAt ==
    ASSUME NEW layout, IsLayout(layout), NEW m \in Nat, layout.varlen_payload_offset =< m,
           NEW t \in [1..m -> Byte], NEW i \in 1..Count(layout)
    PROVE  /\ Field(layout.columns[i], t) \in [1..Width(layout, i) -> Byte]
           /\ \A q \in 1..Width(layout, i) :
                 Field(layout.columns[i], t)[q] = t[Offset(layout, i) + q]
<1> DEFINE offset == Offset(layout, i)
           width == Width(layout, i)
<1>1. /\ offset \in Nat /\ width \in Nat /\ offset + width =< layout.varlen_payload_offset
      /\ layout.varlen_payload_offset \in Nat
  BY FieldRoom, LayoutRoom
<1>2. Field(layout.columns[i], t) = Subspan(t, offset, width)
  BY ColumnNames DEF Field
<1> HIDE DEF offset, width
<1>3. offset + width =< m
  BY <1>1
<1>4. /\ Subspan(t, offset, width) \in [1..width -> Byte]
      /\ \A k \in 1..width : Subspan(t, offset, width)[k] = t[offset + k]
  BY <1>1, <1>3, SubspanAt
<1> QED
  BY <1>2, <1>4 DEF offset, width

FieldReads(layout, values, sizes, i, t) ==
    Field(layout.columns[i], t) = FieldImage(layout, values, sizes, i)

LEMMA CompleteField ==
    ASSUME NEW layout, IsLayout(layout), NEW header, NEW values, IsRow(layout, values),
           NEW sizes, NEW m, NEW t,
           Complete(layout, header, values, sizes, m, t), NEW i \in 1..Count(layout)
    PROVE  FieldReads(layout, values, sizes, i, t)
<1> DEFINE width == Width(layout, i)
           field == Field(layout.columns[i], t)
           span == FieldImage(layout, values, sizes, i)
<1>1. /\ m \in Nat /\ layout.varlen_payload_offset =< m /\ t \in [1..m -> Byte]
      /\ width \in Nat /\ Sized(layout, values, sizes, m)
  BY CompleteRoom, FieldRoom DEF Complete
<1>2. field \in [1..width -> Byte] /\ \A q \in 1..width : field[q] = t[Offset(layout, i) + q]
  BY <1>1, FieldAt
<1>3. span \in [1..width -> Byte]
  BY <1>1, SizedAt, FieldImageType
<1>4. \A q \in 1..width : t[Offset(layout, i) + q] = span[q]
  BY DEF Complete, FieldWritten
<1> HIDE DEF width, field, span
<1>5. field = span
  BY <1>1, <1>2, <1>3, <1>4, SameBytes
<1> QED
  BY <1>5 DEF field, span, FieldReads

(* Its descriptor, if it is a VARCHAR. *)
DescriptorReads(layout, values, sizes, i, t) ==
    /\ values[i] = NULL
          => Descriptor(layout, t, i) = [payload_offset |-> 0, payload_length |-> 0]
    /\ values[i] # NULL
          => Descriptor(layout, t, i)
                = [payload_offset |-> sizes[i - 1], payload_length |-> Length(values, i)]

LEMMA CompleteDescriptor ==
    ASSUME NEW layout, IsLayout(layout), NEW header, NEW values, IsRow(layout, values),
           NEW sizes, NEW m, m =< MaxOf(WordSize), NEW t,
           Complete(layout, header, values, sizes, m, t), NEW i \in 1..Count(layout), Varlen(layout, i)
    PROVE  DescriptorReads(layout, values, sizes, i, t)
<1>1. Descriptor(layout, t, i) = DecodeVarcharDescriptor(FieldImage(layout, values, sizes, i))
  <2>1. FieldReads(layout, values, sizes, i, t)
    BY CompleteField
  <2> QED
    BY <2>1 DEF Descriptor, FieldReads
<1>2. ASSUME values[i] = NULL
      PROVE  Descriptor(layout, t, i) = [payload_offset |-> 0, payload_length |-> 0]
  <2>1. Width(layout, i) = 2 * WordSize
    <3>1. Type(layout, i) = "VARCHAR" /\ Type(layout, i) \in PhysicalType
      BY FieldRoom DEF Varlen
    <3>2. PhysicalTypeWidth("VARCHAR") = 2 * WordSize
      BY <3>1, TypeWidth
    <3> QED
      BY <3>1, <3>2, FieldRoom
  <2>2. FieldImage(layout, values, sizes, i) = Zeroes(2 * WordSize)
    BY <1>2, <2>1 DEF FieldImage
  <2> QED
    BY <1>1, <2>2, ZeroDescriptor
<1>3. ASSUME values[i] # NULL
      PROVE  Descriptor(layout, t, i)
                = [payload_offset |-> sizes[i - 1], payload_length |-> Length(values, i)]
  <2> DEFINE c == sizes[i - 1]
             l == Length(values, i)
  <2>1. FieldImage(layout, values, sizes, i) = EncodeVarcharDescriptor(c, l)
    BY <1>3 DEF FieldImage, Length, Payload
  <2>2. Sized(layout, values, sizes, m)
    BY DEF Complete
  <2>3. sizes[i] = c + l
    BY <1>3, <2>2 DEF Sized
  <2>4. c \in Nat /\ sizes[i] \in Nat /\ sizes[i] =< m /\ m \in Nat
    BY <2>2, SizedAt
  <2>5. l \in Nat
    BY <1>3, PayloadAt
  <2>6. MaxOf(WordSize) \in Nat
    BY Maxima
  <2> HIDE DEF c, l
  <2>7. c \in 0..MaxOf(WordSize) /\ l \in 0..MaxOf(WordSize)
    BY <2>3, <2>4, <2>5, <2>6
  <2>8. DecodeVarcharDescriptor(EncodeVarcharDescriptor(c, l))
           = [payload_offset |-> c, payload_length |-> l]
    BY <2>7, DescriptorReadBack
  <2> QED
    BY <1>1, <2>1, <2>8 DEF c, l
<1> QED
  BY <1>2, <1>3 DEF DescriptorReads

(* The recursion of ValidatePayload, when it follows the sizes. *)
Follows(layout, bytes, i, before, after) ==
    after = IF ~IsVarlen(layout, i) \/ IsNull(Bitmap(layout, bytes), i) THEN before
            ELSE DescriptorEnd(Descriptor(layout, bytes, i))

Tracks(layout, bytes, n, f) ==
    /\ f = [i \in 0..n |-> f[i]] /\ f[0] = layout.varlen_payload_offset
    /\ \A i \in 1..n : Follows(layout, bytes, i, f[i - 1], f[i])

SameTo(n, f, g) == \A i \in 0..n : f[i] = g[i]

LEMMA ExpectedAt ==
    ASSUME NEW layout, NEW n \in Nat, n = Len(layout.columns), NEW bytes,
           NEW f, Tracks(layout, bytes, n, f)
    PROVE  SameTo(n, ExpectedOffsets(layout, bytes), f)
<1> DEFINE base == layout.varlen_payload_offset
           Stays(i) == ~IsVarlen(layout, i) \/ IsNull(Bitmap(layout, bytes), i)
           End(i) == DescriptorEnd(Descriptor(layout, bytes, i))
           e == ExpectedOffsets(layout, bytes)
           T == {i \in 0..n : e[i] = f[i]}
<1>1. \A i \in 1..n : f[i] = IF Stays(i) THEN f[i - 1] ELSE End(i)
  BY DEF Tracks, Follows
<1>2. f[0] = base /\ f = [i \in 0..n |-> f[i]]
  BY DEF Tracks
<1>3. f = [i \in 0..n |-> IF i = 0 THEN base ELSE IF Stays(i) THEN f[i - 1] ELSE End(i)]
  <2> HIDE DEF base, Stays, End
  <2>1. ASSUME NEW i \in 0..n
        PROVE  f[i] = IF i = 0 THEN base ELSE IF Stays(i) THEN f[i - 1] ELSE End(i)
    <3>1. i = 0 \/ i \in 1..n
      OBVIOUS
    <3> QED
      BY <1>1, <1>2, <3>1
  <2> QED
    BY <1>2, <2>1
<1>4. \E g : g = [i \in 0..n |-> IF i = 0 THEN base ELSE IF Stays(i) THEN g[i - 1] ELSE End(i)]
  BY <1>3
<1>5. e = [i \in 0..n |-> IF i = 0 THEN base ELSE IF Stays(i) THEN e[i - 1] ELSE End(i)]
  BY <1>4 DEF ExpectedOffsets
<1> HIDE DEF e, base, Stays, End
<1>6. e[0] = base /\ \A i \in 1..n : e[i] = IF Stays(i) THEN e[i - 1] ELSE End(i)
  BY <1>5
<1>7. 0 \in T
  BY <1>2, <1>6
<1>8. ASSUME NEW i \in 1..n, i - 1 \in T PROVE i \in T
  <2>1. e[i - 1] = f[i - 1]
    BY <1>8
  <2>2. e[i] = f[i]
    BY <1>1, <1>6, <2>1
  <2> QED
    BY <2>2
<1> HIDE DEF T
<1>9. 0..n \subseteq T
  BY <1>7, <1>8, InductionTo
<1> QED
  BY <1>9 DEF T, e, SameTo

LEMMA CompleteExpected ==
    ASSUME NEW layout, IsLayout(layout), NEW header, NEW values, IsRow(layout, values),
           NEW sizes, NEW m, m =< MaxOf(WordSize), NEW t,
           Complete(layout, header, values, sizes, m, t)
    PROVE  \A i \in 0..Count(layout) : ExpectedOffsets(layout, t)[i] = sizes[i]
<1> DEFINE n == Count(layout)
<1>1. n \in Nat /\ n = Len(layout.columns)
  BY LayoutRoom DEF Count
<1>2. /\ Sized(layout, values, sizes, m) /\ sizes \in [0..n -> Nat]
      /\ sizes[0] = layout.varlen_payload_offset
  BY DEF Complete, Sized
<1>3. ASSUME NEW i \in 1..n PROVE Follows(layout, t, i, sizes[i - 1], sizes[i])
  <2>1. IsNull(Bitmap(layout, t), i) <=> values[i] = NULL
    BY CompleteNull
  <2>2. IsVarlen(layout, i) <=> Varlen(layout, i)
    BY ColumnNames
  <2>3. CASE ~Varlen(layout, i) \/ values[i] = NULL
    <3>1. sizes[i] = sizes[i - 1]
      BY <1>2, <2>3 DEF Sized
    <3> QED
      BY <2>1, <2>2, <2>3, <3>1 DEF Follows
  <2>4. CASE Varlen(layout, i) /\ values[i] # NULL
    <3>1. sizes[i] = sizes[i - 1] + Length(values, i)
      BY <1>2, <2>4 DEF Sized
    <3>2. Descriptor(layout, t, i)
             = [payload_offset |-> sizes[i - 1], payload_length |-> Length(values, i)]
      <4>1. i \in 1..Count(layout) /\ Varlen(layout, i) /\ values[i] # NULL
        BY <2>4
      <4>2. DescriptorReads(layout, values, sizes, i, t)
        BY <4>1, CompleteDescriptor
      <4> QED
        BY <4>1, <4>2 DEF DescriptorReads
    <3>3. DescriptorEnd(Descriptor(layout, t, i)) = sizes[i]
      BY <3>1, <3>2 DEF DescriptorEnd
    <3> QED
      BY <2>1, <2>2, <2>4, <3>3 DEF Follows
  <2> QED
    BY <2>3, <2>4
<1>4. sizes = [i \in 0..n |-> sizes[i]]
  BY <1>2
<1> HIDE DEF n
<1>5. Tracks(layout, t, n, sizes)
  BY <1>2, <1>3, <1>4 DEF Tracks
<1>6. SameTo(n, ExpectedOffsets(layout, t), sizes)
  BY <1>1, <1>5, ExpectedAt
<1> QED
  BY <1>6 DEF n, SameTo

LEMMA CompleteNulls ==
    ASSUME NEW layout, IsLayout(layout), NEW header, NEW values, IsRow(layout, values),
           NEW sizes, NEW m, NEW t, Complete(layout, header, values, sizes, m, t)
    PROVE  ValidateNulls(layout, t)
<1>1. Columns(layout) = 1..Count(layout)
  BY LayoutRoom
<1>2. ASSUME NEW i \in 1..Count(layout)
      PROVE  IF IsNull(Bitmap(layout, t), i) THEN layout.columns[i].nullable
             ELSE layout.columns[i].type = "BOOLEAN" => Field(layout.columns[i], t)[1] =< 1
  <2>1. IsNull(Bitmap(layout, t), i) <=> values[i] = NULL
    BY CompleteNull
  <2>2. CASE values[i] = NULL
    BY <2>1, <2>2, RowAt
  <2>3. CASE values[i] # NULL
    <3>1. ASSUME Type(layout, i) = "BOOLEAN" PROVE Field(layout.columns[i], t)[1] =< 1
      <4>1. ~Varlen(layout, i)
        BY <3>1 DEF Varlen
      <4>2. Type(layout, i) \in FixedTypes
        BY <4>1, FixedType
      <4>3. values[i] \in {Type(layout, i)} \X ValueDomain(Type(layout, i))
        BY <2>3, RowAt
      <4>4. EncodeFixedScalar(Type(layout, i), values[i])[1] =< 1
        BY <3>1, <4>2, <4>3, ScalarReadBack
      <4>5. FieldReads(layout, values, sizes, i, t)
        BY CompleteField
      <4>6. FieldImage(layout, values, sizes, i) = EncodeFixedScalar(Type(layout, i), values[i])
        BY <2>3, <4>1 DEF FieldImage
      <4> QED
        BY <4>4, <4>5, <4>6 DEF FieldReads
    <3> QED
      BY <2>1, <2>3, <3>1, ColumnNames
  <2> QED
    BY <2>2, <2>3
<1> QED
  BY <1>1, <1>2 DEF ValidateNulls

LEMMA CompletePayload ==
    ASSUME NEW layout, IsLayout(layout), NEW header, NEW values, IsRow(layout, values),
           NEW sizes, NEW m, m =< MaxOf(WordSize), NEW t,
           Complete(layout, header, values, sizes, m, t)
    PROVE  ValidatePayload(layout, t)
<1>1. /\ Columns(layout) = 1..Count(layout) /\ Count(layout) \in Nat
      /\ layout.varlen_payload_offset \in Nat /\ MaxOf(WordSize) \in Nat
  BY LayoutRoom
<1>2. /\ Sized(layout, values, sizes, m) /\ Len(t) = m /\ m \in Nat
  <2>1. Sized(layout, values, sizes, m)
    BY DEF Complete
  <2>2. Len(t) = m /\ m \in Nat
    BY CompleteRoom
  <2> QED
    BY <2>1, <2>2
<1>3. \A i \in 0..Count(layout) : ExpectedOffsets(layout, t)[i] = sizes[i]
  BY CompleteExpected
<1>4. ExpectedOffsets(layout, t)[Len(layout.columns)] = Len(t)
  <2>1. Len(layout.columns) = Count(layout) /\ Count(layout) \in 0..Count(layout)
    BY <1>1 DEF Count
  <2>2. sizes[Count(layout)] = m
    BY <1>2 DEF Sized
  <2> QED
    BY <1>2, <1>3, <2>1, <2>2
<1>5. ASSUME NEW i \in 1..Count(layout), IsVarlen(layout, i)
      PROVE  LET d == Descriptor(layout, t, i) IN
             IF IsNull(Bitmap(layout, t), i) THEN d = [payload_offset |-> 0, payload_length |-> 0]
             ELSE /\ d.payload_offset >= layout.varlen_payload_offset
                  /\ DescriptorEnd(d) =< MaxOf(WordSize)
                  /\ DescriptorEnd(d) =< Len(t)
                  /\ d.payload_offset = ExpectedOffsets(layout, t)[i - 1]
  <2>1. IsNull(Bitmap(layout, t), i) <=> values[i] = NULL
    BY CompleteNull
  <2>2. Varlen(layout, i)
    BY <1>5, ColumnNames
  <2>3. CASE values[i] = NULL
    <3>1. Descriptor(layout, t, i) = [payload_offset |-> 0, payload_length |-> 0]
      <4>1. DescriptorReads(layout, values, sizes, i, t)
        BY <2>2, CompleteDescriptor
      <4> QED
        BY <2>3, <4>1 DEF DescriptorReads
    <3> QED
      BY <2>1, <2>3, <3>1
  <2>4. CASE values[i] # NULL
    <3>1. Descriptor(layout, t, i)
             = [payload_offset |-> sizes[i - 1], payload_length |-> Length(values, i)]
      <4>1. Varlen(layout, i) /\ values[i] # NULL
        BY <2>2, <2>4
      <4>2. DescriptorReads(layout, values, sizes, i, t)
        BY <4>1, CompleteDescriptor
      <4> QED
        BY <4>1, <4>2 DEF DescriptorReads
    <3> DEFINE d == Descriptor(layout, t, i)
               c == sizes[i - 1]
               l == Length(values, i)
    <3>2. sizes[i] = c + l
      BY <1>2, <2>2, <2>4 DEF Sized
    <3>3. /\ c \in Nat /\ sizes[i] \in Nat /\ layout.varlen_payload_offset =< c /\ sizes[i] =< m
      BY <1>2, SizedAt
    <3>4. ExpectedOffsets(layout, t)[i - 1] = c
      <4>1. i - 1 \in 0..Count(layout)
        BY <1>1
      <4> QED
        BY <1>3, <4>1
    <3>5. d = [payload_offset |-> c, payload_length |-> l] /\ sizes[i] = c + l
      BY <3>1, <3>2
    <3> HIDE DEF d, c, l
    <3>6. d.payload_offset = c /\ DescriptorEnd(d) = sizes[i]
      BY <3>5 DEF DescriptorEnd
    <3>7. /\ d.payload_offset >= layout.varlen_payload_offset
          /\ DescriptorEnd(d) =< MaxOf(WordSize)
          /\ DescriptorEnd(d) =< Len(t)
      BY <1>1, <1>2, <3>3, <3>6
    <3> QED
      BY <2>1, <2>4, <3>4, <3>6, <3>7 DEF d
  <2> QED
    BY <2>3, <2>4
<1> QED
  BY <1>1, <1>4, <1>5 DEF ValidatePayload

LEMMA CompleteFlags ==
    ASSUME NEW layout, IsLayout(layout), NEW metadata, NEW header, NEW values, IsRow(layout, values),
           header = EncodedHeader(layout, metadata, values),
           NEW sizes, NEW m, NEW t, Complete(layout, header, values, sizes, m, t)
    PROVE  /\ HasFlag(header, TUPLE_FLAG_HAS_VARLEN) = HasVarlenColumns(layout)
           /\ HasFlag(header, TUPLE_FLAG_HAS_NULLS)
                 = (\E i \in Columns(layout) : IsNull(Bitmap(layout, t), i))
<1>1. header.tuple_flags = (IF HasNulls(values) THEN TUPLE_FLAG_HAS_NULLS ELSE 0)
                              + (IF HasVarlenColumns(layout) THEN TUPLE_FLAG_HAS_VARLEN ELSE 0)
  BY EncodedHeaderAt
<1>2. /\ HasFlag(header, TUPLE_FLAG_HAS_NULLS) <=> HasNulls(values)
      /\ HasFlag(header, TUPLE_FLAG_HAS_VARLEN) <=> HasVarlenColumns(layout)
  BY <1>1, Flags
<1>3. HasNulls(values) <=> \E i \in Columns(layout) : IsNull(Bitmap(layout, t), i)
  <2>1. Columns(layout) = 1..Count(layout) /\ DOMAIN values = 1..Count(layout)
    BY LayoutRoom DEF IsRow
  <2>2. \A i \in 1..Count(layout) : IsNull(Bitmap(layout, t), i) <=> values[i] = NULL
    BY CompleteNull
  <2> QED
    BY <2>1, <2>2 DEF HasNulls
<1>4. /\ HasFlag(header, TUPLE_FLAG_HAS_NULLS) \in BOOLEAN
      /\ HasFlag(header, TUPLE_FLAG_HAS_VARLEN) \in BOOLEAN
      /\ HasVarlenColumns(layout) \in BOOLEAN
  BY DEF HasFlag, HasVarlenColumns
<1> QED
  BY <1>2, <1>3, <1>4

(* The validator accepts what EncodeTuple leaves. *)
LEMMA CompleteValidates ==
    ASSUME NEW layout, IsLayout(layout), NEW metadata, NEW header, IsHeader(header),
           ValidateTupleHeader(header), NEW values, IsRow(layout, values),
           header = EncodedHeader(layout, metadata, values),
           NEW sizes, NEW m, m =< MaxTuple, NEW t, Complete(layout, header, values, sizes, m, t)
    PROVE  ValidateTuple(layout, t)
<1>1. /\ m \in Nat /\ layout.varlen_payload_offset =< m /\ Len(t) = m
  BY CompleteRoom
<1>2. m =< MaxOf(WordSize)
  BY <1>1, LayoutRoom
<1>3. Len(t) >= layout.varlen_payload_offset /\ Len(t) =< MaxTuple
  BY <1>1, LayoutRoom
<1>4. DecodeTupleHeader(t) = header
  BY CompleteHeader
<1>5. /\ header.schema_version = layout.schema_version
      /\ header.null_bitmap_bytes = layout.null_bitmap_bytes
  BY EncodedHeaderAt
<1>6. ~UnusedBitSet(Bitmap(layout, t), Len(layout.columns))
  BY CompleteUnused DEF Count
<1>7. ValidateNulls(layout, t)
  BY CompleteNulls
<1>8. ValidatePayload(layout, t)
  BY <1>2, CompletePayload
<1>9. /\ HasFlag(header, TUPLE_FLAG_HAS_VARLEN) = HasVarlenColumns(layout)
      /\ HasFlag(header, TUPLE_FLAG_HAS_NULLS)
            = (\E i \in Columns(layout) : IsNull(Bitmap(layout, t), i))
  BY CompleteFlags
<1> QED
  BY <1>3, <1>4, <1>5, <1>6, <1>7, <1>8, <1>9 DEF ValidateTuple

(* Every column decodes to its value. *)
LEMMA CompleteValues ==
    ASSUME NEW layout, IsLayout(layout), NEW header, NEW values, IsRow(layout, values),
           NEW sizes, NEW m, m =< MaxOf(WordSize), NEW t,
           Complete(layout, header, values, sizes, m, t)
    PROVE  DecodedValues(layout, t) = values
<1>1. Columns(layout) = 1..Count(layout) /\ values = [i \in 1..Count(layout) |-> values[i]]
  BY LayoutRoom DEF IsRow
<1>2. ASSUME NEW i \in 1..Count(layout) PROVE DecodeTupleValue(layout, t, i) = values[i]
  <2>1. IsNull(Bitmap(layout, t), i) <=> values[i] = NULL
    BY CompleteNull
  <2>2. IsVarlen(layout, i) <=> Varlen(layout, i)
    BY ColumnNames
  <2>3. CASE values[i] = NULL
    BY <2>1, <2>3 DEF DecodeTupleValue
  <2>4. CASE values[i] # NULL /\ ~Varlen(layout, i)
    <3>1. Type(layout, i) \in FixedTypes
      BY <2>4, FixedType
    <3>2. values[i] \in {Type(layout, i)} \X ValueDomain(Type(layout, i))
      BY <2>4, RowAt
    <3>3. DecodeFixedScalar(Type(layout, i), EncodeFixedScalar(Type(layout, i), values[i])) = values[i]
      BY <3>1, <3>2, ScalarReadBack
    <3>4. Field(layout.columns[i], t) = EncodeFixedScalar(Type(layout, i), values[i])
      <4>1. FieldReads(layout, values, sizes, i, t)
        BY CompleteField
      <4>2. FieldImage(layout, values, sizes, i) = EncodeFixedScalar(Type(layout, i), values[i])
        BY <2>4 DEF FieldImage
      <4> QED
        BY <4>1, <4>2 DEF FieldReads
    <3>5. DecodeTupleValue(layout, t, i) = DecodeFixedScalar(Type(layout, i), Field(layout.columns[i], t))
      BY <2>1, <2>2, <2>4 DEF DecodeTupleValue, Type
    <3> QED
      BY <3>3, <3>4, <3>5
  <2>5. CASE values[i] # NULL /\ Varlen(layout, i)
    <3>1. Descriptor(layout, t, i)
             = [payload_offset |-> sizes[i - 1], payload_length |-> Length(values, i)]
      <4>1. Varlen(layout, i) /\ values[i] # NULL
        BY <2>5
      <4>2. DescriptorReads(layout, values, sizes, i, t)
        BY <4>1, CompleteDescriptor
      <4> QED
        BY <4>1, <4>2 DEF DescriptorReads
    <3> DEFINE c == sizes[i - 1]
               l == Length(values, i)
               payload == Payload(values, i)
    <3>2. payload \in [1..l -> Byte] /\ l \in Nat /\ values[i] = <<"VARCHAR", payload>>
      BY <2>5, PayloadAt
    <3>3. Sized(layout, values, sizes, m)
      BY DEF Complete
    <3>4. sizes[i] = c + l
      BY <2>5, <3>3 DEF Sized
    <3>5. c \in Nat /\ sizes[i] =< m
      BY <3>3, SizedAt
    <3>6. m \in Nat /\ t \in [1..m -> Byte]
      BY CompleteRoom
    <3>7. \A q \in 1..l : t[c + q] = payload[q]
      BY <2>5 DEF Complete, PayloadIsWritten
    <3>8. DecodeTupleValue(layout, t, i) = <<"VARCHAR", Subspan(t, c, l)>>
      BY <2>1, <2>2, <2>5, <3>1 DEF DecodeTupleValue
    <3> HIDE DEF c, l, payload
    <3>9. /\ Subspan(t, c, l) \in [1..l -> Byte]
          /\ \A k \in 1..l : Subspan(t, c, l)[k] = t[c + k]
      <4>1. c + l =< m
        BY <3>4, <3>5
      <4> QED
        BY <3>2, <3>5, <3>6, <4>1, SubspanAt
    <3>10. Subspan(t, c, l) = payload
      <4>1. \A k \in 1..l : Subspan(t, c, l)[k] = payload[k]
        BY <3>7, <3>9
      <4> QED
        BY <3>2, <3>9, <4>1, SameBytes
    <3> QED
      BY <3>2, <3>8, <3>10
  <2> QED
    BY <2>3, <2>4, <2>5
<1> QED
  BY <1>1, <1>2 DEF DecodedValues

(* What EncodeTuple makes of arguments that it accepts reads back as them. *)
LEMMA TupleReads ==
    ASSUME NEW layout, IsLayout(layout), NEW metadata, MetadataFits(metadata),
           NEW values \in [1..Count(layout) -> TupleValue], EncodeAccepts(layout, metadata, values)
    PROVE  /\ EncodeTuple(layout, metadata, values).code = "OK"
           /\ EncodeTuple(layout, metadata, values).tuple \in Seq(Byte)
           /\ Len(EncodeTuple(layout, metadata, values).tuple) >= HeaderSize
           /\ ValidateTuple(layout, EncodeTuple(layout, metadata, values).tuple)
           /\ DecodeTupleHeader(EncodeTuple(layout, metadata, values).tuple)
                 = EncodedHeader(layout, metadata, values)
           /\ DecodedValues(layout, EncodeTuple(layout, metadata, values).tuple) = values
<1> DEFINE sizes == RowSizes(layout, values)
           m == sizes[Count(layout)]
           header == EncodedHeader(layout, metadata, values)
           t == EncodeTuple(layout, metadata, values).tuple
<1>1. IsRow(layout, values) /\ m =< MaxTuple
  BY AcceptedRow
<1>2. /\ EncodeTuple(layout, metadata, values).code = "OK"
      /\ Complete(layout, header, values, sizes, m, t)
  BY <1>1, EncodedTuple
<1>3. IsHeader(header)
  BY HeaderFits
<1>4. ValidateTupleHeader(header)
  BY DEF EncodeAccepts
<1>5. header = EncodedHeader(layout, metadata, values)
  OBVIOUS
<1> HIDE DEF sizes, m, header, t
<1>6. /\ m \in Nat /\ t \in [1..m -> Byte] /\ Len(t) = m /\ HeaderSize \in Nat /\ HeaderSize =< m
  BY <1>2, CompleteRoom
<1>7. t \in Seq(Byte) /\ Len(t) >= HeaderSize
  BY <1>6, FunctionIsSequence
<1>8. m =< MaxOf(WordSize)
  BY <1>1, <1>6, LayoutRoom
<1>9. ValidateTuple(layout, t)
  BY <1>1, <1>2, <1>3, <1>4, <1>5, CompleteValidates
<1>10. DecodeTupleHeader(t) = header
  BY <1>2, <1>3, CompleteHeader
<1>11. DecodedValues(layout, t) = values
  BY <1>1, <1>2, <1>8, CompleteValues
<1> QED
  BY <1>2, <1>7, <1>9, <1>10, <1>11 DEF t, header

-----------------------------------------------------------------------------
(* The versions of a relation, and what was encoded under one of them. *)

LayoutRecord ==
    [schema_version : Nat, null_bitmap_bytes : Nat, varlen_payload_offset : Nat,
     columns : Seq(LayoutColumn)]

MetadataNames == {"xmin", "xmax", "cmin", "cmax", "prev_page_no", "prev_slot"}

HistoryInvariant ==
    /\ history \in Seq(LayoutRecord) /\ Len(history) =< MaxVersions
    /\ \A k \in 1..Len(history) : IsLayout(history[k]) /\ history[k].schema_version = k

(* The arguments of EncodeTuple. *)
Encodes(layout, metadata, values) ==
    /\ MetadataFits(metadata) /\ DOMAIN metadata = MetadataNames
    /\ values \in [1..Count(layout) -> TupleValue]
    /\ EncodeAccepts(layout, metadata, values)

SourceInvariant ==
    /\ source = None => tuple = << >>
    /\ source # None =>
          /\ source.version \in 1..Len(history)
          /\ source.code = "OK"
          /\ Encodes(history[source.version], source.metadata, source.values)
          /\ damage = 0 /\ tuple # << >> =>
                tuple = EncodeTuple(history[source.version], source.metadata, source.values).tuple

TupleInvariant ==
    /\ damage \in Nat
    /\ tuple \in Seq(Byte)
    /\ HistoryInvariant
    /\ SourceInvariant

LEMMA VersionsAt ==
    ASSUME HistoryInvariant
    PROVE  /\ Len(history) \in Nat /\ DOMAIN history = 1..Len(history)
           /\ \A v : Resolvable(v) <=> v \in 1..Len(history)
           /\ \A v \in 1..Len(history) : Resolve(v) = history[v]
<1>1. /\ Len(history) \in Nat /\ DOMAIN history = 1..Len(history)
      /\ \A k \in 1..Len(history) : history[k].schema_version = k
  BY SequenceFacts DEF HistoryInvariant
<1>2. ASSUME NEW v PROVE Versions(v) = {k \in 1..Len(history) : k = v}
  BY <1>1 DEF Versions
<1>3. ASSUME NEW v PROVE Resolvable(v) <=> v \in 1..Len(history)
  <2>1. Versions(v) # {} <=> v \in 1..Len(history)
    BY <1>2
  <2>2. v \in 1..Len(history) => v # 0
    BY <1>1
  <2> QED
    BY <2>1, <2>2 DEF Resolvable
<1>4. ASSUME NEW v \in 1..Len(history) PROVE Resolve(v) = history[v]
  <2>1. Versions(v) = {v} /\ v =< v
    BY <1>1, <1>2
  <2>2. (CHOOSE k \in {v} : \A j \in {v} : k =< j) = v
    BY <2>1
  <2> QED
    BY <2>1, <2>2 DEF Resolve
<1> QED
  BY <1>1, <1>3, <1>4

(* The state that was encoded reads back. *)
LEMMA StateRoundTrip ==
    ASSUME TupleInvariant
    PROVE  RoundTrip
<1> SUFFICES ASSUME source # None, tuple # << >>, damage = 0
             PROVE  /\ \A k \in DOMAIN history :
                          ValidateTuple(history[k], tuple) <=> history[k].schema_version = source.version
                    /\ \A f \in DOMAIN source.metadata : DecodeTupleHeader(tuple)[f] = source.metadata[f]
                    /\ DecodedValues(Resolve(DecodeTupleHeader(tuple).schema_version), tuple) = source.values
                    /\ ValidateTupleForSlot(tuple)
                          <=> /\ ValidTransactionFields(DecodeTupleHeader(tuple))
                              /\ ValidPreviousVersion(DecodeTupleHeader(tuple))
  BY DEF RoundTrip
<1> DEFINE v == source.version
           layout == history[v]
           metadata == source.metadata
           values == source.values
           header == EncodedHeader(layout, metadata, values)
<1>1. /\ HistoryInvariant /\ v \in 1..Len(history) /\ Encodes(layout, metadata, values)
      /\ tuple = EncodeTuple(layout, metadata, values).tuple
  BY DEF TupleInvariant, SourceInvariant
<1>2. IsLayout(layout) /\ layout.schema_version = v
  BY <1>1 DEF HistoryInvariant
<1> HIDE DEF layout, metadata, values
<1>3. /\ MetadataFits(metadata) /\ DOMAIN metadata = MetadataNames
      /\ values \in [1..Count(layout) -> TupleValue] /\ EncodeAccepts(layout, metadata, values)
  BY <1>1 DEF Encodes
<1>4. /\ Len(tuple) >= HeaderSize /\ ValidateTuple(layout, tuple)
      /\ DecodeTupleHeader(tuple) = header /\ DecodedValues(layout, tuple) = values
  BY <1>1, <1>2, <1>3, TupleReads
<1>5. ValidateTupleHeader(header)
  BY <1>3 DEF EncodeAccepts
<1>6. header.schema_version = v
  BY <1>2, EncodedHeaderAt
<1>7. \A f \in MetadataNames : header[f] = metadata[f]
  BY EncodedHeaderAt DEF MetadataNames
<1> HIDE DEF header
<1>8. /\ DOMAIN history = 1..Len(history) /\ Resolvable(v) /\ Resolve(v) = layout
  BY <1>1, VersionsAt DEF layout
<1>9. ASSUME NEW k \in DOMAIN history
      PROVE  ValidateTuple(history[k], tuple) <=> history[k].schema_version = v
  <2>1. history[k].schema_version = k
    BY <1>1, <1>8 DEF HistoryInvariant
  <2>2. ASSUME ValidateTuple(history[k], tuple) PROVE history[k].schema_version = v
    <3>1. DecodeTupleHeader(tuple).schema_version = history[k].schema_version
      BY <2>2 DEF ValidateTuple
    <3> QED
      BY <1>4, <1>6, <3>1
  <2>3. ASSUME history[k].schema_version = v PROVE ValidateTuple(history[k], tuple)
    BY <1>4, <2>1, <2>3 DEF layout
  <2> QED
    BY <2>2, <2>3
<1>10. \A f \in DOMAIN metadata : DecodeTupleHeader(tuple)[f] = metadata[f]
  BY <1>3, <1>4, <1>7
<1>11. DecodedValues(Resolve(DecodeTupleHeader(tuple).schema_version), tuple) = values
  BY <1>4, <1>6, <1>8
<1>12. ValidateTupleForSlot(tuple)
          <=> /\ ValidTransactionFields(DecodeTupleHeader(tuple))
              /\ ValidPreviousVersion(DecodeTupleHeader(tuple))
  BY <1>4, <1>5, <1>6, <1>8 DEF ValidateTupleForSlot
<1> QED
  BY <1>9, <1>10, <1>11, <1>12 DEF metadata, values

LEMMA BuiltRecord ==
    ASSUME NEW columns \in Schemas, LayoutFits(columns), NEW version \in 1..MaxOf(WordSize)
    PROVE  /\ IsLayout(BuildTuplePhysicalLayout(columns, version))
           /\ BuildTuplePhysicalLayout(columns, version).schema_version = version
           /\ BuildTuplePhysicalLayout(columns, version) \in LayoutRecord
<1> DEFINE layout == BuildTuplePhysicalLayout(columns, version)
<1>1. columns \in Seq(ColumnType)
  BY CodecAssumption DEF ColumnType
<1>2. IsLayout(layout) /\ layout.schema_version = version
  BY <1>1, LayoutBuilt
<1>3. layout = [schema_version |-> layout.schema_version, null_bitmap_bytes |-> layout.null_bitmap_bytes,
                varlen_payload_offset |-> layout.varlen_payload_offset, columns |-> layout.columns]
  BY DEF BuildTuplePhysicalLayout
<1>4. /\ layout.schema_version \in Nat /\ layout.null_bitmap_bytes \in Nat
      /\ layout.varlen_payload_offset \in Nat /\ layout.columns \in Seq(LayoutColumn)
  <2> HIDE DEF layout
  <2>1. version \in Nat /\ layout.null_bitmap_bytes \in Nat /\ layout.varlen_payload_offset \in Nat
    BY <1>2, LayoutRoom
  <2> QED
    BY <1>2, <2>1 DEF IsLayout
<1> HIDE DEF layout
<1>5. layout \in LayoutRecord
  BY <1>3, <1>4 DEF LayoutRecord
<1> QED
  BY <1>2, <1>5 DEF layout

LEMMA AppendedAt ==
    ASSUME NEW S, NEW s \in Seq(S), NEW e \in S
    PROVE  /\ Append(s, e) \in Seq(S) /\ Len(Append(s, e)) = Len(s) + 1 /\ Len(s) \in Nat
           /\ \A k \in 1..Len(s) : Append(s, e)[k] = s[k]
           /\ Append(s, e)[Len(s) + 1] = e
OBVIOUS

(* A byte array that is overwritten stays one. *)
LEMMA OverwrittenBytes ==
    ASSUME NEW t \in Seq(Byte), NEW offset \in Nat, NEW l \in Nat, NEW new \in [1..l -> Byte]
    PROVE  Overwrite(t, offset, new) \in Seq(Byte)
<1> DEFINE n == Len(t)
<1>1. n \in Nat /\ t \in [1..n -> Byte]
  OBVIOUS
<1> HIDE DEF n
<1>2. Overwrite(t, offset, new) \in [1..n -> Byte]
  BY <1>1, OverwriteAt
<1> QED
  BY <1>1, <1>2, FunctionIsSequence

LEMMA NoneIsNoSource ==
    ASSUME NEW version \in Nat \ {0}, NEW metadata, NEW values, NEW code
    PROVE  [version |-> version, metadata |-> metadata, values |-> values, code |-> code] # None
BY DEF None

LEMMA ValuesAreTyped ==
    ASSUME NEW type \in PhysicalType, NEW value \in Values[type]
    PROVE  value \in TupleValue
<1>1. value = NULL \/ \E t \in PhysicalType : value \in {t} \X ValueDomain(t)
  BY CodecAssumption
<1> QED
  BY <1>1 DEF TupleValue

LEMMA MetadataIsFit ==
    ASSUME NEW metadata \in Metadata
    PROVE  MetadataFits(metadata) /\ DOMAIN metadata = MetadataNames
<1>1. metadata \in [xmin : 0..MaxOf(2 * WordSize), xmax : 0..MaxOf(2 * WordSize),
                    cmin : 0..MaxOf(WordSize), cmax : 0..MaxOf(WordSize),
                    prev_page_no : 0..MaxOf(2 * WordSize), prev_slot : 0..MaxOf(HalfSize)]
  BY CodecAssumption
<1> QED
  BY <1>1 DEF MetadataFits, MetadataNames

LEMMA RowIsTyped ==
    ASSUME NEW layout, IsLayout(layout), NEW values \in Rows(layout)
    PROVE  values \in [1..Count(layout) -> TupleValue]
<1>1. Columns(layout) = 1..Count(layout)
  BY LayoutRoom
<1>2. /\ \E R : values \in [1..Count(layout) -> R]
      /\ \A i \in 1..Count(layout) : values[i] \in Values[layout.columns[i].type]
  BY <1>1 DEF Rows
<1>3. ASSUME NEW i \in 1..Count(layout) PROVE values[i] \in TupleValue
  <2>1. layout.columns[i].type \in PhysicalType
    BY FieldRoom DEF Type
  <2> QED
    BY <1>2, <2>1, ValuesAreTyped
<1> QED
  BY <1>2, <1>3

-----------------------------------------------------------------------------
(* The invariant. *)

LEMMA TupleInit == Init => TupleInvariant
<1> SUFFICES ASSUME Init PROVE TupleInvariant
  OBVIOUS
<1>1. history = << >> /\ tuple = << >> /\ source = None /\ damage = 0
  BY DEF Init
<1>2. \A S : << >> \in Seq(S)
  OBVIOUS
<1>3. Len(history) = 0 /\ 0 =< MaxVersions
  BY <1>1, Maxima, CodecAssumption
<1>4. HistoryInvariant
  BY <1>1, <1>2, <1>3 DEF HistoryInvariant
<1>5. SourceInvariant
  BY <1>1 DEF SourceInvariant
<1> QED
  BY <1>1, <1>2, <1>4, <1>5 DEF TupleInvariant

LEMMA StepAddVersion ==
    ASSUME TupleInvariant, NEW columns \in Schemas, AddVersion(columns)
    PROVE  TupleInvariant'
<1> DEFINE new == BuildTuplePhysicalLayout(columns, Len(history) + 1)
<1>1. /\ Len(history) < MaxVersions /\ LayoutFits(columns)
      /\ history' = Append(history, new)
      /\ tuple' = tuple /\ source' = source /\ damage' = damage
  BY DEF AddVersion
<1>2. /\ damage \in Nat /\ tuple \in Seq(Byte) /\ SourceInvariant
      /\ history \in Seq(LayoutRecord) /\ Len(history) =< MaxVersions
      /\ \A k \in 1..Len(history) : IsLayout(history[k]) /\ history[k].schema_version = k
  BY DEF TupleInvariant, HistoryInvariant
<1>3. Len(history) + 1 \in 1..MaxOf(WordSize) /\ Len(history) + 1 =< MaxVersions
  <2>1. /\ Len(history) \in Nat /\ MaxVersions \in Nat /\ MaxOf(WordSize) \in Nat
        /\ MaxVersions =< MaxOf(WordSize)
    BY <1>2, Maxima, CodecAssumption
  <2> QED
    BY <1>1, <2>1
<1>4. IsLayout(new) /\ new.schema_version = Len(history) + 1 /\ new \in LayoutRecord
  BY <1>1, <1>3, BuiltRecord
<1> HIDE DEF new
<1>5. /\ history' \in Seq(LayoutRecord) /\ Len(history') = Len(history) + 1 /\ Len(history) \in Nat
      /\ \A k \in 1..Len(history) : history'[k] = history[k]
      /\ history'[Len(history) + 1] = new
  BY <1>1, <1>2, <1>4, AppendedAt
<1>6. ASSUME NEW k \in 1..Len(history') PROVE IsLayout(history'[k]) /\ history'[k].schema_version = k
  <2>1. k \in 1..Len(history) \/ k = Len(history) + 1
    BY <1>5
  <2>2. CASE k \in 1..Len(history)
    BY <1>2, <1>5, <2>2
  <2>3. CASE k = Len(history) + 1
    BY <1>4, <1>5, <2>3
  <2> QED
    BY <2>1, <2>2, <2>3
<1>7. HistoryInvariant'
  BY <1>3, <1>5, <1>6 DEF HistoryInvariant
<1>8. SourceInvariant'
  <2>1. source' = None => tuple' = << >>
    BY <1>1, <1>2 DEF SourceInvariant
  <2>2. ASSUME source' # None
        PROVE  /\ source'.version \in 1..Len(history')
               /\ source'.code = "OK"
               /\ Encodes(history'[source'.version], source'.metadata, source'.values)
               /\ damage' = 0 /\ tuple' # << >> =>
                    tuple' = EncodeTuple(history'[source'.version], source'.metadata, source'.values).tuple
    <3>1. /\ source.version \in 1..Len(history) /\ source.code = "OK"
          /\ Encodes(history[source.version], source.metadata, source.values)
          /\ damage = 0 /\ tuple # << >> =>
               tuple = EncodeTuple(history[source.version], source.metadata, source.values).tuple
      BY <1>1, <1>2, <2>2 DEF SourceInvariant
    <3>2. history'[source.version] = history[source.version]
      BY <1>5, <3>1
    <3>3. source.version \in 1..Len(history')
      BY <1>5, <3>1
    <3> QED
      BY <1>1, <3>1, <3>2, <3>3
  <2> QED
    BY <2>1, <2>2 DEF SourceInvariant
<1> QED
  BY <1>1, <1>2, <1>7, <1>8 DEF TupleInvariant

LEMMA StepEncode ==
    ASSUME TupleInvariant, NEW k \in DOMAIN history, NEW m \in Metadata, Encode(history[k], m)
    PROVE  TupleInvariant'
<1> DEFINE layout == history[k]
<1>1. PICK values \in Rows(layout) :
         /\ EncodeAccepts(layout, m, values)
         /\ tuple' = IF EncodeTuple(layout, m, values).code = "OK"
                     THEN EncodeTuple(layout, m, values).tuple ELSE << >>
         /\ source' = [version |-> layout.schema_version, metadata |-> m,
                       values |-> values, code |-> EncodeTuple(layout, m, values).code]
  BY DEF Encode
<1>2. history' = history /\ damage' = damage
  BY DEF Encode
<1>3. /\ HistoryInvariant /\ damage \in Nat
      /\ DOMAIN history = 1..Len(history) /\ Len(history) \in Nat
  BY VersionsAt DEF TupleInvariant
<1>4. IsLayout(layout) /\ layout.schema_version = k /\ k \in 1..Len(history) /\ k \in Nat \ {0}
  BY <1>3 DEF HistoryInvariant
<1> DEFINE encoded == EncodeTuple(layout, m, values)
<1> HIDE DEF layout
<1>5. /\ values \in [1..Count(layout) -> TupleValue]
      /\ MetadataFits(m) /\ DOMAIN m = MetadataNames
  BY <1>1, <1>4, RowIsTyped, MetadataIsFit
<1>6. encoded.code = "OK" /\ encoded.tuple \in Seq(Byte)
  BY <1>1, <1>4, <1>5, TupleReads
<1>7. tuple' = encoded.tuple /\ source'.version = k /\ source'.code = "OK"
      /\ source'.metadata = m /\ source'.values = values /\ source' # None
  <2>1. source' = [version |-> k, metadata |-> m, values |-> values, code |-> "OK"]
    BY <1>1, <1>4, <1>6
  <2>2. source' # None
    BY <1>4, <2>1, NoneIsNoSource
  <2> QED
    BY <1>1, <1>6, <2>1, <2>2
<1>8. Encodes(layout, m, values)
  BY <1>1, <1>5 DEF Encodes
<1>9. HistoryInvariant'
  BY <1>2, <1>3 DEF HistoryInvariant
<1>10. SourceInvariant'
  BY <1>2, <1>4, <1>7, <1>8 DEF SourceInvariant, layout
<1> QED
  BY <1>2, <1>3, <1>6, <1>7, <1>9, <1>10 DEF TupleInvariant

(* A step that alters the bytes keeps the rest. *)
LEMMA StepAlter ==
    ASSUME TupleInvariant, tuple # << >>, history' = history, source' = source,
           damage' \in Nat \ {0}, tuple' \in Seq(Byte)
    PROVE  TupleInvariant'
<1>1. HistoryInvariant /\ SourceInvariant
  BY DEF TupleInvariant
<1>2. HistoryInvariant'
  BY <1>1 DEF HistoryInvariant
<1>3. SourceInvariant'
  BY <1>1 DEF SourceInvariant
<1> QED
  BY <1>2, <1>3 DEF TupleInvariant

LEMMA StepAlterByte ==
    ASSUME TupleInvariant, NEW k \in DOMAIN tuple, NEW byte \in Stray, AlterByte(k, byte)
    PROVE  TupleInvariant'
<1>1. /\ tuple # << >> /\ tuple' = [tuple EXCEPT ![k] = byte] /\ damage' = MaxDamage
      /\ history' = history /\ source' = source
  BY DEF AlterByte
<1>2. tuple \in Seq(Byte) /\ byte \in Byte /\ MaxDamage \in Nat \ {0}
  BY CodecAssumption DEF TupleInvariant
<1>3. tuple' \in Seq(Byte)
  BY <1>1, <1>2
<1> QED
  BY <1>1, <1>2, <1>3, StepAlter

LEMMA StepResize ==
    ASSUME TupleInvariant, NEW bytes \in {Front(tuple), Append(tuple, 0)}, Resize(bytes)
    PROVE  TupleInvariant'
<1>1. /\ tuple # << >> /\ tuple' = bytes /\ damage' = damage + 1
      /\ history' = history /\ source' = source
  BY DEF Resize
<1>2. tuple \in Seq(Byte) /\ damage \in Nat
  BY DEF TupleInvariant
<1>3. Front(tuple) \in Seq(Byte)
  BY <1>1, <1>2 DEF Front
<1>4. Append(tuple, 0) \in Seq(Byte)
  BY <1>2, BaseIsPositive
<1>5. tuple' \in Seq(Byte) /\ damage' \in Nat \ {0}
  BY <1>1, <1>2, <1>3, <1>4
<1> QED
  BY <1>1, <1>5, StepAlter

LEMMA StepRedirect ==
    ASSUME TupleInvariant, Resolvable(source.version),
           NEW i \in {j \in Columns(Resolve(source.version)) : IsVarlen(Resolve(source.version), j)},
           NEW offset \in (Resolve(source.version).varlen_payload_offset - 1)..Len(tuple),
           NEW length \in 0..2,
           Redirect(Resolve(source.version).columns[i], offset, length)
    PROVE  TupleInvariant'
<1> DEFINE layout == Resolve(source.version)
<1>1. /\ tuple # << >>
      /\ tuple' = Overwrite(tuple, layout.columns[i].fixed_offset, EncodeVarcharDescriptor(offset, length))
      /\ damage' = damage + 1 /\ history' = history /\ source' = source
  BY DEF Redirect
<1>2. tuple \in Seq(Byte) /\ damage \in Nat /\ HistoryInvariant
  BY DEF TupleInvariant
<1>3. IsLayout(layout)
  <2>1. source.version \in 1..Len(history) /\ layout = history[source.version]
    BY <1>2, VersionsAt
  <2> QED
    BY <1>2, <2>1 DEF HistoryInvariant
<1> HIDE DEF layout
<1>4. offset \in Nat /\ length \in Nat
  <2>1. layout.varlen_payload_offset - 1 \in Nat /\ Len(tuple) \in Nat
    BY <1>2, <1>3, LayoutRoom
  <2> QED
    BY <2>1 DEF layout
<1>5. layout.columns[i].fixed_offset \in Nat
  <2>1. i \in 1..Count(layout)
    BY <1>3, LayoutRoom DEF layout
  <2> QED
    BY <1>3, <2>1, FieldRoom DEF Offset
<1>6. EncodeVarcharDescriptor(offset, length) \in [1..(2 * WordSize) -> Byte] /\ 2 * WordSize \in Nat
  BY <1>4, DescriptorType, DescriptorRoom
<1>7. tuple' \in Seq(Byte)
  BY <1>1, <1>2, <1>5, <1>6, OverwrittenBytes
<1>8. damage' \in Nat \ {0}
  BY <1>1, <1>2
<1> QED
  BY <1>1, <1>7, <1>8, StepAlter

LEMMA TupleStep == TupleInvariant /\ [Next]_codecVars => TupleInvariant'
<1> SUFFICES ASSUME TupleInvariant, [Next]_codecVars PROVE TupleInvariant'
  OBVIOUS
<1>1. CASE UNCHANGED codecVars
  <2>1. history' = history /\ tuple' = tuple /\ source' = source /\ damage' = damage
    BY <1>1 DEF codecVars
  <2> QED
    BY <2>1 DEF TupleInvariant, HistoryInvariant, SourceInvariant
<1>2. ASSUME NEW columns \in Schemas, AddVersion(columns) PROVE TupleInvariant'
  BY <1>2, StepAddVersion
<1>3. ASSUME NEW k \in DOMAIN history, NEW m \in Metadata, Encode(history[k], m) PROVE TupleInvariant'
  BY <1>3, StepEncode
<1>4. ASSUME NEW k \in DOMAIN tuple, NEW byte \in Stray, AlterByte(k, byte) PROVE TupleInvariant'
  BY <1>4, StepAlterByte
<1>5. ASSUME NEW bytes \in {Front(tuple), Append(tuple, 0)}, Resize(bytes) PROVE TupleInvariant'
  BY <1>5, StepResize
<1>6. ASSUME Resolvable(source.version),
             NEW i \in {j \in Columns(Resolve(source.version)) : IsVarlen(Resolve(source.version), j)},
             NEW offset \in (Resolve(source.version).varlen_payload_offset - 1)..Len(tuple),
             NEW length \in 0..2,
             Redirect(Resolve(source.version).columns[i], offset, length)
      PROVE  TupleInvariant'
  BY <1>6, StepRedirect
<1> QED
  BY <1>1, <1>2, <1>3, <1>4, <1>5, <1>6 DEF Next

LEMMA TupleInvariance == Spec => []TupleInvariant
BY TupleInit, TupleStep, PTL DEF Spec

(* EncodeTuple never meets a size mismatch: PlanTupleSize has added up the size at which the *)
(* payload cursor ends, for every layout, every row and every width of the integers.         *)
THEOREM PlansMatch == Spec => []PlanMatchesEncoding
<1>1. TupleInvariant => PlanMatchesEncoding
  BY DEF TupleInvariant, SourceInvariant, PlanMatchesEncoding, None
<1> QED
  BY <1>1, TupleInvariance, PTL

(* A tuple that EncodeTuple wrote validates under its own schema version and no other,       *)
(* carries the metadata, decodes to the values it was written from, and is refused by a heap *)
(* page only for its transaction fields or its previous version.                             *)
THEOREM TuplesReadBack == Spec => []RoundTrip
<1>1. TupleInvariant => RoundTrip
  BY StateRoundTrip
<1> QED
  BY <1>1, TupleInvariance, PTL

-----------------------------------------------------------------------------
(* Tuples that validate, whatever their bytes. *)

(* A byte array of length m that ValidateTuple accepts. *)
Accepted(layout, m, t) == m \in Nat /\ t \in [1..m -> Byte] /\ ValidateTuple(layout, t)

LEMMA AcceptedRoom ==
    ASSUME NEW layout, IsLayout(layout), NEW m, NEW t, Accepted(layout, m, t)
    PROVE  /\ m \in Nat /\ t \in [1..m -> Byte] /\ Len(t) = m
           /\ layout.varlen_payload_offset =< m /\ m =< MaxTuple /\ m =< MaxOf(WordSize)
           /\ HeaderSize =< m /\ HeaderSize \in Nat
<1>1. m \in Nat /\ t \in [1..m -> Byte] /\ ValidateTuple(layout, t)
  BY DEF Accepted
<1>2. Len(t) = m
  BY <1>1
<1>3. Len(t) >= layout.varlen_payload_offset /\ Len(t) =< MaxTuple
  BY <1>1 DEF ValidateTuple
<1>4. /\ HeaderSize \in Nat /\ layout.null_bitmap_bytes \in Nat
      /\ FixedArea(layout) = HeaderSize + layout.null_bitmap_bytes
      /\ layout.varlen_payload_offset \in Nat /\ FixedArea(layout) =< layout.varlen_payload_offset
      /\ MaxTuple \in Nat /\ MaxTuple =< MaxOf(WordSize) /\ MaxOf(WordSize) \in Nat
  BY LayoutRoom
<1>5. layout.varlen_payload_offset =< m /\ m =< MaxTuple
  BY <1>1, <1>2, <1>3, <1>4
<1>6. m =< MaxOf(WordSize) /\ HeaderSize =< m
  BY <1>1, <1>4, <1>5
<1> QED
  BY <1>1, <1>2, <1>4, <1>5, <1>6

(* What the two passes over the columns ensure. *)
LEMMA AcceptedParts ==
    ASSUME NEW layout, IsLayout(layout), NEW m, NEW t, Accepted(layout, m, t)
    PROVE  /\ ValidateTupleHeader(DecodeTupleHeader(t))
           /\ DecodeTupleHeader(t).schema_version = layout.schema_version
           /\ DecodeTupleHeader(t).null_bitmap_bytes = layout.null_bitmap_bytes
           /\ HasFlag(DecodeTupleHeader(t), TUPLE_FLAG_HAS_VARLEN) = HasVarlenColumns(layout)
           /\ Bitmap(layout, t) # << >> => ~UnusedBitSet(Bitmap(layout, t), Count(layout))
           /\ HasFlag(DecodeTupleHeader(t), TUPLE_FLAG_HAS_NULLS)
                 = (\E i \in 1..Count(layout) : IsNull(Bitmap(layout, t), i))
           /\ ValidateNulls(layout, t)
           /\ ValidatePayload(layout, t)
<1>1. ValidateTuple(layout, t)
  BY DEF Accepted
<1>2. Columns(layout) = 1..Count(layout)
  BY LayoutRoom
<1> QED
  BY <1>1, <1>2 DEF ValidateTuple, Count

LEMMA AcceptedNulls ==
    ASSUME NEW layout, IsLayout(layout), NEW m, NEW t, Accepted(layout, m, t), NEW i \in 1..Count(layout)
    PROVE  /\ IsNull(Bitmap(layout, t), i) => layout.columns[i].nullable
           /\ ~IsNull(Bitmap(layout, t), i) /\ Type(layout, i) = "BOOLEAN"
                 => Field(layout.columns[i], t)[1] =< 1
<1>1. ValidateNulls(layout, t)
  BY AcceptedParts
<1>2. i \in Columns(layout)
  BY LayoutRoom
<1> QED
  BY <1>1, <1>2 DEF ValidateNulls, Type

(* A descriptor and its field. *)
LEMMA AcceptedDescriptor ==
    ASSUME NEW layout, IsLayout(layout), NEW m, NEW t, Accepted(layout, m, t),
           NEW i \in 1..Count(layout), Varlen(layout, i)
    PROVE  /\ Width(layout, i) = 2 * WordSize
           /\ Descriptor(layout, t, i).payload_offset \in 0..MaxOf(WordSize)
           /\ Descriptor(layout, t, i).payload_length \in 0..MaxOf(WordSize)
           /\ EncodeVarcharDescriptor(Descriptor(layout, t, i).payload_offset,
                                      Descriptor(layout, t, i).payload_length)
                 = Field(layout.columns[i], t)
           /\ Descriptor(layout, t, i) = [payload_offset |-> 0, payload_length |-> 0]
                 => Field(layout.columns[i], t) = Zeroes(2 * WordSize)
<1>1. m \in Nat /\ t \in [1..m -> Byte] /\ layout.varlen_payload_offset =< m
  BY AcceptedRoom
<1>2. Width(layout, i) = 2 * WordSize
  <2>1. Type(layout, i) = "VARCHAR" /\ Type(layout, i) \in PhysicalType
    BY FieldRoom DEF Varlen
  <2>2. PhysicalTypeWidth("VARCHAR") = 2 * WordSize
    BY <2>1, TypeWidth
  <2> QED
    BY <2>1, <2>2, FieldRoom
<1> DEFINE field == Field(layout.columns[i], t)
<1>3. field \in [1..(2 * WordSize) -> Byte]
  <2>1. field \in [1..Width(layout, i) -> Byte]
    BY <1>1, FieldAt
  <2> QED
    BY <1>2, <2>1
<1>4. Descriptor(layout, t, i) = DecodeVarcharDescriptor(field)
  BY DEF Descriptor
<1> HIDE DEF field
<1>5. /\ DecodeVarcharDescriptor(field).payload_offset \in 0..MaxOf(WordSize)
      /\ DecodeVarcharDescriptor(field).payload_length \in 0..MaxOf(WordSize)
      /\ EncodeVarcharDescriptor(DecodeVarcharDescriptor(field).payload_offset,
                                 DecodeVarcharDescriptor(field).payload_length) = field
  BY <1>3, DescriptorBytes
<1>6. DecodeVarcharDescriptor(field) = [payload_offset |-> 0, payload_length |-> 0]
         => field = Zeroes(2 * WordSize)
  BY <1>3, ZeroDescriptor
<1> QED
  BY <1>2, <1>4, <1>5, <1>6 DEF field

(* Where a VARCHAR payload is. *)
LEMMA AcceptedPayload ==
    ASSUME NEW layout, IsLayout(layout), NEW m, NEW t, Accepted(layout, m, t),
           NEW i \in 1..Count(layout), Varlen(layout, i)
    PROVE  /\ IsNull(Bitmap(layout, t), i)
                 => Descriptor(layout, t, i) = [payload_offset |-> 0, payload_length |-> 0]
           /\ ~IsNull(Bitmap(layout, t), i)
                 => /\ DescriptorEnd(Descriptor(layout, t, i)) =< m
                    /\ Descriptor(layout, t, i).payload_offset = ExpectedOffsets(layout, t)[i - 1]
           /\ ExpectedOffsets(layout, t)[Count(layout)] = m
<1>1. ValidatePayload(layout, t) /\ Len(t) = m
  BY AcceptedParts, AcceptedRoom
<1>2. i \in Columns(layout) /\ IsVarlen(layout, i)
  BY LayoutRoom, ColumnNames
<1> QED
  BY <1>1, <1>2 DEF ValidatePayload, Count

(* The value that a column decodes to. *)
ReadsAs(layout, t, i, value) ==
    /\ value = NULL <=> IsNull(Bitmap(layout, t), i)
    /\ value # NULL => value \in {Type(layout, i)} \X ValueDomain(Type(layout, i))
    /\ value # NULL /\ ~Varlen(layout, i)
          => EncodeFixedScalar(Type(layout, i), value) = Field(layout.columns[i], t)
    /\ value # NULL /\ Varlen(layout, i)
          => value[2] = Subspan(t, Descriptor(layout, t, i).payload_offset,
                                   Descriptor(layout, t, i).payload_length)

LEMMA AcceptedSpan ==
    ASSUME NEW layout, IsLayout(layout), NEW m, NEW t, Accepted(layout, m, t),
           NEW i \in 1..Count(layout), Varlen(layout, i), ~IsNull(Bitmap(layout, t), i)
    PROVE  LET d == Descriptor(layout, t, i)
               span == Subspan(t, d.payload_offset, d.payload_length)
           IN /\ span \in [1..d.payload_length -> Byte] /\ span \in Seq(Byte)
              /\ Len(span) = d.payload_length
              /\ \A q \in 1..d.payload_length : span[q] = t[d.payload_offset + q]
              /\ d.payload_offset \in Nat /\ d.payload_length \in Nat
              /\ d.payload_offset + d.payload_length =< m
<1> DEFINE o == Descriptor(layout, t, i).payload_offset
           l == Descriptor(layout, t, i).payload_length
           span == Subspan(t, o, l)
<1>1. o \in Nat /\ l \in Nat
  <2>1. o \in 0..MaxOf(WordSize) /\ l \in 0..MaxOf(WordSize)
    BY AcceptedDescriptor
  <2> HIDE DEF o, l
  <2> QED
    BY <2>1
<1>2. o + l =< m
  BY AcceptedPayload DEF DescriptorEnd
<1>3. m \in Nat /\ t \in [1..m -> Byte]
  BY AcceptedRoom
<1> HIDE DEF o, l
<1>4. span \in [1..l -> Byte] /\ \A q \in 1..l : span[q] = t[o + q]
  BY <1>1, <1>2, <1>3, SubspanAt
<1> HIDE DEF span
<1>5. span \in Seq(Byte) /\ Len(span) = l
  BY <1>1, <1>4, FunctionIsSequence
<1> QED
  BY <1>1, <1>2, <1>4, <1>5 DEF span, o, l

LEMMA AcceptedValue ==
    ASSUME NEW layout, IsLayout(layout), NEW m, NEW t, Accepted(layout, m, t), NEW i \in 1..Count(layout)
    PROVE  ReadsAs(layout, t, i, DecodeTupleValue(layout, t, i))
<1> DEFINE value == DecodeTupleValue(layout, t, i)
           d == Descriptor(layout, t, i)
           span == Subspan(t, d.payload_offset, d.payload_length)
<1>1. IsVarlen(layout, i) <=> Varlen(layout, i)
  BY ColumnNames
<1>2. CASE IsNull(Bitmap(layout, t), i)
  <2>1. value = NULL
    BY <1>2 DEF DecodeTupleValue
  <2> HIDE DEF value
  <2>2. ReadsAs(layout, t, i, value)
    BY <1>2, <2>1 DEF ReadsAs
  <2> QED
    BY <2>2 DEF value
<1>3. CASE ~IsNull(Bitmap(layout, t), i) /\ Varlen(layout, i)
  <2>1. value = <<"VARCHAR", span>>
    BY <1>1, <1>3 DEF DecodeTupleValue
  <2>2. span \in Seq(Byte)
    BY <1>3, AcceptedSpan
  <2>3. "VARCHAR" \in PhysicalType /\ Type(layout, i) = "VARCHAR" /\ ValueDomain("VARCHAR") = Seq(Byte)
    BY <1>3, Domains DEF PhysicalType, Varlen
  <2> DEFINE bytes == span
  <2> HIDE DEF bytes
  <2>4. value = <<"VARCHAR", bytes>> /\ bytes \in Seq(Byte)
    BY <2>1, <2>2 DEF bytes
  <2> HIDE DEF value
  <2>5. value \in {"VARCHAR"} \X Seq(Byte) /\ value[2] = bytes
    BY <2>4
  <2>6. value # NULL
    BY <2>3, <2>5, ValueIsNotNull
  <2>7. value \in {Type(layout, i)} \X ValueDomain(Type(layout, i))
    BY <2>3, <2>5
  <2>8. value[2] = Subspan(t, Descriptor(layout, t, i).payload_offset,
                              Descriptor(layout, t, i).payload_length)
    BY <2>5 DEF bytes
  <2>9. ReadsAs(layout, t, i, value)
    BY <1>3, <2>6, <2>7, <2>8, Zenon DEF ReadsAs
  <2> QED
    BY <2>9 DEF value
<1>4. CASE ~IsNull(Bitmap(layout, t), i) /\ ~Varlen(layout, i)
  <2> DEFINE field == Field(layout.columns[i], t)
             type == Type(layout, i)
  <2>1. value = DecodeFixedScalar(type, field)
    BY <1>1, <1>4 DEF DecodeTupleValue, Type
  <2>2. type \in FixedTypes /\ type \in PhysicalType
    BY <1>4, FixedType, FieldRoom
  <2>3. field \in [1..PhysicalTypeWidth(type) -> Byte]
    <3>1. m \in Nat /\ t \in [1..m -> Byte] /\ layout.varlen_payload_offset =< m
      BY AcceptedRoom
    <3>2. field \in [1..Width(layout, i) -> Byte] /\ Width(layout, i) = PhysicalTypeWidth(type)
      BY <3>1, FieldAt, FieldRoom
    <3> QED
      BY <3>2
  <2>4. type = "BOOLEAN" => field[1] =< 1
    BY <1>4, AcceptedNulls
  <2> HIDE DEF field, type
  <2>5. /\ DecodeFixedScalar(type, field) \in {type} \X ValueDomain(type)
        /\ EncodeFixedScalar(type, DecodeFixedScalar(type, field)) = field
    BY <2>2, <2>3, <2>4, ScalarBytes
  <2>6. value \in {type} \X ValueDomain(type) /\ EncodeFixedScalar(type, value) = field
    BY <2>1, <2>5
  <2> HIDE DEF value
  <2>7. value # NULL
    BY <2>2, <2>6, ValueIsNotNull
  <2>8. ReadsAs(layout, t, i, value)
    BY <1>4, <2>6, <2>7, Zenon DEF ReadsAs, type, field
  <2> QED
    BY <2>8 DEF value
<1> QED
  BY <1>2, <1>3, <1>4

LEMMA AcceptedValues ==
    ASSUME NEW layout, IsLayout(layout), NEW m, NEW t, Accepted(layout, m, t)
    PROVE  /\ IsRow(layout, DecodedValues(layout, t))
           /\ \A i \in 1..Count(layout) : ReadsAs(layout, t, i, DecodedValues(layout, t)[i])
<1> DEFINE values == DecodedValues(layout, t)
<1>1. values = [i \in 1..Count(layout) |-> DecodeTupleValue(layout, t, i)]
  BY LayoutRoom DEF DecodedValues
<1>2. ASSUME NEW i \in 1..Count(layout)
      PROVE  values[i] = DecodeTupleValue(layout, t, i)
  BY <1>1
<1> HIDE DEF values
<1>3. ASSUME NEW i \in 1..Count(layout)
      PROVE  ReadsAs(layout, t, i, values[i])
  BY <1>2, AcceptedValue
<1>4. ASSUME NEW i \in 1..Count(layout)
      PROVE  /\ values[i] \in TupleValue
             /\ IF values[i] = NULL THEN layout.columns[i].nullable ELSE values[i][1] = Type(layout, i)
  <2>1. Type(layout, i) \in PhysicalType
    BY FieldRoom
  <2>2. CASE values[i] = NULL
    <3>1. IsNull(Bitmap(layout, t), i)
      BY <1>3, <2>2 DEF ReadsAs
    <3>2. layout.columns[i].nullable
      BY <3>1, AcceptedNulls
    <3>3. values[i] \in TupleValue
      BY <2>2 DEF TupleValue
    <3> QED
      BY <2>2, <3>2, <3>3
  <2>3. CASE values[i] # NULL
    <3>1. values[i] \in {Type(layout, i)} \X ValueDomain(Type(layout, i))
      BY <1>3, <2>3 DEF ReadsAs
    <3>2. values[i][1] = Type(layout, i)
      BY <2>1, <3>1, ValueIsNotNull
    <3>3. values[i] \in TupleValue
      BY <2>1, <3>1, Zenon DEF TupleValue
    <3> QED
      BY <2>3, <3>2, <3>3
  <2> QED
    BY <2>2, <2>3
<1>5. values \in [1..Count(layout) -> TupleValue]
  <2>1. values = [i \in 1..Count(layout) |-> values[i]]
    BY <1>1, <1>2
  <2> QED
    BY <1>4, <2>1
<1>6. IsRow(layout, values)
  BY <1>4, <1>5 DEF IsRow
<1> QED
  BY <1>3, <1>6 DEF values

-----------------------------------------------------------------------------
(* The expected offsets are the sizes that PlanTupleSize adds up for the decoded values. *)

EndsAreOffsets(layout, bytes, n) ==
    \A i \in 1..n : IsVarlen(layout, i) /\ ~IsNull(Bitmap(layout, bytes), i)
                         => DescriptorEnd(Descriptor(layout, bytes, i)) \in Nat

LEMMA ExpectedExists ==
    ASSUME NEW layout, NEW n \in Nat, NEW bytes, NEW base \in Nat, EndsAreOffsets(layout, bytes, n)
    PROVE  \E f : /\ f \in [0..n -> Nat] /\ f[0] = base
                  /\ \A i \in 1..n : Follows(layout, bytes, i, f[i - 1], f[i])
<1> DEFINE Stays(i) == ~IsVarlen(layout, i) \/ IsNull(Bitmap(layout, bytes), i)
           End(i) == DescriptorEnd(Descriptor(layout, bytes, i))
           step == [i \in 1..n |-> [x \in Nat |-> IF Stays(i) THEN x ELSE End(i)]]
<1>1. ASSUME NEW i \in 1..n PROVE ~Stays(i) => End(i) \in Nat
  BY DEF EndsAreOffsets
<1>2. \A i \in 1..n : \A before, after :
         Follows(layout, bytes, i, before, after) <=> after = IF Stays(i) THEN before ELSE End(i)
  BY DEF Follows
<1> HIDE DEF Stays, End
<1>3. step \in [1..n -> [Nat -> Nat]]
  BY <1>1
<1>4. \A i \in 1..n, x \in Nat : step[i][x] = IF Stays(i) THEN x ELSE End(i)
  OBVIOUS
<1> HIDE DEF step
<1>5. PICK f : Iterates(f, n, Nat, base, step)
  BY <1>3, RecursiveFunction
<1>6. f \in [0..n -> Nat] /\ f[0] = base /\ \A i \in 1..n : f[i] = step[i][f[i - 1]]
  BY <1>5 DEF Iterates
<1>7. ASSUME NEW i \in 1..n PROVE Follows(layout, bytes, i, f[i - 1], f[i])
  <2>1. f[i - 1] \in Nat
    BY <1>6
  <2>2. f[i] = IF Stays(i) THEN f[i - 1] ELSE End(i)
    BY <1>4, <1>6, <2>1
  <2> QED
    BY <1>2, <2>2
<1> QED
  BY <1>6, <1>7

LEMMA AcceptedExpected ==
    ASSUME NEW layout, IsLayout(layout), NEW m, NEW t, Accepted(layout, m, t)
    PROVE  /\ ExpectedOffsets(layout, t)[0] = layout.varlen_payload_offset
           /\ \A i \in 1..Count(layout) :
                 Follows(layout, t, i, ExpectedOffsets(layout, t)[i - 1], ExpectedOffsets(layout, t)[i])
<1> DEFINE n == Count(layout)
           e == ExpectedOffsets(layout, t)
<1>1. n \in Nat /\ n = Len(layout.columns) /\ layout.varlen_payload_offset \in Nat
  BY LayoutRoom DEF Count
<1>2. ASSUME NEW i \in 1..n
      PROVE  IsVarlen(layout, i) /\ ~IsNull(Bitmap(layout, t), i)
                => DescriptorEnd(Descriptor(layout, t, i)) \in Nat
  <2>1. CASE IsVarlen(layout, i) /\ ~IsNull(Bitmap(layout, t), i)
    <3>1. Varlen(layout, i)
      BY <2>1, ColumnNames
    <3>2. /\ Descriptor(layout, t, i).payload_offset \in Nat
          /\ Descriptor(layout, t, i).payload_length \in Nat
      BY <2>1, <3>1, AcceptedSpan
    <3> QED
      BY <3>2 DEF DescriptorEnd
  <2> QED
    BY <2>1
<1>7. EndsAreOffsets(layout, t, n)
  BY <1>2 DEF EndsAreOffsets
<1> HIDE DEF n
<1>3. PICK f : /\ f \in [0..n -> Nat] /\ f[0] = layout.varlen_payload_offset
               /\ \A i \in 1..n : Follows(layout, t, i, f[i - 1], f[i])
  BY <1>1, <1>7, ExpectedExists
<1>4. \A i \in 0..n : e[i] = f[i]
  <2>1. f = [i \in 0..n |-> f[i]]
    BY <1>3
  <2>2. ASSUME NEW i \in 1..n PROVE Follows(layout, t, i, f[i - 1], f[i])
    BY <1>3
  <2>3. f[0] = layout.varlen_payload_offset
    BY <1>3
  <2>4. Tracks(layout, t, n, f)
    BY <2>1, <2>2, <2>3 DEF Tracks
  <2> HIDE DEF e
  <2>5. n \in Nat /\ n = Len(layout.columns)
    BY <1>1
  <2>6. SameTo(n, e, f)
    BY <2>4, <2>5, ExpectedAt DEF e
  <2> QED
    BY <2>6 DEF SameTo
<1>5. e[0] = layout.varlen_payload_offset
  BY <1>1, <1>3, <1>4
<1> HIDE DEF e
<1>6. ASSUME NEW i \in 1..n PROVE Follows(layout, t, i, e[i - 1], e[i])
  <2>1. i - 1 \in 0..n /\ i \in 0..n
    BY <1>1
  <2>2. e[i - 1] = f[i - 1] /\ e[i] = f[i]
    BY <1>4, <2>1
  <2>3. Follows(layout, t, i, f[i - 1], f[i])
    BY <1>3
  <2> QED
    BY <2>2, <2>3
<1> QED
  BY <1>5, <1>6 DEF e, n

LEMMA AcceptedLength ==
    ASSUME NEW layout, IsLayout(layout), NEW m, NEW t, Accepted(layout, m, t),
           NEW i \in 1..Count(layout), Varlen(layout, i),
           NEW values, ReadsAs(layout, t, i, values[i]), values[i] # NULL
    PROVE  /\ ~IsNull(Bitmap(layout, t), i)
           /\ Length(values, i) = Descriptor(layout, t, i).payload_length
           /\ Descriptor(layout, t, i).payload_offset = ExpectedOffsets(layout, t)[i - 1]
           /\ Length(values, i) \in 0..MaxOf(WordSize)
<1>1. ~IsNull(Bitmap(layout, t), i)
  BY DEF ReadsAs
<1>2. values[i][2] = Subspan(t, Descriptor(layout, t, i).payload_offset,
                                Descriptor(layout, t, i).payload_length)
  BY DEF ReadsAs
<1>3. Len(Subspan(t, Descriptor(layout, t, i).payload_offset, Descriptor(layout, t, i).payload_length))
         = Descriptor(layout, t, i).payload_length
  BY <1>1, AcceptedSpan
<1>4. Length(values, i) = Descriptor(layout, t, i).payload_length
  BY <1>2, <1>3 DEF Length, Payload
<1>5. Descriptor(layout, t, i).payload_length \in 0..MaxOf(WordSize)
  BY AcceptedDescriptor
<1>6. Descriptor(layout, t, i).payload_offset = ExpectedOffsets(layout, t)[i - 1]
  BY <1>1, AcceptedPayload
<1> QED
  BY <1>1, <1>4, <1>5, <1>6

LEMMA SizesAreExpected ==
    ASSUME NEW layout, IsLayout(layout), NEW m, NEW t, Accepted(layout, m, t),
           NEW values, IsRow(layout, values),
           \A i \in 1..Count(layout) : ReadsAs(layout, t, i, values[i]),
           NEW sizes, NEW k, Sized(layout, values, sizes, k)
    PROVE  /\ \A i \in 0..Count(layout) : sizes[i] = ExpectedOffsets(layout, t)[i]
           /\ sizes[Count(layout)] = m
<1> DEFINE n == Count(layout)
           e == ExpectedOffsets(layout, t)
           T == {i \in 0..n : sizes[i] = e[i]}
<1>1. n \in Nat
  BY LayoutRoom
<1>2. /\ e[0] = layout.varlen_payload_offset
      /\ \A i \in 1..n : Follows(layout, t, i, e[i - 1], e[i])
  BY AcceptedExpected
<1>3. 0 \in T
  <2>1. sizes[0] = layout.varlen_payload_offset
    BY DEF Sized
  <2> QED
    BY <1>1, <1>2, <2>1
<1>4. ASSUME NEW i \in 1..n, i - 1 \in T PROVE i \in T
  <2>1. sizes[i - 1] = e[i - 1] /\ i \in 0..n
    BY <1>1, <1>4
  <2>2. IsVarlen(layout, i) <=> Varlen(layout, i)
    BY ColumnNames
  <2>3. values[i] = NULL <=> IsNull(Bitmap(layout, t), i)
    BY DEF ReadsAs
  <2>4. Follows(layout, t, i, e[i - 1], e[i])
    BY <1>2
  <2> HIDE DEF e, T
  <2>5. CASE values[i] = NULL \/ ~Varlen(layout, i)
    <3>1. sizes[i] = sizes[i - 1]
      BY <2>5 DEF Sized
    <3>2. e[i] = e[i - 1]
      BY <2>2, <2>3, <2>4, <2>5 DEF Follows
    <3>3. sizes[i] = e[i]
      BY <2>1, <3>1, <3>2
    <3> QED
      BY <2>1, <3>3 DEF T
  <2>6. CASE values[i] # NULL /\ Varlen(layout, i)
    <3>1. sizes[i] = sizes[i - 1] + Length(values, i)
      BY <2>6 DEF Sized
    <3>2. e[i] = DescriptorEnd(Descriptor(layout, t, i))
      BY <2>2, <2>3, <2>4, <2>6 DEF Follows
    <3>3. /\ Length(values, i) = Descriptor(layout, t, i).payload_length
          /\ Descriptor(layout, t, i).payload_offset = e[i - 1]
      <4>1. ReadsAs(layout, t, i, values[i]) /\ values[i] # NULL /\ Varlen(layout, i)
        BY <2>6
      <4> QED
        BY <4>1, AcceptedLength DEF e
    <3>4. sizes[i] = e[i]
      BY <2>1, <3>1, <3>2, <3>3 DEF DescriptorEnd
    <3> QED
      BY <2>1, <3>4 DEF T
  <2> QED
    BY <2>5, <2>6
<1> HIDE DEF T
<1>5. 0..n \subseteq T
  BY <1>1, <1>3, <1>4, InductionTo
<1>6. \A i \in 0..n : sizes[i] = e[i]
  BY <1>5 DEF T
<1>7. e[n] = m
  <2>1. ValidatePayload(layout, t) /\ Len(t) = m
    BY AcceptedParts, AcceptedRoom
  <2> QED
    BY <2>1 DEF ValidatePayload, Count
<1>8. sizes[n] = m
  BY <1>1, <1>6, <1>7
<1> QED
  BY <1>6, <1>8 DEF n, e

-----------------------------------------------------------------------------
(* Encoding what was decoded. *)

LEMMA FlagsBack ==
    ASSUME NEW header, header.tuple_flags \in 0..3
    PROVE  header.tuple_flags = (IF HasFlag(header, TUPLE_FLAG_HAS_NULLS) THEN TUPLE_FLAG_HAS_NULLS ELSE 0)
                                   + (IF HasFlag(header, TUPLE_FLAG_HAS_VARLEN) THEN TUPLE_FLAG_HAS_VARLEN ELSE 0)
<1> DEFINE flags == header.tuple_flags
<1>1. /\ HasFlag(header, TUPLE_FLAG_HAS_NULLS) <=> (flags \div 1) % 2 = 1
      /\ HasFlag(header, TUPLE_FLAG_HAS_VARLEN) <=> (flags \div 2) % 2 = 1
  BY DEF HasFlag, TUPLE_FLAG_HAS_NULLS, TUPLE_FLAG_HAS_VARLEN
<1>2. flags \in 0..3
  OBVIOUS
<1> HIDE DEF flags
<1>3. flags = (IF (flags \div 1) % 2 = 1 THEN 1 ELSE 0) + (IF (flags \div 2) % 2 = 1 THEN 2 ELSE 0)
  <2>1. flags = 0 \/ flags = 1 \/ flags = 2 \/ flags = 3
    BY <1>2
  <2> QED
    BY <2>1
<1> QED
  BY <1>1, <1>3 DEF flags, TUPLE_FLAG_HAS_NULLS, TUPLE_FLAG_HAS_VARLEN

LEMMA HeaderAgain ==
    ASSUME NEW layout, IsLayout(layout), NEW m, NEW t, Accepted(layout, m, t),
           NEW values, values = DecodedValues(layout, t), NEW header, header = DecodeTupleHeader(t)
    PROVE  /\ IsHeader(header) /\ MetadataFits(header) /\ ValidateTupleHeader(header)
           /\ EncodedHeader(layout, header, values) = header
<1>1. m \in Nat /\ HeaderSize =< m /\ t \in [1..m -> Byte]
  BY AcceptedRoom
<1>2. IsHeader(header)
  BY <1>1, HeaderBytes
<1>3. /\ ValidateTupleHeader(header)
      /\ header.schema_version = layout.schema_version
      /\ header.null_bitmap_bytes = layout.null_bitmap_bytes
      /\ HasFlag(header, TUPLE_FLAG_HAS_VARLEN) = HasVarlenColumns(layout)
      /\ HasFlag(header, TUPLE_FLAG_HAS_NULLS)
            = (\E i \in 1..Count(layout) : IsNull(Bitmap(layout, t), i))
  BY AcceptedParts
<1>4. MetadataFits(header)
  BY <1>2, HeaderDomain DEF IsHeader, MetadataFits
<1>5. HasNulls(values) <=> \E i \in 1..Count(layout) : IsNull(Bitmap(layout, t), i)
  <2>1. DOMAIN values = 1..Count(layout)
    BY AcceptedValues DEF IsRow
  <2>2. \A i \in 1..Count(layout) : values[i] = NULL <=> IsNull(Bitmap(layout, t), i)
    BY AcceptedValues DEF ReadsAs
  <2> QED
    BY <2>1, <2>2 DEF HasNulls
<1>6. header.tuple_flags \in 0..3
  <2>1. header.tuple_flags \in 0..MaxOf(HalfSize)
    BY <1>2, HeaderDomain DEF IsHeader
  <2>2. header.tuple_flags =< 3
    BY <1>3 DEF ValidateTupleHeader, TUPLE_FLAG_HAS_NULLS, TUPLE_FLAG_HAS_VARLEN
  <2>3. MaxOf(HalfSize) \in Nat
    BY Maxima
  <2> QED
    BY <2>1, <2>2, <2>3
<1>7. header.tuple_flags = (IF HasNulls(values) THEN TUPLE_FLAG_HAS_NULLS ELSE 0)
                              + (IF HasVarlenColumns(layout) THEN TUPLE_FLAG_HAS_VARLEN ELSE 0)
  BY <1>3, <1>5, <1>6, FlagsBack
<1> DEFINE h == EncodedHeader(layout, header, values)
<1>8. DOMAIN h = DOMAIN HeaderFields /\ h = [f \in DOMAIN HeaderFields |-> h[f]]
  BY HeaderDomain DEF EncodedHeader
<1>9. /\ h.xmin = header.xmin /\ h.xmax = header.xmax /\ h.cmin = header.cmin /\ h.cmax = header.cmax
      /\ h.prev_page_no = header.prev_page_no /\ h.prev_slot = header.prev_slot
      /\ h.tuple_flags = header.tuple_flags
  BY <1>7, EncodedHeaderAt
<1>10. /\ h.header_bytes = header.header_bytes /\ h.null_bitmap_bytes = header.null_bitmap_bytes
       /\ h.schema_version = header.schema_version /\ h.reserved = header.reserved
  BY <1>3, EncodedHeaderAt DEF ValidateTupleHeader
<1> HIDE DEF h
<1>11. ASSUME NEW f \in DOMAIN HeaderFields PROVE h[f] = header[f]
  BY <1>9, <1>10, HeaderDomain
<1>12. header = [f \in DOMAIN HeaderFields |-> header[f]]
  BY <1>2 DEF IsHeader
<1>13. h = header
  BY <1>8, <1>11, <1>12
<1> QED
  BY <1>2, <1>3, <1>4, <1>13 DEF h

LEMMA RowAgain ==
    ASSUME NEW layout, IsLayout(layout), NEW m, NEW t, Accepted(layout, m, t),
           NEW values, values = DecodedValues(layout, t)
    PROVE  /\ IsRow(layout, values)
           /\ \A i \in 1..Count(layout) : ReadsAs(layout, t, i, values[i])
           /\ Sized(layout, values, RowSizes(layout, values), m)
           /\ \A i \in 0..Count(layout) : RowSizes(layout, values)[i] = ExpectedOffsets(layout, t)[i]
           /\ RowSizes(layout, values)[Count(layout)] = m
<1> DEFINE sizes == RowSizes(layout, values)
           k == sizes[Count(layout)]
<1>1. IsRow(layout, values) /\ \A i \in 1..Count(layout) : ReadsAs(layout, t, i, values[i])
  BY AcceptedValues
<1>2. Sized(layout, values, sizes, k)
  BY <1>1, SizedRow
<1> HIDE DEF sizes
<1>3. (\A i \in 0..Count(layout) : sizes[i] = ExpectedOffsets(layout, t)[i]) /\ k = m
  BY <1>1, <1>2, SizesAreExpected
<1> QED
  BY <1>1, <1>2, <1>3 DEF sizes

LEMMA PlanAgain ==
    ASSUME NEW layout, IsLayout(layout), NEW m, NEW t, Accepted(layout, m, t),
           NEW values, values = DecodedValues(layout, t)
    PROVE  PlanTupleSize(layout, VarlenLengths(layout, values)).code = "OK"
<1> DEFINE lengths == VarlenLengths(layout, values)
           n == Count(layout)
           total == PlannedSizes(layout, lengths)[Len(lengths)]
<1>1. /\ IsRow(layout, values) /\ \A i \in 1..n : ReadsAs(layout, t, i, values[i])
      /\ RowSizes(layout, values)[n] = m
  BY RowAgain
<1>2. /\ lengths \in [1..n -> Nat] /\ Len(lengths) = n
      /\ \A i \in 1..n : /\ values[i] = NULL \/ ~Varlen(layout, i) => lengths[i] = 0
                         /\ values[i] # NULL /\ Varlen(layout, i) => lengths[i] = Length(values, i)
  BY <1>1, LengthsAt DEF Length, Payload
<1>3. total = m
  BY <1>1, <1>2 DEF RowSizes
<1>4. m \in Nat /\ m =< MaxTuple /\ MaxTuple \in Nat /\ MaxOf(WordSize) \in Nat
  BY AcceptedRoom, LayoutRoom
<1> HIDE DEF n, lengths
<1>5. ASSUME NEW i \in DOMAIN lengths PROVE ~(lengths[i] > MaxOf(WordSize))
  <2>1. i \in 1..n
    BY <1>2
  <2>2. CASE values[i] = NULL \/ ~Varlen(layout, i)
    <3>1. lengths[i] = 0
      BY <1>2, <2>1, <2>2
    <3> QED
      BY <1>4, <3>1
  <2>3. CASE values[i] # NULL /\ Varlen(layout, i)
    <3>1. lengths[i] = Length(values, i)
      BY <1>2, <2>1, <2>3
    <3>2. i \in 1..Count(layout) /\ ReadsAs(layout, t, i, values[i]) /\ values[i] # NULL /\ Varlen(layout, i)
      BY <1>1, <2>1, <2>3 DEF n
    <3>3. Length(values, i) \in 0..MaxOf(WordSize)
      BY <3>2, AcceptedLength
    <3> QED
      BY <1>4, <3>1, <3>3
  <2> QED
    BY <2>2, <2>3
<1> HIDE DEF total
<1>6. ~(total > MaxTuple)
  BY <1>3, <1>4
<1>7. PlanTupleSize(layout, lengths).code = "OK"
  BY <1>5, <1>6 DEF PlanTupleSize, total
<1> QED
  BY <1>7 DEF lengths

LEMMA AcceptsAgain ==
    ASSUME NEW layout, IsLayout(layout), NEW m, NEW t, Accepted(layout, m, t),
           NEW values, values = DecodedValues(layout, t), NEW header, header = DecodeTupleHeader(t)
    PROVE  /\ EncodeAccepts(layout, header, values)
           /\ EncodeTuple(layout, header, values).code = "OK"
           /\ Complete(layout, header, values, RowSizes(layout, values), m,
                       EncodeTuple(layout, header, values).tuple)
<1>1. /\ MetadataFits(header) /\ ValidateTupleHeader(header)
      /\ EncodedHeader(layout, header, values) = header
  BY HeaderAgain
<1>2. IsRow(layout, values) /\ RowSizes(layout, values)[Count(layout)] = m
  BY RowAgain
<1>3. PlanTupleSize(layout, VarlenLengths(layout, values)).code = "OK"
  BY PlanAgain
<1>4. Len(values) = Len(layout.columns) /\ DOMAIN values = 1..Count(layout)
  BY <1>2, LengthsAt DEF Count
<1>5. ASSUME NEW i \in 1..Count(layout) PROVE ValueAllowed(layout.columns[i], values[i])
  BY <1>2 DEF IsRow, ValueAllowed, Type
<1>6. EncodeAccepts(layout, header, values)
  BY <1>1, <1>3, <1>4, <1>5 DEF EncodeAccepts
<1>7. RowSizes(layout, values)[Count(layout)] =< MaxTuple
  BY <1>2, AcceptedRoom
<1>8. /\ EncodeTuple(layout, header, values).code = "OK"
      /\ Complete(layout, EncodedHeader(layout, header, values), values,
                  RowSizes(layout, values), RowSizes(layout, values)[Count(layout)],
                  EncodeTuple(layout, header, values).tuple)
  BY <1>1, <1>2, <1>7, EncodedTuple
<1> QED
  BY <1>1, <1>2, <1>6, <1>8

(* A byte of the header, *)
LEMMA SameHeader ==
    ASSUME NEW layout, IsLayout(layout), NEW m, NEW t, Accepted(layout, m, t),
           NEW header, header = DecodeTupleHeader(t), NEW values, NEW sizes, NEW a,
           Complete(layout, header, values, sizes, m, a), NEW k \in 1..HeaderSize
    PROVE  a[k] = t[k]
<1>1. m \in Nat /\ HeaderSize =< m /\ t \in [1..m -> Byte]
  BY AcceptedRoom
<1>2. EncodeTupleHeader(header)[k] = t[k]
  BY <1>1, HeaderBytes
<1>3. a[k] = EncodeTupleHeader(header)[k]
  BY DEF Complete
<1> QED
  BY <1>2, <1>3

(* a bit of the null bitmap, *)
LEMMA SameBit ==
    ASSUME NEW layout, IsLayout(layout), NEW m, NEW t, Accepted(layout, m, t),
           NEW values, \A i \in 1..Count(layout) : ReadsAs(layout, t, i, values[i]),
           NEW b \in 1..layout.null_bitmap_bytes, NEW bit \in 1..ByteBits
    PROVE  Bits(Bitmap(layout, t)[b])[bit] = NullDigit(values, Count(layout), (b - 1) * ByteBits + bit)
<1> DEFINE n == Count(layout)
           size == layout.null_bitmap_bytes
           bitmap == Bitmap(layout, t)
           p == (b - 1) * ByteBits + bit
<1>1. n \in Nat /\ size \in Nat /\ size = NullBitmapBytes(n)
  BY LayoutRoom DEF IsLayout
<1>2. bitmap \in [1..size -> Byte]
  BY AcceptedRoom, BitmapAt
<1>3. b \in Nat \ {0} /\ b =< size
  BY <1>1
<1>4. /\ p \in Nat \ {0} /\ BitmapByte(p) = b /\ NullBit(p) = bit
  BY <1>3, PlaceOfBit
<1>5. p > n => n % ByteBits # 0 /\ b = NullBitmapBytes(n) /\ bit \in ((n % ByteBits) + 1)..ByteBits
  BY <1>1, <1>3, BitmapEnds
<1>6. bitmap # << >> => ~UnusedBitSet(bitmap, n)
  BY AcceptedParts
<1>7. Bits(bitmap[b]) \in [1..ByteBits -> 0..1]
  <2>1. bitmap[b] \in Byte
    BY <1>2
  <2> QED
    BY <2>1, BitsType
<1>8. IsNull(bitmap, p) <=> Bits(bitmap[b])[bit] = 1
  BY <1>4 DEF IsNull
<1>9. \A i \in 1..n : values[i] = NULL <=> IsNull(bitmap, i)
  BY DEF ReadsAs
<1> HIDE DEF n, size, bitmap, p
<1>10. CASE p =< n
  <2>1. p \in 1..n
    BY <1>1, <1>4, <1>10
  <2>2. values[p] = NULL <=> Bits(bitmap[b])[bit] = 1
    BY <1>8, <1>9, <2>1
  <2>3. Bits(bitmap[b])[bit] \in 0..1
    BY <1>7
  <2>4. Bits(bitmap[b])[bit] = IF values[p] = NULL THEN 1 ELSE 0
    BY <2>2, <2>3
  <2>5. Bits(bitmap[b])[bit] = NullDigit(values, n, p)
    BY <2>1, <2>4 DEF NullDigit
  <2> QED
    BY <2>5 DEF n, bitmap, p
<1>11. CASE p > n
  <2>1. p \notin 1..n
    BY <1>1, <1>4, <1>11
  <2>2. b = size /\ Len(bitmap) = size /\ bitmap # << >>
    <3>1. Len(bitmap) = size /\ b = size
      BY <1>1, <1>2, <1>5, <1>11
    <3>2. Len(<< >>) = 0 /\ size # 0
      BY <1>1, <1>3
    <3> QED
      BY <3>1, <3>2
  <2>3. Last(bitmap) = bitmap[b]
    BY <2>2 DEF Last
  <2>4. Bits(bitmap[b])[bit] # 1
    BY <1>5, <1>6, <1>11, <2>2, <2>3 DEF UnusedBitSet
  <2>5. Bits(bitmap[b])[bit] \in 0..1
    BY <1>7
  <2>6. Bits(bitmap[b])[bit] = 0
    BY <2>4, <2>5
  <2>7. NullDigit(values, n, p) = 0
    BY <2>1 DEF NullDigit
  <2> QED
    BY <2>6, <2>7 DEF n, bitmap, p
<1> QED
  BY <1>1, <1>4, <1>10, <1>11

LEMMA BitmapByteAt ==
    ASSUME NEW layout, IsLayout(layout), NEW m \in Nat, layout.varlen_payload_offset =< m,
           NEW t \in [1..m -> Byte], NEW b \in 1..layout.null_bitmap_bytes
    PROVE  Bitmap(layout, t)[b] = t[HeaderSize + b] /\ Bitmap(layout, t)[b] \in Byte
<1>1. /\ Bitmap(layout, t) \in [1..layout.null_bitmap_bytes -> Byte]
      /\ \A p \in 1..layout.null_bitmap_bytes : Bitmap(layout, t)[p] = t[HeaderSize + p]
  BY BitmapAt
<1> QED
  BY <1>1

LEMMA SameBitmap ==
    ASSUME NEW layout, IsLayout(layout), NEW m, NEW t, Accepted(layout, m, t),
           NEW values, \A i \in 1..Count(layout) : ReadsAs(layout, t, i, values[i]),
           NEW header, NEW sizes, NEW a, Complete(layout, header, values, sizes, m, a),
           NEW b \in 1..layout.null_bitmap_bytes
    PROVE  a[HeaderSize + b] = t[HeaderSize + b]
<1>1. /\ m \in Nat /\ layout.varlen_payload_offset =< m
      /\ t \in [1..m -> Byte] /\ a \in [1..m -> Byte]
  <2>1. m \in Nat /\ layout.varlen_payload_offset =< m /\ t \in [1..m -> Byte]
    BY AcceptedRoom
  <2>2. a \in [1..m -> Byte]
    BY CompleteRoom
  <2> QED
    BY <2>1, <2>2
<1>2. /\ Bitmap(layout, t)[b] = t[HeaderSize + b] /\ Bitmap(layout, a)[b] = a[HeaderSize + b]
      /\ Bitmap(layout, t)[b] \in Byte /\ Bitmap(layout, a)[b] \in Byte
  <2>1. Bitmap(layout, t)[b] = t[HeaderSize + b] /\ Bitmap(layout, t)[b] \in Byte
    BY <1>1, BitmapByteAt
  <2>2. Bitmap(layout, a)[b] = a[HeaderSize + b] /\ Bitmap(layout, a)[b] \in Byte
    BY <1>1, BitmapByteAt
  <2> QED
    BY <2>1, <2>2
<1>3. ASSUME NEW bit \in 1..ByteBits
      PROVE  Bits(Bitmap(layout, a)[b])[bit] = Bits(Bitmap(layout, t)[b])[bit]
  <2>1. Bits(Bitmap(layout, a)[b])[bit] = NullDigit(values, Count(layout), (b - 1) * ByteBits + bit)
    BY CompleteBit
  <2>2. Bits(Bitmap(layout, t)[b])[bit] = NullDigit(values, Count(layout), (b - 1) * ByteBits + bit)
    BY SameBit
  <2> QED
    BY <2>1, <2>2
<1>4. Bitmap(layout, a)[b] = Bitmap(layout, t)[b]
  BY <1>2, <1>3, SameByte
<1> QED
  BY <1>2, <1>4

(* a byte of a field, unless it stands under a NULL, *)
LEMMA SameField ==
    ASSUME NEW layout, IsLayout(layout), NEW m, NEW t, Accepted(layout, m, t),
           NEW values, IsRow(layout, values), NEW sizes,
           NEW i \in 1..Count(layout), ReadsAs(layout, t, i, values[i]),
           sizes[i - 1] = ExpectedOffsets(layout, t)[i - 1],
           values[i] # NULL \/ Varlen(layout, i)
    PROVE  FieldImage(layout, values, sizes, i) = Field(layout.columns[i], t)
<1>1. CASE values[i] = NULL
  <2>1. Varlen(layout, i) /\ IsNull(Bitmap(layout, t), i)
    BY <1>1 DEF ReadsAs
  <2>2. Descriptor(layout, t, i) = [payload_offset |-> 0, payload_length |-> 0]
    BY <2>1, AcceptedPayload
  <2>3. Field(layout.columns[i], t) = Zeroes(2 * WordSize) /\ Width(layout, i) = 2 * WordSize
    BY <2>1, <2>2, AcceptedDescriptor
  <2> QED
    BY <1>1, <2>3 DEF FieldImage
<1>2. CASE values[i] # NULL /\ ~Varlen(layout, i)
  <2>1. EncodeFixedScalar(Type(layout, i), values[i]) = Field(layout.columns[i], t)
    BY <1>2 DEF ReadsAs
  <2> QED
    BY <1>2, <2>1 DEF FieldImage
<1>3. CASE values[i] # NULL /\ Varlen(layout, i)
  <2>1. /\ Length(values, i) = Descriptor(layout, t, i).payload_length
        /\ Descriptor(layout, t, i).payload_offset = ExpectedOffsets(layout, t)[i - 1]
    BY <1>3, AcceptedLength
  <2>2. EncodeVarcharDescriptor(Descriptor(layout, t, i).payload_offset,
                                Descriptor(layout, t, i).payload_length)
           = Field(layout.columns[i], t)
    BY <1>3, AcceptedDescriptor
  <2>3. FieldImage(layout, values, sizes, i) = EncodeVarcharDescriptor(sizes[i - 1], Length(values, i))
    BY <1>3 DEF FieldImage, Length, Payload
  <2> QED
    BY <2>1, <2>2, <2>3
<1> QED
  BY <1>1, <1>2, <1>3

(* a byte of a payload. *)
LEMMA SamePayload ==
    ASSUME NEW layout, IsLayout(layout), NEW m, NEW t, Accepted(layout, m, t),
           NEW values, NEW header, NEW sizes, NEW a, Complete(layout, header, values, sizes, m, a),
           NEW i \in 1..Count(layout), ReadsAs(layout, t, i, values[i]),
           sizes[i - 1] = ExpectedOffsets(layout, t)[i - 1],
           values[i] # NULL, Varlen(layout, i), NEW q \in 1..Length(values, i)
    PROVE  a[sizes[i - 1] + q] = t[sizes[i - 1] + q]
<1>1. /\ ~IsNull(Bitmap(layout, t), i)
      /\ Length(values, i) = Descriptor(layout, t, i).payload_length
      /\ Descriptor(layout, t, i).payload_offset = sizes[i - 1]
  BY AcceptedLength
<1>2. Payload(values, i) = Subspan(t, Descriptor(layout, t, i).payload_offset,
                                      Descriptor(layout, t, i).payload_length)
  BY DEF ReadsAs, Payload
<1>3. a[sizes[i - 1] + q] = Payload(values, i)[q]
  BY DEF Complete, PayloadIsWritten
<1> DEFINE o == Descriptor(layout, t, i).payload_offset
           l == Descriptor(layout, t, i).payload_length
           span == Subspan(t, o, l)
<1>4. \A k \in 1..l : span[k] = t[o + k]
  BY <1>1, AcceptedSpan
<1> HIDE DEF o, l, span
<1>5. q \in 1..l /\ Payload(values, i) = span /\ o = sizes[i - 1]
  BY <1>1, <1>2 DEF o, l, span
<1>6. Payload(values, i)[q] = t[sizes[i - 1] + q]
  BY <1>4, <1>5
<1> QED
  BY <1>3, <1>6

(* Every byte is one of these. *)
LEMMA PartOfTuple ==
    ASSUME NEW layout, IsLayout(layout), NEW values, IsRow(layout, values),
           NEW sizes, NEW m, Sized(layout, values, sizes, m),
           NEW k \in 1..m
    PROVE  \/ k \in 1..HeaderSize
           \/ \E b \in 1..layout.null_bitmap_bytes : k = HeaderSize + b
           \/ \E i \in 1..Count(layout) : \E q \in 1..Width(layout, i) : k = Offset(layout, i) + q
           \/ \E i \in 1..Count(layout) :
                 /\ values[i] # NULL /\ Varlen(layout, i)
                 /\ \E q \in 1..Length(values, i) : k = sizes[i - 1] + q
<1>1. /\ HeaderSize \in Nat /\ layout.null_bitmap_bytes \in Nat
      /\ FixedArea(layout) = HeaderSize + layout.null_bitmap_bytes
      /\ layout.varlen_payload_offset \in Nat /\ FixedArea(layout) =< layout.varlen_payload_offset
  BY LayoutRoom
<1>2. m \in Nat /\ k \in Nat
  BY SizedAt
<1>3. CASE k =< HeaderSize
  <2>1. k \in 1..HeaderSize
    BY <1>1, <1>2, <1>3
  <2> QED
    BY <2>1
<1>4. CASE k > HeaderSize /\ k =< FixedArea(layout)
  <2>1. k - HeaderSize \in 1..layout.null_bitmap_bytes /\ k = HeaderSize + (k - HeaderSize)
    BY <1>1, <1>2, <1>4
  <2> QED
    BY <2>1
<1>5. CASE k > FixedArea(layout) /\ k =< layout.varlen_payload_offset
  <2>1. k \in (FixedArea(layout) + 1)..layout.varlen_payload_offset
    BY <1>1, <1>2, <1>5
  <2>2. \E i \in 1..Count(layout) : \E q \in 1..Width(layout, i) : k = Offset(layout, i) + q
    BY <2>1, FieldCovers
  <2> QED
    BY <2>2
<1>6. CASE k > layout.varlen_payload_offset
  <2> DEFINE n == Count(layout)
  <2>1. n \in Nat /\ Grows(sizes, n) /\ sizes[0] = layout.varlen_payload_offset /\ sizes[n] = m
    BY LayoutRoom DEF Sized
  <2>2. k \in (sizes[0] + 1)..sizes[n]
    BY <1>1, <1>2, <1>6, <2>1
  <2> HIDE DEF n
  <2>3. PICK i \in 1..n : k \in (sizes[i - 1] + 1)..sizes[i]
    BY <2>1, <2>2, GrowsOver
  <2>4. i \in 1..Count(layout)
    BY <2>3 DEF n
  <2>5. sizes[i - 1] \in Nat /\ sizes[i] \in Nat
    BY <2>4, SizedAt
  <2>6. values[i] # NULL /\ Varlen(layout, i) /\ sizes[i] = sizes[i - 1] + Length(values, i)
    <3>1. sizes[i] # sizes[i - 1]
      BY <2>3, <2>5
    <3> QED
      BY <2>4, <3>1 DEF Sized
  <2>7. k - sizes[i - 1] \in 1..Length(values, i) /\ k = sizes[i - 1] + (k - sizes[i - 1])
    <3>1. Length(values, i) \in Nat
      BY <2>4, <2>6, PayloadAt
    <3> QED
      BY <1>2, <2>3, <2>5, <2>6, <3>1
  <2> QED
    BY <2>4, <2>6, <2>7
<1> QED
  BY <1>1, <1>2, <1>3, <1>4, <1>5, <1>6

(* The bytes that are encoded again are the ones that were decoded. *)
LEMMA SameAgain ==
    ASSUME NEW layout, IsLayout(layout), NEW m, NEW t, Accepted(layout, m, t),
           NEW values, values = DecodedValues(layout, t), NEW header, header = DecodeTupleHeader(t),
           NEW a, a = EncodeTuple(layout, header, values).tuple,
           NEW k \in 1..m, k \notin UnreadBytes(layout, values)
    PROVE  a[k] = t[k]
<1> DEFINE sizes == RowSizes(layout, values)
           n == Count(layout)
<1>1. Complete(layout, header, values, sizes, m, a)
  BY AcceptsAgain
<1>2. /\ IsRow(layout, values) /\ \A i \in 1..n : ReadsAs(layout, t, i, values[i])
      /\ Sized(layout, values, sizes, m)
      /\ \A i \in 0..n : sizes[i] = ExpectedOffsets(layout, t)[i]
  BY RowAgain
<1>3. n \in Nat
  BY LayoutRoom
<1> HIDE DEF sizes
<1>4. ASSUME NEW i \in 1..n PROVE sizes[i - 1] = ExpectedOffsets(layout, t)[i - 1]
  <2>1. i - 1 \in 0..n
    BY <1>3
  <2> QED
    BY <1>2, <2>1
<1>5. CASE k \in 1..HeaderSize
  BY <1>1, <1>5, SameHeader
<1>6. ASSUME NEW b \in 1..layout.null_bitmap_bytes, k = HeaderSize + b PROVE a[k] = t[k]
  <2>1. a[HeaderSize + b] = t[HeaderSize + b]
    BY <1>1, <1>2, SameBitmap
  <2> QED
    BY <1>6, <2>1
<1>7. ASSUME NEW i \in 1..n, NEW q \in 1..Width(layout, i), k = Offset(layout, i) + q PROVE a[k] = t[k]
  <2>1. values[i] # NULL \/ Varlen(layout, i)
    <3>1. ASSUME values[i] = NULL, ~Varlen(layout, i) PROVE FALSE
      <4>1. Offset(layout, i) \in Nat /\ Width(layout, i) \in Nat
        BY FieldRoom
      <4>2. k \in (Offset(layout, i) + 1)..(Offset(layout, i) + Width(layout, i))
        BY <1>7, <4>1
      <4>3. i \in {j \in Columns(layout) : values[j] = NULL /\ ~IsVarlen(layout, j)}
        BY <3>1, LayoutRoom, ColumnNames
      <4>4. k \in UnreadBytes(layout, values)
        BY <4>2, <4>3 DEF UnreadBytes, Offset, Width
      <4> QED
        BY <4>4
    <3> QED
      BY <3>1
  <2>2. FieldImage(layout, values, sizes, i) = Field(layout.columns[i], t)
    <3>1. /\ i \in 1..Count(layout) /\ ReadsAs(layout, t, i, values[i])
          /\ sizes[i - 1] = ExpectedOffsets(layout, t)[i - 1]
      BY <1>2, <1>4
    <3> QED
      BY <1>2, <2>1, <3>1, SameField
  <2>3. a[Offset(layout, i) + q] = FieldImage(layout, values, sizes, i)[q]
    BY <1>1 DEF Complete, FieldWritten
  <2>4. Field(layout.columns[i], t)[q] = t[Offset(layout, i) + q]
    <3>1. m \in Nat /\ t \in [1..m -> Byte] /\ layout.varlen_payload_offset =< m
      BY AcceptedRoom
    <3> QED
      BY <3>1, FieldAt
  <2> QED
    BY <1>7, <2>2, <2>3, <2>4
<1>8. ASSUME NEW i \in 1..n, values[i] # NULL, Varlen(layout, i),
             NEW q \in 1..Length(values, i), k = sizes[i - 1] + q
      PROVE  a[k] = t[k]
  <2>1. /\ i \in 1..Count(layout) /\ ReadsAs(layout, t, i, values[i])
        /\ sizes[i - 1] = ExpectedOffsets(layout, t)[i - 1]
    BY <1>2, <1>4
  <2>2. a[sizes[i - 1] + q] = t[sizes[i - 1] + q]
    BY <1>1, <1>8, <2>1, SamePayload
  <2> QED
    BY <1>8, <2>2
<1>9. \/ k \in 1..HeaderSize
      \/ \E b \in 1..layout.null_bitmap_bytes : k = HeaderSize + b
      \/ \E i \in 1..n : \E q \in 1..Width(layout, i) : k = Offset(layout, i) + q
      \/ \E i \in 1..n :
            /\ values[i] # NULL /\ Varlen(layout, i)
            /\ \E q \in 1..Length(values, i) : k = sizes[i - 1] + q
  BY <1>2, PartOfTuple
<1> QED
  BY <1>5, <1>6, <1>7, <1>8, <1>9, Zenon

LEMMA CanonicalTuple ==
    ASSUME NEW layout, IsLayout(layout), NEW t \in Seq(Byte), ValidateTuple(layout, t),
           NEW values, values = DecodedValues(layout, t), NEW header, header = DecodeTupleHeader(t)
    PROVE  /\ EncodeAccepts(layout, header, values)
           /\ EncodeTuple(layout, header, values).code = "OK"
           /\ Len(EncodeTuple(layout, header, values).tuple) = Len(t)
           /\ \A b \in DOMAIN t \ UnreadBytes(layout, values) :
                 EncodeTuple(layout, header, values).tuple[b] = t[b]
<1> DEFINE m == Len(t)
           a == EncodeTuple(layout, header, values).tuple
<1>1. m \in Nat /\ t \in [1..m -> Byte] /\ DOMAIN t = 1..m
  OBVIOUS
<1> HIDE DEF m
<1>2. Accepted(layout, m, t)
  BY <1>1 DEF Accepted
<1>3. /\ EncodeAccepts(layout, header, values)
      /\ EncodeTuple(layout, header, values).code = "OK"
      /\ Complete(layout, header, values, RowSizes(layout, values), m, a)
  BY <1>2, AcceptsAgain
<1>4. Len(a) = m
  BY <1>3, CompleteRoom
<1>5. ASSUME NEW b \in DOMAIN t \ UnreadBytes(layout, values) PROVE a[b] = t[b]
  <2>1. b \in 1..m /\ b \notin UnreadBytes(layout, values)
    BY <1>1
  <2> QED
    BY <1>2, <2>1, SameAgain
<1> QED
  BY <1>3, <1>4, <1>5 DEF m

(* Whatever its bytes and the schema, a tuple that ValidateTuple accepts is the one that     *)
(* EncodeTuple writes of the values it decodes to, but for the bytes under NULL that no      *)
(* decoder reads: payloads follow one another without overlap or gap, and no unused bit,     *)
(* flag or descriptor slips through the validator.                                           *)
THEOREM AnyAcceptedTupleIsCanonical ==
    ASSUME NEW columns \in Seq([type : PhysicalType, nullable : BOOLEAN]), LayoutFits(columns),
           NEW version \in 1..MaxOf(WordSize), NEW bytes \in Seq(Byte),
           ValidateTuple(BuildTuplePhysicalLayout(columns, version), bytes)
    PROVE  LET layout == BuildTuplePhysicalLayout(columns, version)
               header == DecodeTupleHeader(bytes)
               values == DecodedValues(layout, bytes)
               again == EncodeTuple(layout, header, values)
           IN /\ EncodeAccepts(layout, header, values)
              /\ again.code = "OK"
              /\ Len(again.tuple) = Len(bytes)
              /\ \A b \in DOMAIN bytes \ UnreadBytes(layout, values) : again.tuple[b] = bytes[b]
<1> DEFINE layout == BuildTuplePhysicalLayout(columns, version)
           header == DecodeTupleHeader(bytes)
           values == DecodedValues(layout, bytes)
<1>1. columns \in Seq(ColumnType)
  BY DEF ColumnType
<1>2. IsLayout(layout)
  BY <1>1, LayoutBuilt
<1>3. ValidateTuple(layout, bytes)
  OBVIOUS
<1> HIDE DEF layout, header, values
<1>4. values = DecodedValues(layout, bytes) /\ header = DecodeTupleHeader(bytes)
  BY DEF values, header
<1>5. /\ EncodeAccepts(layout, header, values)
      /\ EncodeTuple(layout, header, values).code = "OK"
      /\ Len(EncodeTuple(layout, header, values).tuple) = Len(bytes)
      /\ \A b \in DOMAIN bytes \ UnreadBytes(layout, values) :
            EncodeTuple(layout, header, values).tuple[b] = bytes[b]
  BY <1>2, <1>3, <1>4, CanonicalTuple
<1> QED
  BY <1>5 DEF layout, header, values

LEMMA StateCanonical ==
    ASSUME TupleInvariant
    PROVE  CanonicalForm
<1>1. /\ HistoryInvariant /\ tuple \in Seq(Byte) /\ DOMAIN history = 1..Len(history)
  BY VersionsAt DEF TupleInvariant
<1>2. ASSUME NEW k \in DOMAIN history, ValidateTuple(history[k], tuple)
      PROVE  LET layout == history[k]
                 header == DecodeTupleHeader(tuple)
                 values == DecodedValues(layout, tuple)
                 again == EncodeTuple(layout, header, values)
             IN /\ EncodeAccepts(layout, header, values)
                /\ again.code = "OK"
                /\ Len(again.tuple) = Len(tuple)
                /\ \A b \in DOMAIN tuple \ UnreadBytes(layout, values) : again.tuple[b] = tuple[b]
  <2> DEFINE layout == history[k]
             header == DecodeTupleHeader(tuple)
             values == DecodedValues(layout, tuple)
  <2>1. IsLayout(layout)
    BY <1>1 DEF HistoryInvariant
  <2>2. ValidateTuple(layout, tuple)
    BY <1>2
  <2> HIDE DEF layout, header, values
  <2>3. values = DecodedValues(layout, tuple) /\ header = DecodeTupleHeader(tuple)
    BY DEF values, header
  <2>4. /\ EncodeAccepts(layout, header, values)
        /\ EncodeTuple(layout, header, values).code = "OK"
        /\ Len(EncodeTuple(layout, header, values).tuple) = Len(tuple)
        /\ \A b \in DOMAIN tuple \ UnreadBytes(layout, values) :
              EncodeTuple(layout, header, values).tuple[b] = tuple[b]
    BY <1>1, <2>1, <2>2, <2>3, CanonicalTuple
  <2> QED
    BY <2>4 DEF layout, header, values
<1> QED
  BY <1>2 DEF CanonicalForm

(* In every state: the stored tuple, however its bytes have been altered, is under each      *)
(* schema version that ValidateTuple accepts it for the one that EncodeTuple writes of the   *)
(* values it decodes to, but for the bytes under NULL that no decoder reads.                 *)
THEOREM AcceptedTuplesAreCanonical == Spec => []CanonicalForm
<1>1. TupleInvariant => CanonicalForm
  BY StateCanonical
<1> QED
  BY <1>1, TupleInvariance, PTL

=============================================================================
