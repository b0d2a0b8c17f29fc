----------------------------- MODULE PageImage ------------------------------
(***************************************************************************)
(* Page images as bytes: the common header, the checksum, the superblock of *)
(* page 0, and the headers of heap and FSM pages (src/src/storage/page,     *)
(* src/src/common/crc32c.cpp, file_superblock.cpp, heap_page_format.cpp,    *)
(* fsm_page.cpp). One place of a file is written by the owner of the page    *)
(* through the pool and read back; a write may miss its place, the medium   *)
(* may alter bits, and a writer may checksum bytes it should not have.      *)
(***************************************************************************)
EXTENDS Encoding, FiniteSetsExt

CONSTANTS
    PageSize,        \* PAGE_SIZE: 8192
    Polynomial,      \* CRC32C_REFLECTED_POLYNOMIAL
    Magic,           \* FILE_SUPERBLOCK_MAGIC
    Locations,       \* the page numbers of the place
    Contents,        \* what the owners of pages write
    StrayBytes       \* the bytes a faulty writer may leave

ASSUME PageImageAssumption ==
    /\ PageSize \in Nat /\ PageSize =< MaxOf(HalfSize)
    /\ Magic \in Seq(Byte) /\ Len(Magic) = 2 * WordSize
    /\ Locations \subseteq 0..(INVALID_PAGE_NO - 1) /\ StrayBytes \subseteq Byte

VARIABLES
    location,    \* the page number of the place
    image,       \* its bytes, << >> while the file does not reach it
    sent,        \* the bytes last written for it, << >> while it is only extended
    content,     \* what they were made of
    lapse        \* what has happened since: "none", "media" or "writer"

imageVars == <<location, image, sent, content, lapse>>

-----------------------------------------------------------------------------
(* CRC-32C. *)

WordBits == WordSize * ByteBits

Word == 0..MaxOf(WordSize)

Bit(word) == Digits(word, 2, WordBits)

Xor(a, b) == Number([k \in 1..WordBits |-> IF Bit(a)[k] = Bit(b)[k] THEN 0 ELSE 1], 2)

(* One bit of the remainder. *)
CrcShift(remainder) ==
    IF remainder % 2 = 1 THEN Xor(remainder \div 2, Polynomial) ELSE remainder \div 2

(* The remainder with a byte of the input, after 0 to ByteBits shifts. *)
Shifts(byte, remainder) ==
    LET shifted[k \in 0..ByteBits] ==
            IF k = 0 THEN Xor(remainder, byte) ELSE CrcShift(shifted[k - 1])
    IN shifted

(* One byte of the input, for every remainder. *)
CrcUpdate ==
    [byte \in Byte |-> [remainder \in Word |-> Shifts(byte, remainder)[ByteBits]]]

(* The remainder after 0 to Len(bytes) bytes. *)
Remainders(bytes) ==
    LET remainder[k \in 0..Len(bytes)] ==
            IF k = 0 THEN MaxOf(WordSize) ELSE CrcUpdate[bytes[k]][remainder[k - 1]]
    IN remainder

Crc32c(bytes) == Xor(Remainders(bytes)[Len(bytes)], MaxOf(WordSize))

(* The polynomial has its top bit, so that no shift loses one; a page of zeroes does not     *)
(* carry its own checksum.                                                                   *)
ASSUME ChecksumAssumption ==
    /\ Polynomial \in Word /\ Bit(Polynomial)[WordBits] = 1
    /\ Crc32c(Zeroes(PageSize)) # 0

-----------------------------------------------------------------------------
(* The common header and the checksum in it. *)

CommonFields ==
    [page_type |-> <<0, HalfSize>>, format_version |-> <<HalfSize, HalfSize>>,
     flags |-> <<2 * HalfSize, WordSize>>, page_lsn |-> <<2 * HalfSize + WordSize, 2 * WordSize>>,
     checksum_crc32c |-> <<2 * HalfSize + 3 * WordSize, WordSize>>,
     header_size |-> <<2 * HalfSize + 4 * WordSize, HalfSize>>,
     reserved16 |-> <<3 * HalfSize + 4 * WordSize, HalfSize>>,
     page_no |-> <<4 * HalfSize + 4 * WordSize, 2 * WordSize>>]

CommonSize == 4 * HalfSize + 6 * WordSize

SUPERBLOCK == 0
HEAP_DATA == 1
FSM_DATA == 2

(* The header of every page type: version 1, no flags, the checksum still to come. *)
CommonPageHeader(type, lsn, size, no) ==
    [page_type |-> type, format_version |-> 1, flags |-> 0, page_lsn |-> lsn,
     checksum_crc32c |-> 0, header_size |-> size, reserved16 |-> 0, page_no |-> no]

(* Page::Initialize: zeroes with an encoded header. *)
InitializePage(header) == EncodeFields(CommonFields, header, Zeroes(PageSize))

DecodeCommonPageHeader(page) == DecodeFields(CommonFields, page)

ChecksumOffset == CommonFields.checksum_crc32c[1]

(* Mutation: the checksum covers what follows the common header. *)
ComputeBodyChecksum(page) == Crc32c(Subspan(page, CommonSize, PageSize - CommonSize))

WithoutChecksum(page) == Overwrite(page, ChecksumOffset, Zeroes(WordSize))

ComputePageChecksum(page) == Crc32c(WithoutChecksum(page))

(* Mutation: the stale checksum of the resident page goes into the new one. *)
FinalizeWithStaleChecksum(page) ==
    Overwrite(page, ChecksumOffset, EncodeLittleEndian(Crc32c(page), WordSize))

FinalizePageChecksum(page) ==
    Overwrite(page, ChecksumOffset, EncodeLittleEndian(ComputePageChecksum(page), WordSize))

VerifyPageChecksum(page) ==
    DecodeLittleEndian(Subspan(page, ChecksumOffset, WordSize)) = ComputePageChecksum(page)

(* What the pool asks of a page it has read, before it asks the validator of its owner. *)
ValidateLoadedPage(no, page) ==
    VerifyPageChecksum(page) /\ DecodeCommonPageHeader(page).page_no = no

-----------------------------------------------------------------------------
(* The superblock. *)

MagicOffset == CommonSize

SuperblockFields ==
    LET kind == MagicOffset + 2 * WordSize IN
    [file_kind |-> <<kind, HalfSize>>, reserved16 |-> <<kind + HalfSize, HalfSize>>,
     page_size |-> <<kind + 2 * HalfSize, WordSize>>,
     file_id |-> <<kind + 2 * HalfSize + WordSize, WordSize>>,
     reserved32 |-> <<kind + 2 * HalfSize + 2 * WordSize, WordSize>>,
     object_id |-> <<kind + 2 * HalfSize + 3 * WordSize, 2 * WordSize>>,
     creation_epoch |-> <<kind + 2 * HalfSize + 5 * WordSize, 2 * WordSize>>]

SuperblockSize == MagicOffset + 9 * WordSize + 2 * HalfSize

(* HEAP, FSM and CATALOG; 2 is BTREE, which this codec leaves to another. *)
IsSupportedGenericFileKind(kind) == kind \in {1, 3, 4}

(* EncodeFileSuperblock of a supported kind. *)
EncodeFileSuperblock(sb) ==
    LET common == CommonPageHeader(SUPERBLOCK, sb.page_lsn, SuperblockSize, 0)
        fields == [file_kind |-> sb.file_kind, reserved16 |-> 0, page_size |-> PageSize,
                   file_id |-> sb.file_id, reserved32 |-> 0, object_id |-> sb.object_id,
                   creation_epoch |-> sb.creation_epoch]
    IN FinalizePageChecksum(EncodeFields(SuperblockFields, fields,
                                         Overwrite(InitializePage(common), MagicOffset, Magic)))

(* Mutation: the zeroes after the superblock are not checked. *)
IgnoreTrailing(page) == TRUE

TrailingReservedIsZero(page) ==
    Subspan(page, SuperblockSize, PageSize - SuperblockSize) = Zeroes(PageSize - SuperblockSize)

(* DecodeFileSuperblock succeeds, and with what. *)
SuperblockDecodes(page) ==
    LET common == DecodeCommonPageHeader(page)
        fields == DecodeFields(SuperblockFields, page)
    IN /\ VerifyPageChecksum(page)
       /\ common = [CommonPageHeader(SUPERBLOCK, common.page_lsn, SuperblockSize, 0)
                      EXCEPT !.checksum_crc32c = common.checksum_crc32c]
       /\ Subspan(page, MagicOffset, Len(Magic)) = Magic
       /\ IsSupportedGenericFileKind(fields.file_kind)
       /\ fields.page_size = PageSize
       /\ fields.reserved16 = 0 /\ fields.reserved32 = 0
       /\ TrailingReservedIsZero(page)

DecodeFileSuperblock(page) ==
    LET fields == DecodeFields(SuperblockFields, page) IN
    [owner |-> "FILE", page_lsn |-> DecodeCommonPageHeader(page).page_lsn,
     file_kind |-> fields.file_kind, file_id |-> fields.file_id,
     object_id |-> fields.object_id, creation_epoch |-> fields.creation_epoch]

-----------------------------------------------------------------------------
(* Heap pages: the header and the slot directory. *)

HeapFields ==
    [slot_count |-> <<CommonSize, HalfSize>>, free_slot_head |-> <<CommonSize + HalfSize, HalfSize>>,
     lower |-> <<CommonSize + 2 * HalfSize, HalfSize>>,
     upper |-> <<CommonSize + 3 * HalfSize, HalfSize>>,
     prune_hint |-> <<CommonSize + 4 * HalfSize, WordSize>>,
     reserved |-> <<CommonSize + 4 * HalfSize + WordSize, WordSize>>]

HeapHeaderSize == CommonSize + 4 * HalfSize + 2 * WordSize

SlotSize == 4 * HalfSize

SlotFields(s) ==
    LET start == HeapHeaderSize + s * SlotSize IN
    [tuple_offset |-> <<start, HalfSize>>, tuple_length |-> <<start + HalfSize, HalfSize>>,
     state |-> <<start + 2 * HalfSize, HalfSize>>, aux |-> <<start + 3 * HalfSize, HalfSize>>]

(* The directory as one table, of the fields of all slots. *)
DirectoryFields(slots) ==
    [e \in slots \X DOMAIN SlotFields(0) |-> SlotFields(e[1])[e[2]]]

(* UNUSED, NORMAL, DEAD, REDIRECT_RESERVED *)
IsValidHeapSlotState(state) == state \in 0..3

(* A heap page with a header and slots that its owner has encoded. *)
HeapPageBytes(no, heap) ==
    LET common == CommonPageHeader(HEAP_DATA, heap.page_lsn, HeapHeaderSize, no)
        entries == DirectoryFields(DOMAIN heap.slots)
    IN EncodeFields(entries, [e \in DOMAIN entries |-> heap.slots[e[1]][e[2]]],
                    EncodeFields(HeapFields, heap.header, InitializePage(common)))

DecodeHeapPageHeader(page) == DecodeFields(HeapFields, page)

ValidateCommonHeader(page, no) ==
    LET common == DecodeCommonPageHeader(page) IN
    /\ common = [CommonPageHeader(HEAP_DATA, common.page_lsn, HeapHeaderSize, no)
                   EXCEPT !.checksum_crc32c = common.checksum_crc32c]
    /\ no \notin {0, INVALID_PAGE_NO}

(* The other bounds follow from these. *)
ValidateHeapHeaderGeometry(header) ==
    /\ header.reserved = 0
    /\ header.upper =< PageSize
    /\ header.lower =< header.upper
    /\ header.lower = HeapHeaderSize + header.slot_count * SlotSize

DecodeSlotDirectory(page) ==
    [s \in 0..(DecodeHeapPageHeader(page).slot_count - 1) |-> DecodeFields(SlotFields(s), page)]

(* The part of the heap validator that reads fields; what it then asks of their values is     *)
(* the subject of HeapPage.                                                                   *)
HeapHeaderValid(no, page) ==
    /\ ValidateCommonHeader(page, no)
    /\ ValidateHeapHeaderGeometry(DecodeHeapPageHeader(page))
    /\ \A s \in DOMAIN DecodeSlotDirectory(page) :
          IsValidHeapSlotState(DecodeSlotDirectory(page)[s].state)

DecodeHeap(page) ==
    [owner |-> "HEAP", page_lsn |-> DecodeCommonPageHeader(page).page_lsn,
     header |-> DecodeHeapPageHeader(page), slots |-> DecodeSlotDirectory(page)]

-----------------------------------------------------------------------------
(* FSM pages. *)

FsmFields ==
    [first_heap_page_no |-> <<CommonSize, 2 * WordSize>>,
     entry_count |-> <<CommonSize + 2 * WordSize, HalfSize>>,
     reserved16 |-> <<CommonSize + 2 * WordSize + HalfSize, HalfSize>>,
     reserved32 |-> <<CommonSize + 2 * WordSize + 2 * HalfSize, WordSize>>]

FsmHeaderSize == CommonSize + 3 * WordSize + 2 * HalfSize

Capacity == PageSize - FsmHeaderSize

(* INVALID_PAGE_NO stands for the result false. *)
FirstHeapPageForFsmPage(no) ==
    IF no \in {0, INVALID_PAGE_NO} \/ no - 1 > (INVALID_PAGE_NO - 1) \div Capacity
    THEN INVALID_PAGE_NO
    ELSE 1 + (no - 1) * Capacity

InitializedRangeFits(first, count) ==
    count = 0 \/ first =< (INVALID_PAGE_NO - 1) - (count - 1)

(* Initialize(entry_count) and SetCategory of the entries. *)
FsmPageBytes(no, fsm) ==
    LET common == CommonPageHeader(FSM_DATA, fsm.page_lsn, FsmHeaderSize, no)
        header == [first_heap_page_no |-> FirstHeapPageForFsmPage(no),
                   entry_count |-> Len(fsm.entries), reserved16 |-> 0, reserved32 |-> 0]
    IN Overwrite(EncodeFields(FsmFields, header, InitializePage(common)), FsmHeaderSize, fsm.entries)

DecodeFsmPageHeader(page) == DecodeFields(FsmFields, page)

FsmPageValid(no, page) ==
    LET common == DecodeCommonPageHeader(page)
        header == DecodeFsmPageHeader(page)
        unused == Subspan(page, FsmHeaderSize + header.entry_count, Capacity - header.entry_count)
    IN /\ common = [CommonPageHeader(FSM_DATA, common.page_lsn, FsmHeaderSize, no)
                      EXCEPT !.checksum_crc32c = common.checksum_crc32c]
       /\ header.reserved16 = 0 /\ header.reserved32 = 0
       /\ FirstHeapPageForFsmPage(no) # INVALID_PAGE_NO
       /\ header.first_heap_page_no = FirstHeapPageForFsmPage(no)
       /\ header.entry_count =< Capacity
       /\ InitializedRangeFits(header.first_heap_page_no, header.entry_count)
       /\ unused = Zeroes(Len(unused))

DecodeFsm(page) ==
    [owner |-> "FSM", page_lsn |-> DecodeCommonPageHeader(page).page_lsn,
     entries |-> Subspan(page, FsmHeaderSize, DecodeFsmPageHeader(page).entry_count)]

-----------------------------------------------------------------------------
(* A page has room for every header, an FSM page for at least one entry. *)
ASSUME GeometryAssumption ==
    SuperblockSize =< PageSize /\ HeapHeaderSize =< PageSize /\ FsmHeaderSize < PageSize

(* What the owners give to their pages: fields of the widths they are stored with, a heap     *)
(* header that fits its slots, the categories of an FSM page.                                *)
IsHeapContent(c) ==
    /\ c \in [owner : {"HEAP"}, page_lsn : 0..MaxOf(2 * WordSize),
              header : [slot_count : 0..MaxOf(HalfSize), free_slot_head : 0..MaxOf(HalfSize),
                        lower : 0..MaxOf(HalfSize), upper : 0..MaxOf(HalfSize),
                        prune_hint : 0..MaxOf(WordSize), reserved : {0}],
              slots : [0..(c.header.slot_count - 1) ->
                          [tuple_offset : 0..MaxOf(HalfSize), tuple_length : 0..MaxOf(HalfSize),
                           state : 0..3, aux : 0..MaxOf(HalfSize)]]]
    /\ ValidateHeapHeaderGeometry(c.header)

IsFileContent(c) ==
    c \in [owner : {"FILE"}, page_lsn : 0..MaxOf(2 * WordSize), file_kind : 0..MaxOf(HalfSize),
          file_id : 0..MaxOf(WordSize), object_id : 0..MaxOf(2 * WordSize),
          creation_epoch : 0..MaxOf(2 * WordSize)]

IsFsmContent(c) ==
    c \in [owner : {"FSM"}, page_lsn : 0..MaxOf(2 * WordSize), entries : Seq(Byte)]

ASSUME ContentsAssumption ==
    \A c \in Contents : CASE c.owner = "FILE" -> IsFileContent(c)
                         [] c.owner = "HEAP" -> IsHeapContent(c)
                         [] c.owner = "FSM" -> IsFsmContent(c)
                         [] OTHER -> FALSE

-----------------------------------------------------------------------------
(* Writing and reading the place. *)

(* The encoder, or Initialize, makes this page under this number. *)
Owns(c, no) ==
    CASE c.owner = "FILE" -> no = 0 /\ IsSupportedGenericFileKind(c.file_kind)
      [] c.owner = "HEAP" -> no \notin {0, INVALID_PAGE_NO}
      [] c.owner = "FSM" -> /\ FirstHeapPageForFsmPage(no) # INVALID_PAGE_NO
                            /\ Len(c.entries) =< Capacity
                            /\ InitializedRangeFits(FirstHeapPageForFsmPage(no), Len(c.entries))

(* The bytes in the frame when they are copied to be written; the checksum among them is the *)
(* one the page was read with, or zero on a page that was never written.                     *)
Resident(no, c, checksum) ==
    Overwrite(IF c.owner = "HEAP" THEN HeapPageBytes(no, c) ELSE FsmPageBytes(no, c),
              ChecksumOffset, checksum)

Written(no, c, checksum) ==
    IF c.owner = "FILE" THEN EncodeFileSuperblock(c)
    ELSE FinalizePageChecksum(Resident(no, c, checksum))

ImageInit ==
    location = 0 /\ image = << >> /\ sent = << >> /\ content = << >> /\ lapse = "none"

(* The file is extended: the new page reads as zeroes. *)
Extend(no) ==
    /\ image = << >>
    /\ location' = no /\ image' = Zeroes(PageSize)
    /\ UNCHANGED <<sent, content, lapse>>

(* The page is written where it belongs, new or changed since it was read. *)
Store(c) ==
    /\ image # << >> /\ lapse = "none"
    /\ Owns(c, location)
    /\ image' = Written(location, c, Subspan(image, ChecksumOffset, WordSize))
    /\ sent' = image' /\ content' = c
    /\ UNCHANGED <<location, lapse>>

(* A writer that is not this code, or a stray store into the frame, leaves a byte that is    *)
(* then covered by the checksum.                                                             *)
StoreAltered(k, byte) ==
    /\ sent # << >> /\ lapse = "none"
    /\ image[k] # byte
    /\ image' = FinalizePageChecksum([image EXCEPT ![k] = byte])
    /\ sent' = image' /\ lapse' = "writer"
    /\ UNCHANGED <<location, content>>

(* A page of another place is written here. *)
Misdirect(no, c) ==
    /\ image # << >> /\ lapse = "none"
    /\ no # location /\ Owns(c, no)
    /\ image' = Written(no, c, Zeroes(WordSize))
    /\ lapse' = "media"
    /\ UNCHANGED <<location, sent, content>>

(* Bits within one word of a stored page change on the medium, in the checksum or outside    *)
(* of it.                                                                                    *)
Decay(offset, bits) ==
    /\ sent # << >> /\ lapse = "none"
    /\ image' = Overwrite(image, offset,
                          EncodeLittleEndian(Xor(DecodeLittleEndian(Subspan(image, offset, WordSize)),
                                                 bits), WordSize))
    /\ lapse' = "media"
    /\ UNCHANGED <<location, sent, content>>

(* Where such a word may start. *)
WordOffsets ==
    {k \in 0..(PageSize - WordSize) :
        k = ChecksumOffset \/ k + WordSize =< ChecksumOffset \/ k >= ChecksumOffset + WordSize}

ImageNext ==
    \/ \E no \in Locations : Extend(no)
    \/ \E c \in Contents : Store(c)
    \/ \E k \in 1..PageSize, byte \in StrayBytes : StoreAltered(k, byte)
    \/ \E no \in Locations, c \in Contents : Misdirect(no, c)
    \/ \E offset \in WordOffsets, bits \in 1..MaxOf(WordSize) : Decay(offset, bits)

ImageSpec == ImageInit /\ [][ImageNext]_imageVars

-----------------------------------------------------------------------------
(* A page that was stored and not touched since is read by the owner who stored it, and by   *)
(* no other, with the contents it was given: page number, LSN, header fields, slots and      *)
(* entries, whatever checksum the frame carried when it was copied.                          *)
StoredIsReadBack ==
    sent # << >> /\ lapse = "none" =>
       /\ ValidateLoadedPage(location, image)
       /\ SuperblockDecodes(image) <=> content.owner = "FILE"
       /\ HeapHeaderValid(location, image) <=> content.owner = "HEAP"
       /\ FsmPageValid(location, image) <=> content.owner = "FSM"
       /\ content = CASE content.owner = "FILE" -> DecodeFileSuperblock(image)
                      [] content.owner = "HEAP" -> DecodeHeap(image)
                      [] content.owner = "FSM" -> DecodeFsm(image)

(* What the pool lets a validator see is what was last written for that page: not the zeroes *)
(* of an extension, not the page of another place, not a page in which bits of one word, the *)
(* checksum included, have changed.                                                          *)
LoadsOnlyWhatWasStored ==
    image # << >> /\ ValidateLoadedPage(location, image) => image = sent

(* Every byte counts, even under a valid checksum: a superblock, a heap header with its slot *)
(* directory, or an FSM page that passes is the one its encoder writes for what is decoded.  *)
(* No reserved byte, unknown flag or leftover entry gets through unseen.                     *)
AcceptedIsCanonical ==
    image # << >> =>
    /\ SuperblockDecodes(image) => image = EncodeFileSuperblock(DecodeFileSuperblock(image))
    /\ HeapHeaderValid(location, image) =>
          LET lower == DecodeHeapPageHeader(image).lower IN
          Subspan(WithoutChecksum(image), 0, lower)
            = Subspan(HeapPageBytes(location, DecodeHeap(image)), 0, lower)
    /\ FsmPageValid(location, image) =>
          WithoutChecksum(image) = FsmPageBytes(location, DecodeFsm(image))
=============================================================================
