------------------------------ MODULE PageFile ------------------------------
(***************************************************************************)
(* Page files over the disk manager (src/src/storage/file/page_file.cpp,    *)
(* src/src/storage/disk/disk_manager.cpp): creation and opening one system  *)
(* call at a time, each of which may fail; appended pages handed to         *)
(* concurrent callers; and crashes of the machine between any two calls.    *)
(*                                                                          *)
(* disk_manager.h: "File registration and closure are lifecycle operations  *)
(* and must not race active I/O": one lifecycle call runs at a time, and    *)
(* never beside an allocation.                                              *)
(***************************************************************************)
EXTENDS Integers, Sequences, FiniteSets

CONSTANTS
    Paths, FileIds,
    Kinds,          \* recognised file kinds
    Unsupported,    \* the recognised kinds the generic superblock codec rejects (BTREE)
    ObjectIds,
    Objects,        \* PageFile variables of the caller
    Threads,        \* callers of AllocatePage
    MaxPages,       \* bound on the pages of a file
    None

FileSuperblock == [file_id : FileIds, file_kind : Kinds, object_id : ObjectIds]

ASSUME PageFileAssumption ==
    MaxPages \in Nat \ {0} /\ None \notin Paths \cup Threads \cup FileSuperblock

VARIABLES
    fs,         \* per path: the file's length and page 0, as read now and as on the disk
    files,      \* DiskManager::files_: the path registered under a FileId
    handle,     \* per PageFile variable: the superblock it manages, or None if it is not open
    op,         \* the lifecycle call in progress
    alloc,      \* per thread: where it is inside ExtendFile
    mutex,      \* extension_mutex_
    promised,   \* per path: the superblock a successful Create or writeback made durable
    granted     \* per FileId: the page numbers AllocatePage returned, in order

fileVars == <<fs, files, handle, op, alloc, mutex, promised, granted>>

(* What page 0 may hold: zeroes (or nothing), a superblock, or part of one. *)
PageZero == [intact : BOOLEAN, sb : FileSuperblock \cup {None}]
Blank == [intact |-> FALSE, sb |-> None]
Whole(sb) == [intact |-> TRUE, sb |-> sb]
Torn(page0) == [intact |-> FALSE, sb |-> page0.sb]

File == [exists : BOOLEAN, pages : 0..MaxPages, page0 : PageZero,
         stable_pages : 0..MaxPages, stable0 : PageZero]

NoFile == [exists |-> FALSE, pages |-> 0, page0 |-> Blank, stable_pages |-> 0, stable0 |-> Blank]

Idle == [at |-> "IDLE"]
Ready == [at |-> "READY"]

TypeOK ==
    /\ fs \in [Paths -> File]
    /\ files \in [FileIds -> Paths \cup {None}]
    /\ handle \in [Objects -> FileSuperblock \cup {None}]
    /\ op.at \in {"IDLE", "COUNT", "EXTEND", "WRITE", "SYNC", "OPEN_COUNT", "READ"}
    /\ \A t \in Threads : alloc[t].at \in {"READY", "LOCK", "COUNT", "TRUNCATE"}
    /\ mutex \in Threads \cup {None}
    /\ promised \in [Paths -> FileSuperblock \cup {None}]
    /\ granted \in [FileIds -> Seq(0..MaxPages)]

Init ==
    /\ fs = [p \in Paths |-> NoFile]
    /\ files = [f \in FileIds |-> None]
    /\ handle = [o \in Objects |-> None]
    /\ op = Idle
    /\ alloc = [t \in Threads |-> Ready]
    /\ mutex = None
    /\ promised = [p \in Paths |-> None]
    /\ granted = [f \in FileIds |-> << >>]

Quiet == op = Idle /\ \A t \in Threads : alloc[t] = Ready

-----------------------------------------------------------------------------
(* PageFile::Create *)

(* DiskManager::CreateFile: a duplicate FileId or an existing path fails and changes nothing. *)
CreateFile(o, path, sb) ==
    /\ Quiet /\ handle[o] = None
    /\ files[sb.file_id] = None
    /\ ~fs[path].exists
    /\ fs' = [fs EXCEPT ![path] = [NoFile EXCEPT !.exists = TRUE]]
    /\ files' = [files EXCEPT ![sb.file_id] = path]
    /\ op' = [at |-> "COUNT", into |-> o, path |-> path, sb |-> sb]
    /\ granted' = [granted EXCEPT ![sb.file_id] = << >>]
    /\ UNCHANGED <<handle, alloc, mutex, promised>>

(* Mutation: the failure is returned while the FileId stays registered. *)
CleanupNothing(f) == UNCHANGED files

(* CleanupRegistration *)
CleanupRegistration(f) == files' = [files EXCEPT ![f] = None]

(* The call in progress fails: its registration is closed, its file stays where it is. *)
Fails ==
    /\ op # Idle
    /\ CleanupRegistration(op.sb.file_id)
    /\ op' = Idle
    /\ UNCHANGED <<fs, handle, alloc, mutex, promised, granted>>

CreateCounts ==
    /\ op.at = "COUNT"
    /\ fs[op.path].pages = 0
    /\ op' = [op EXCEPT !.at = "EXTEND"]
    /\ UNCHANGED <<fs, files, handle, alloc, mutex, promised, granted>>

(* ExtendFile, with no other caller, and the superblock is encoded. *)
CreateExtends ==
    /\ op.at = "EXTEND"
    /\ fs' = [fs EXCEPT ![op.path].pages = 1]
    /\ IF op.sb.file_kind \in Unsupported
       THEN CleanupRegistration(op.sb.file_id) /\ op' = Idle
       ELSE op' = [op EXCEPT !.at = "WRITE"] /\ UNCHANGED files
    /\ UNCHANGED <<handle, alloc, mutex, promised, granted>>

(* WritePage: all of the page, or a part and then an error. *)
CreateWrites ==
    /\ op.at = "WRITE"
    /\ \/ fs' = [fs EXCEPT ![op.path].page0 = Whole(op.sb)]
          /\ op' = [op EXCEPT !.at = "SYNC"]
          /\ UNCHANGED files
       \/ fs' = [fs EXCEPT ![op.path].page0 = Torn(Whole(op.sb))]
          /\ op' = Idle
          /\ CleanupRegistration(op.sb.file_id)
    /\ UNCHANGED <<handle, alloc, mutex, promised, granted>>

(* Mutation: fdatasync is left out. *)
SyncFileNot(path) == UNCHANGED fs

(* SyncFile: fdatasync makes the bytes and the length of the file stable. *)
SyncFile(path) ==
    fs' = [fs EXCEPT ![path].stable_pages = fs[path].pages, ![path].stable0 = fs[path].page0]

CreateSyncs ==
    /\ op.at = "SYNC"
    /\ SyncFile(op.path)
    /\ handle' = [handle EXCEPT ![op.into] = op.sb]
    /\ promised' = [promised EXCEPT ![op.path] = op.sb]
    /\ op' = Idle
    /\ UNCHANGED <<files, alloc, mutex, granted>>

-----------------------------------------------------------------------------
(* PageFile::Open *)

(* DiskManager::OpenFile under the FileId the caller expects; sb.object_id may be None, for  *)
(* a caller that does not say which object it expects.                                      *)
OpenFile(o, path, sb) ==
    /\ Quiet /\ handle[o] = None
    /\ files[sb.file_id] = None
    /\ fs[path].exists
    /\ files' = [files EXCEPT ![sb.file_id] = path]
    /\ op' = [at |-> "OPEN_COUNT", into |-> o, path |-> path, sb |-> sb]
    /\ granted' = [granted EXCEPT ![sb.file_id] = << >>]
    /\ UNCHANGED <<fs, handle, alloc, mutex, promised>>

OpenCounts ==
    /\ op.at = "OPEN_COUNT"
    /\ fs[op.path].pages # 0
    /\ op' = [op EXCEPT !.at = "READ"]
    /\ UNCHANGED <<fs, files, handle, alloc, mutex, promised, granted>>

(* The identity checks of Open. *)
Matches(found, expected) ==
    /\ found.file_id = expected.file_id
    /\ found.file_kind = expected.file_kind
    /\ expected.object_id = None \/ found.object_id = expected.object_id

(* Mutation: part of a superblock decodes, as if the checksum were not compared. *)
DecodesUnchecked(page0) == page0.sb # None

(* DecodeFileSuperblock: only a whole superblock of a supported kind has the checksum. *)
Decodes(page0) == page0.intact /\ page0.sb.file_kind \notin Unsupported

(* The superblock is read, decoded and compared; a mismatch fails. *)
OpenReads ==
    LET page0 == fs[op.path].page0 IN
    /\ op.at = "READ"
    /\ Decodes(page0)
    /\ Matches(page0.sb, op.sb)
    /\ handle' = [handle EXCEPT ![op.into] = page0.sb]
    /\ op' = Idle
    /\ UNCHANGED <<fs, files, alloc, mutex, promised, granted>>

-----------------------------------------------------------------------------
(* Release: the destructor of an open PageFile. *)
Destroy(o) ==
    /\ Quiet
    /\ handle[o] # None
    /\ files' = [files EXCEPT ![handle[o].file_id] = None]
    /\ handle' = [handle EXCEPT ![o] = None]
    /\ UNCHANGED <<fs, op, alloc, mutex, promised, granted>>

(* Move assignment releases the target and leaves the source empty. *)
MoveAssign(o, other) ==
    /\ Quiet /\ o # other
    /\ files' = IF handle[o] = None THEN files
                ELSE [files EXCEPT ![handle[o].file_id] = None]
    /\ handle' = [handle EXCEPT ![o] = handle[other], ![other] = None]
    /\ UNCHANGED <<fs, op, alloc, mutex, promised, granted>>

-----------------------------------------------------------------------------
(* AllocatePage, by any thread on any open PageFile: ExtendFile under extension_mutex_. *)

AllocatePage(t, o) ==
    /\ op = Idle /\ alloc[t] = Ready
    /\ handle[o] # None
    /\ alloc' = [alloc EXCEPT ![t] = [at |-> "LOCK", file_id |-> handle[o].file_id]]
    /\ UNCHANGED <<fs, files, handle, op, mutex, promised, granted>>

(* Mutation: the extension is not serialised. *)
LocksNothing(t) ==
    /\ alloc[t].at = "LOCK"
    /\ alloc' = [alloc EXCEPT ![t].at = "COUNT"]
    /\ UNCHANGED <<fs, files, handle, op, mutex, promised, granted>>

LocksExtension(t) ==
    /\ alloc[t].at = "LOCK"
    /\ mutex = None
    /\ mutex' = t
    /\ alloc' = [alloc EXCEPT ![t].at = "COUNT"]
    /\ UNCHANGED <<fs, files, handle, op, promised, granted>>

Unlocked(t) == IF mutex = t THEN None ELSE mutex

CountsPages(t) ==
    LET f == alloc[t].file_id IN
    /\ alloc[t].at = "COUNT"
    /\ alloc' = [alloc EXCEPT ![t] = [at |-> "TRUNCATE", file_id |-> f,
                                      count |-> fs[files[f]].pages]]
    /\ UNCHANGED <<fs, files, handle, op, mutex, promised, granted>>

(* ftruncate to one page more than was counted, and the number of the new page is returned. *)
Truncates(t) ==
    LET f == alloc[t].file_id IN
    /\ alloc[t].at = "TRUNCATE" /\ alloc[t].count < MaxPages
    /\ fs' = [fs EXCEPT ![files[f]].pages = alloc[t].count + 1]
    /\ granted' = IF alloc[t].count = 0 THEN granted
                  ELSE [granted EXCEPT ![f] = Append(@, alloc[t].count)]
    /\ alloc' = [alloc EXCEPT ![t] = Ready]
    /\ mutex' = Unlocked(t)
    /\ UNCHANGED <<files, handle, op, promised>>

(* fstat or ftruncate fails, or the new length is beyond the bound. *)
AllocateFails(t) ==
    /\ alloc[t].at \in {"COUNT", "TRUNCATE"}
    /\ alloc' = [alloc EXCEPT ![t] = Ready]
    /\ mutex' = Unlocked(t)
    /\ UNCHANGED <<fs, files, handle, op, promised, granted>>

-----------------------------------------------------------------------------
(* A data page of an open file is written and synced by the buffer pool: its fdatasync makes *)
(* the whole file stable. A writeback that fails promises nothing.                           *)
WriteStableImage(o) ==
    LET path == files[handle[o].file_id] IN
    /\ op = Idle
    /\ handle[o] # None
    /\ fs[path].pages > 1
    /\ SyncFile(path)
    /\ promised' = [promised EXCEPT ![path] = handle[o]]
    /\ UNCHANGED <<files, handle, op, alloc, mutex, granted>>

-----------------------------------------------------------------------------
(* What a file may look like after a crash: length and page 0 are each the stable ones or    *)
(* what was written since, and a page that was being replaced may be torn. The directory    *)
(* entry survives: making it durable is the duty of the namespace owner, not of PageFile.   *)
Survivors(file) ==
    LET after(n, p0) == [exists |-> file.exists, pages |-> n, page0 |-> p0,
                         stable_pages |-> n, stable0 |-> p0]
    IN {after(n, IF n = 0 THEN Blank ELSE p0) :
          n \in {file.pages, file.stable_pages},
          p0 \in {file.page0, file.stable0}
                 \cup (IF file.page0 = file.stable0 THEN {} ELSE {Torn(file.page0)})}

(* The machine stops: the process loses everything, the files what was not made stable. *)
Crash ==
    /\ fs' \in {g \in [Paths -> UNION {Survivors(fs[p]) : p \in Paths}] :
                  \A p \in Paths : g[p] \in Survivors(fs[p])}
    /\ files' = [f \in FileIds |-> None]
    /\ handle' = [o \in Objects |-> None]
    /\ op' = Idle
    /\ alloc' = [t \in Threads |-> Ready]
    /\ mutex' = None
    /\ granted' = [f \in FileIds |-> << >>]
    /\ UNCHANGED promised

Expected == [file_id : FileIds, file_kind : Kinds, object_id : ObjectIds \cup {None}]

Next ==
    \/ \E o \in Objects, path \in Paths, sb \in FileSuperblock : CreateFile(o, path, sb)
    \/ CreateCounts \/ CreateExtends \/ CreateWrites \/ CreateSyncs
    \/ \E o \in Objects, path \in Paths, sb \in Expected : OpenFile(o, path, sb)
    \/ OpenCounts \/ OpenReads
    \/ Fails
    \/ \E o \in Objects : Destroy(o)
    \/ \E o, other \in Objects : MoveAssign(o, other)
    \/ \E t \in Threads, o \in Objects : AllocatePage(t, o)
    \/ \E t \in Threads :
          LocksExtension(t) \/ CountsPages(t) \/ Truncates(t) \/ AllocateFails(t)
    \/ \E o \in Objects : WriteStableImage(o)
    \/ Crash

Spec == Init /\ [][Next]_fileVars

-----------------------------------------------------------------------------
(* Between lifecycle calls every registration of the disk manager belongs to exactly one     *)
(* open PageFile, whatever call failed halfway, moved or was destroyed: no descriptor leaks  *)
(* and no open PageFile has lost its registration.                                          *)
RegistrationsOwned ==
    op = Idle =>
       \A f \in FileIds :
          Cardinality({o \in Objects : handle[o] # None /\ handle[o].file_id = f})
             = IF files[f] = None THEN 0 ELSE 1

(* An open PageFile carries the superblock of the file it is registered for: a torn or zero  *)
(* page 0, left by a Create that failed or by a crash, never becomes an open PageFile. With   *)
(* RegistrationsOwned, no two open PageFiles manage one path, which the disk manager itself   *)
(* does not exclude.                                                                        *)
OpenIsGenuine ==
    \A o \in Objects : handle[o] # None => fs[files[handle[o].file_id]].page0 = Whole(handle[o])

(* Once Create has returned, or a page of an open file has been written back, the length and *)
(* the superblock of the file are on the disk, and survive every later crash, Open,          *)
(* allocation and close: also if Create failed in fdatasync and the file was opened all the  *)
(* same, with a superblock that was only in the page cache.                                  *)
PromisedIsDurable ==
    \A p \in Paths : promised[p] # None =>
       fs[p].page0 = Whole(promised[p]) /\ fs[p].stable0 = Whole(promised[p]) /\ fs[p].stable_pages >= 1

(* PROJECT_STATE.md: "concurrent extension callers receive unique, contiguous page numbers", *)
(* and never page 0: the numbers one registration hands out are consecutive.                 *)
AllocationsUniqueContiguous ==
    \A f \in FileIds : \A i \in DOMAIN granted[f] :
       granted[f][i] = granted[f][1] + i - 1 /\ granted[f][i] # 0
=============================================================================
