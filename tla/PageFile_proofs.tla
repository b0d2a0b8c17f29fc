--------------------------- MODULE PageFile_proofs ---------------------------
(***************************************************************************)
(* Theorems about page files, for every set of paths, file ids, PageFile    *)
(* variables and allocating threads: who owns a registration, what an open  *)
(* PageFile manages, what survives a crash, and which page numbers          *)
(* concurrent allocations receive.                                          *)
(***************************************************************************)
EXTENDS PageFile, FiniteSetTheorems, SequenceTheorems, TLAPS

CreateOp == [at : {"COUNT", "EXTEND", "WRITE", "SYNC"},
             into : Objects, path : Paths, sb : FileSuperblock]
OpenOp == [at : {"OPEN_COUNT", "READ"}, into : Objects, path : Paths, sb : Expected]

Locking == [at : {"LOCK", "COUNT"}, file_id : FileIds]
Truncating == [at : {"TRUNCATE"}, file_id : FileIds, count : 0..MaxPages]

(* The types, with the shape of the calls in progress; only a superblock is intact. *)
FileTypes ==
    /\ fs \in [Paths -> File]
    /\ \A p \in Paths : /\ fs[p].page0.intact => fs[p].page0.sb \in FileSuperblock
                        /\ fs[p].stable0.intact => fs[p].stable0.sb \in FileSuperblock
    /\ files \in [FileIds -> Paths \cup {None}]
    /\ handle \in [Objects -> FileSuperblock \cup {None}]
    /\ op \in {Idle} \cup CreateOp \cup OpenOp
    /\ alloc \in [Threads -> {Ready} \cup Locking \cup Truncating]
    /\ mutex \in Threads \cup {None}
    /\ promised \in [Paths -> FileSuperblock \cup {None}]
    /\ granted \in [FileIds -> Seq(0..MaxPages)]

Opened(o, f) == handle[o] # None /\ handle[o].file_id = f

(* A FileId is registered exactly when one PageFile holds it or the call in progress does. *)
Registered ==
    /\ \A o \in Objects : handle[o] # None => files[handle[o].file_id] # None
    /\ \A f \in FileIds : files[f] # None =>
          (\E o \in Objects : Opened(o, f)) \/ (op # Idle /\ op.sb.file_id = f)
    /\ \A o1, o2 \in Objects, f \in FileIds : Opened(o1, f) /\ Opened(o2, f) => o1 = o2

(* A lifecycle call is alone, on a FileId no PageFile holds yet. *)
CallAlone ==
    op # Idle =>
       /\ files[op.sb.file_id] = op.path
       /\ handle[op.into] = None
       /\ granted[op.sb.file_id] = << >>
       /\ \A o \in Objects : ~Opened(o, op.sb.file_id)
       /\ \A t \in Threads : alloc[t] = Ready

(* Page 0 while Create is under way: blank until it is written. *)
CreateProgress ==
    /\ op.at \in {"COUNT", "EXTEND", "WRITE", "SYNC"} => fs[op.path].exists
    /\ op.at \in {"COUNT", "EXTEND", "WRITE"} => fs[op.path].page0 = Blank
    /\ op.at \in {"WRITE", "SYNC"} => fs[op.path].pages >= 1
    /\ op.at = "SYNC" => fs[op.path].page0 = Whole(op.sb)

(* A path without a file holds nothing, and a page 0 with something in it is in the file. *)
FilesSane ==
    \A p \in Paths : /\ ~fs[p].exists => fs[p].page0 = Blank /\ fs[p].stable0 = Blank
                     /\ fs[p].page0 # Blank => fs[p].pages >= 1

(* An allocation works on an open file; past the lock it holds the mutex, and the count it   *)
(* read is still the length of the file.                                                    *)
AllocationsHold ==
    \A t \in Threads :
       /\ alloc[t] # Ready => \E o \in Objects : Opened(o, alloc[t].file_id)
       /\ alloc[t].at \in {"COUNT", "TRUNCATE"} => mutex = t
       /\ alloc[t].at = "TRUNCATE" => alloc[t].count = fs[files[alloc[t].file_id]].pages

(* The last page number handed out is the last page of the file. *)
GrantsReachEnd ==
    \A f \in FileIds : files[f] # None /\ Len(granted[f]) > 0 =>
       granted[f][Len(granted[f])] + 1 = fs[files[f]].pages

(* The inductive invariant. *)
FileInv ==
    /\ FileTypes /\ Registered /\ CallAlone /\ CreateProgress /\ FilesSane
    /\ OpenIsGenuine /\ PromisedIsDurable /\ AllocationsHold /\ GrantsReachEnd
    /\ AllocationsUniqueContiguous

(* The fields of the call in progress. *)
LEMMA OpShape ==
    ASSUME FileTypes
    PROVE  /\ op # Idle => op.into \in Objects /\ op.path \in Paths /\ op.sb.file_id \in FileIds
           /\ op.at \in {"COUNT", "EXTEND", "WRITE", "SYNC"} => op # Idle /\ op \in CreateOp
           /\ op.at \in {"OPEN_COUNT", "READ"} => op # Idle /\ op \in OpenOp
  BY DEF FileTypes, CreateOp, OpenOp, Idle, FileSuperblock, Expected

(* The fields of an allocation. *)
LEMMA AllocShape ==
    ASSUME FileTypes, NEW t \in Threads
    PROVE  /\ alloc[t] # Ready => alloc[t].file_id \in FileIds
           /\ alloc[t].at \in {"LOCK", "COUNT"} => alloc[t] # Ready /\ alloc[t] \in Locking
           /\ alloc[t].at = "TRUNCATE" => alloc[t] # Ready /\ alloc[t] \in Truncating
  BY DEF FileTypes, Locking, Truncating, Ready

(* While nothing is in progress no page 0 is under construction. *)
LEMMA IdleShape == Idle.at = "IDLE" /\ Ready.at = "READY"
  BY DEF Idle, Ready

LEMMA WholeNotBlank == \A sb : Whole(sb) # Blank
  <1>1. \A sb : Whole(sb).intact = TRUE
    BY DEF Whole
  <1>2. Blank.intact = FALSE
    BY DEF Blank
  <1> QED BY <1>1, <1>2

(* Files with one field set anew. *)
LEMMA FileFields ==
    ASSUME NEW file \in File, NEW n \in 0..MaxPages, NEW p0 \in PageZero
    PROVE  /\ [file EXCEPT !.pages = n] \in File /\ [file EXCEPT !.page0 = p0] \in File
           /\ [file EXCEPT !.pages = n].pages = n /\ [file EXCEPT !.page0 = p0].page0 = p0
           /\ [file EXCEPT !.pages = n].page0 = file.page0
           /\ [file EXCEPT !.page0 = p0].pages = file.pages
           /\ \A g \in {[file EXCEPT !.pages = n], [file EXCEPT !.page0 = p0]} :
                 g.exists = file.exists /\ g.stable_pages = file.stable_pages /\ g.stable0 = file.stable0
  BY DEF File

LEMMA SyncedFields ==
    ASSUME NEW file \in File
    PROVE  LET g == [file EXCEPT !.stable_pages = file.pages, !.stable0 = file.page0]
           IN  /\ g \in File /\ g.stable_pages = file.pages /\ g.stable0 = file.page0
               /\ g.exists = file.exists /\ g.pages = file.pages /\ g.page0 = file.page0
  BY DEF File

(* SyncFile changes the stable copy of one file only, to what is in that file now. *)
LEMMA SyncFileEffect ==
    ASSUME FileTypes, NEW path \in Paths, SyncFile(path)
    PROVE  /\ fs' \in [Paths -> File]
           /\ \A p \in Paths : /\ fs'[p].exists = fs[p].exists /\ fs'[p].pages = fs[p].pages
                               /\ fs'[p].page0 = fs[p].page0
           /\ fs'[path].stable_pages = fs[path].pages /\ fs'[path].stable0 = fs[path].page0
           /\ \A p \in Paths \ {path} : fs'[p] = fs[p]
  <1> DEFINE g == [fs[path] EXCEPT !.stable_pages = fs[path].pages, !.stable0 = fs[path].page0]
  <1>1. /\ g \in File /\ g.stable_pages = fs[path].pages /\ g.stable0 = fs[path].page0
        /\ g.exists = fs[path].exists /\ g.pages = fs[path].pages /\ g.page0 = fs[path].page0
    BY SyncedFields DEF FileTypes
  <1>2. fs' = [fs EXCEPT ![path] = g]
    BY DEF SyncFile, FileTypes
  <1> HIDE DEF g
  <1> QED BY <1>1, <1>2 DEF FileTypes

(* What a file may be after a crash. *)
LEMMA SurvivorShape ==
    ASSUME NEW file, NEW g \in Survivors(file)
    PROVE  \E n \in {file.pages, file.stable_pages},
              p0 \in {file.page0, file.stable0}
                     \cup (IF file.page0 = file.stable0 THEN {} ELSE {Torn(file.page0)}) :
             g = [exists |-> file.exists, pages |-> n, page0 |-> IF n = 0 THEN Blank ELSE p0,
                  stable_pages |-> n, stable0 |-> IF n = 0 THEN Blank ELSE p0]
  BY SMT DEF Survivors

LEMMA InitFileInv == Init => FileInv
  <1> SUFFICES ASSUME Init PROVE FileInv
    OBVIOUS
  <1>1. FileTypes
    <2>1. NoFile \in File
      BY PageFileAssumption DEF NoFile, File, PageZero, Blank
    <2>2. \A p \in Paths : fs[p] = NoFile
      BY DEF Init
    <2>3. << >> \in Seq(0..MaxPages)
      OBVIOUS
    <2> QED BY <2>1, <2>2, <2>3 DEF Init, FileTypes, NoFile, Blank
  <1>2. Registered /\ OpenIsGenuine /\ PromisedIsDurable
    BY PageFileAssumption DEF Init, Registered, OpenIsGenuine, PromisedIsDurable, Opened
  <1>3. CallAlone /\ CreateProgress /\ AllocationsHold
    BY IdleShape DEF Init, CallAlone, CreateProgress, AllocationsHold
  <1>4. FilesSane
    BY DEF Init, FilesSane, NoFile
  <1>5. GrantsReachEnd /\ AllocationsUniqueContiguous
    BY DEF Init, GrantsReachEnd, AllocationsUniqueContiguous
  <1> QED BY <1>1, <1>2, <1>3, <1>4, <1>5 DEF FileInv


LEMMA CreateFilePreserves ==
    ASSUME FileInv, NEW o \in Objects, NEW path \in Paths, NEW sb \in FileSuperblock,
           CreateFile(o, path, sb)
    PROVE  FileInv'
  <1>1. FileTypes'
    <2>a. NoFile \in File /\ NoFile.page0 = Blank /\ NoFile.stable0 = Blank
      BY PageFileAssumption DEF NoFile, File, PageZero, Blank
    <2>1. LET g == [NoFile EXCEPT !.exists = TRUE]
          IN  g \in File /\ g.page0 = Blank /\ g.stable0 = Blank
      BY <2>a DEF File
    <2>2. fs' \in [Paths -> File]
      BY <2>1 DEF FileInv, FileTypes, CreateFile
    <2>3. \A p \in Paths : /\ fs'[p].page0.intact => fs'[p].page0.sb \in FileSuperblock
                           /\ fs'[p].stable0.intact => fs'[p].stable0.sb \in FileSuperblock
      BY <2>1 DEF FileInv, FileTypes, CreateFile, Blank
    <2>4. op' \in CreateOp
      BY DEF CreateFile, CreateOp
    <2>5. sb.file_id \in FileIds /\ << >> \in Seq(0..MaxPages)
      BY DEF FileSuperblock
    <2> QED BY <2>2, <2>3, <2>4, <2>5 DEF FileInv, FileTypes, CreateFile
  <1>2. Registered'
    BY DEF FileInv, Registered, Opened, CreateFile, Quiet, Idle
  <1>3. CallAlone'
    BY DEF FileInv, CallAlone, Opened, Registered, CreateFile, Quiet, FileTypes, FileSuperblock
  <1>4. CreateProgress'
    BY DEF FileInv, CreateProgress, CreateFile, NoFile, FileTypes
  <1>5. FilesSane'
    BY DEF FileInv, FilesSane, CreateFile, NoFile
  <1>6. OpenIsGenuine'
    BY DEF FileInv, OpenIsGenuine, Whole, Blank, Registered, FilesSane, CreateFile
  <1>7. PromisedIsDurable'
    BY DEF FileInv, PromisedIsDurable, Whole, Blank, FilesSane, CreateFile
  <1>8. AllocationsHold'
    BY DEF AllocationsHold, CreateFile, Quiet, Ready
  <1>9. GrantsReachEnd'
    <2> SUFFICES ASSUME NEW f \in FileIds, files'[f] # None, Len(granted'[f]) > 0
                 PROVE  granted'[f][Len(granted'[f])] + 1 = fs'[files'[f]].pages
      BY DEF GrantsReachEnd
    <2>1. f # sb.file_id
      BY DEF CreateFile, FileInv, FileTypes
    <2>2. granted'[f] = granted[f] /\ files'[f] = files[f] /\ files[f] \in Paths
      BY <2>1 DEF CreateFile, FileInv, FileTypes
    <2>3. PICK o1 \in Objects : Opened(o1, f)
      BY <2>2 DEF FileInv, Registered, CreateFile, Quiet
    <2>4. fs[files[f]].page0 = Whole(handle[o1])
      BY <2>3 DEF FileInv, OpenIsGenuine, Opened
    <2>5. files[f] # path
      BY <2>4 DEF FileInv, FilesSane, CreateFile, Whole, Blank
    <2>6. fs'[files[f]] = fs[files[f]]
      BY <2>2, <2>5 DEF CreateFile, FileInv, FileTypes
    <2> QED BY <2>2, <2>6 DEF FileInv, GrantsReachEnd
  <1>10. AllocationsUniqueContiguous'
    BY DEF FileInv, AllocationsUniqueContiguous, CreateFile
  <1> QED BY <1>1, <1>2, <1>3, <1>4, <1>5, <1>6, <1>7, <1>8, <1>9, <1>10 DEF FileInv

LEMMA CreateCountsPreserves ==
    ASSUME FileInv, CreateCounts
    PROVE  FileInv'
  <1>f. FilesSane' /\ OpenIsGenuine' /\ PromisedIsDurable' /\ AllocationsHold' /\
  GrantsReachEnd' /\ AllocationsUniqueContiguous'
    BY DEF FileInv, FilesSane, OpenIsGenuine, PromisedIsDurable, AllocationsHold,
    GrantsReachEnd, AllocationsUniqueContiguous, Opened, CreateCounts
  <1>1. FileTypes'
    <2>1. op \in CreateOp /\ op' = [op EXCEPT !.at = "EXTEND"]
      BY OpShape DEF FileInv, CreateCounts
    <2>2. op' \in CreateOp
      BY <2>1 DEF CreateOp
    <2> QED BY <2>2 DEF FileInv, FileTypes, CreateCounts
  <1>2. Registered'
    BY DEF FileInv, Registered, Opened, CreateCounts, Idle
  <1>3. CallAlone'
    BY DEF FileInv, CallAlone, Opened, CreateCounts, Idle
  <1>4. CreateProgress'
    BY DEF FileInv, CreateProgress, CreateCounts
  <1> QED BY <1>f, <1>1, <1>2, <1>3, <1>4 DEF FileInv

LEMMA CreateExtendsPreserves ==
    ASSUME FileInv, CreateExtends
    PROVE  FileInv'
  <1> DEFINE f0 == op.sb.file_id
  <1>a. /\ op \in CreateOp /\ op # Idle /\ op.path \in Paths /\ f0 \in FileIds
        /\ fs' = [fs EXCEPT ![op.path] = [fs[op.path] EXCEPT !.pages = 1]]
        /\ \/ files' = [files EXCEPT ![f0] = None] /\ op' = Idle
           \/ files' = files /\ op' = [op EXCEPT !.at = "WRITE"]
        /\ UNCHANGED <<handle, alloc, mutex, promised, granted>>
    BY OpShape DEF FileInv, CreateExtends, CleanupRegistration
  <1>b. \/ op' = Idle /\ files' = [files EXCEPT ![f0] = None]
        \/ /\ op' \in CreateOp /\ op'.at = "WRITE" /\ op'.path = op.path
           /\ op'.sb = op.sb /\ op'.into = op.into /\ op' # Idle /\ files' = files
    BY <1>a DEF CreateOp, Idle
  <1>c. /\ fs[op.path].page0 = Blank /\ files[f0] = op.path /\ handle[op.into] = None
        /\ granted[f0] = << >> /\ \A o \in Objects : ~Opened(o, f0)
    BY <1>a DEF FileInv, CreateProgress, CallAlone, CreateExtends
  <1>d. /\ fs' \in [Paths -> File] /\ fs'[op.path].pages = 1
        /\ \A p \in Paths : /\ fs'[p].page0 = fs[p].page0 /\ fs'[p].stable0 = fs[p].stable0
                            /\ fs'[p].exists = fs[p].exists /\ fs'[p].stable_pages = fs[p].stable_pages
                            /\ p # op.path => fs'[p] = fs[p]
    <2> DEFINE g == [fs[op.path] EXCEPT !.pages = 1]
    <2>1. fs[op.path] \in File /\ fs[op.path].page0 \in PageZero /\ 1 \in 0..MaxPages
      BY <1>a, PageFileAssumption DEF FileInv, FileTypes, File
    <2>2. /\ g \in File /\ g.pages = 1 /\ g.page0 = fs[op.path].page0
          /\ g.exists = fs[op.path].exists /\ g.stable_pages = fs[op.path].stable_pages
          /\ g.stable0 = fs[op.path].stable0
      BY <2>1, FileFields, ZenonT(30)
    <2>3. fs' = [fs EXCEPT ![op.path] = g]
      BY <1>a
    <2> HIDE DEF g
    <2> QED BY <1>a, <2>2, <2>3 DEF FileInv, FileTypes
  <1> HIDE DEF f0
  <1>f. AllocationsUniqueContiguous'
    BY DEF FileInv, AllocationsUniqueContiguous, CreateExtends
  <1>1. FileTypes'
    BY <1>a, <1>b, <1>d DEF FileInv, FileTypes
  <1>2. Registered'
    <2>1. \A o \in Objects : handle[o] # None => files'[handle[o].file_id] # None
      BY <1>a, <1>c DEF FileInv, FileTypes, Registered, Opened, FileSuperblock
    <2>2. ASSUME NEW f \in FileIds, files'[f] # None
          PROVE  (\E o \in Objects : Opened(o, f)) \/ (op' # Idle /\ op'.sb.file_id = f)
      <3>1. files[f] # None /\ (op' = Idle => f # f0)
        BY <1>a, <1>b, <2>2 DEF FileInv, FileTypes
      <3> QED BY <1>a, <1>b, <3>1 DEF FileInv, Registered, f0
    <2> QED BY <1>a, <2>1, <2>2 DEF FileInv, Registered, Opened
  <1>3. CallAlone'
    BY <1>a, <1>b, <1>c DEF FileInv, CallAlone, Opened, f0, Idle, CreateOp
  <1>4. CreateProgress'
    <2>1. fs[op.path].exists
      BY DEF FileInv, CreateProgress, CreateExtends
    <2>2. CASE op' = Idle
      BY <2>2, IdleShape DEF CreateProgress
    <2>3. CASE op' # Idle
      BY <1>a, <1>b, <1>c, <1>d, <2>1, <2>3 DEF CreateProgress
    <2> QED BY <2>2, <2>3
  <1>5. FilesSane'
    BY <1>a, <1>c, <1>d DEF FileInv, FilesSane
  <1>6. OpenIsGenuine'
    BY <1>a, <1>c, <1>d DEF FileInv, FileTypes, OpenIsGenuine, Registered, Opened, FileSuperblock
  <1>7. PromisedIsDurable'
    BY <1>a, <1>d DEF FileInv, PromisedIsDurable
  <1>8. AllocationsHold'
    BY <1>a, IdleShape DEF FileInv, AllocationsHold, CallAlone, Opened
  <1>9. GrantsReachEnd'
    <2> SUFFICES ASSUME NEW f \in FileIds, files'[f] # None, Len(granted'[f]) > 0
                 PROVE  granted'[f][Len(granted'[f])] + 1 = fs'[files'[f]].pages
      BY DEF GrantsReachEnd
    <2>1. f # f0 /\ files'[f] = files[f] /\ files[f] \in Paths /\ granted'[f] = granted[f]
      BY <1>a, <1>c DEF FileInv, FileTypes
    <2>2. PICK o \in Objects : Opened(o, f)
      BY <1>a, <2>1 DEF FileInv, Registered, f0
    <2>3. fs[files[f]].page0 = Whole(handle[o])
      BY <2>2 DEF FileInv, OpenIsGenuine, Opened
    <2>4. files[f] # op.path
      BY <1>c, <2>3 DEF Whole, Blank
    <2> QED BY <1>d, <2>1, <2>4 DEF FileInv, GrantsReachEnd
  <1> QED BY <1>f, <1>1, <1>2, <1>3, <1>4, <1>5, <1>6, <1>7, <1>8, <1>9 DEF FileInv

LEMMA CreateWritesPreserves ==
    ASSUME FileInv, CreateWrites
    PROVE  FileInv'
  <1> DEFINE f0 == op.sb.file_id
  <1>a. /\ op \in CreateOp /\ op # Idle /\ op.path \in Paths /\ f0 \in FileIds
        /\ op.sb \in FileSuperblock
        /\ \/ /\ fs' = [fs EXCEPT ![op.path] = [fs[op.path] EXCEPT !.page0 = Whole(op.sb)]]
              /\ files' = files /\ op' = [op EXCEPT !.at = "SYNC"]
           \/ /\ fs' = [fs EXCEPT ![op.path] = [fs[op.path] EXCEPT !.page0 = Torn(Whole(op.sb))]]
              /\ files' = [files EXCEPT ![f0] = None] /\ op' = Idle
        /\ UNCHANGED <<handle, alloc, mutex, promised, granted>>
    BY OpShape DEF FileInv, CreateWrites, CleanupRegistration, CreateOp
  <1>b. \/ op' = Idle /\ files' = [files EXCEPT ![f0] = None]
        \/ /\ op' \in CreateOp /\ op'.at = "SYNC" /\ op'.path = op.path
           /\ op'.sb = op.sb /\ op'.into = op.into /\ op' # Idle /\ files' = files
    BY <1>a DEF CreateOp, Idle
  <1>c. /\ fs[op.path].page0 = Blank /\ files[f0] = op.path /\ handle[op.into] = None
        /\ fs[op.path].pages >= 1
        /\ granted[f0] = << >> /\ \A o \in Objects : ~Opened(o, f0)
    BY <1>a DEF FileInv, CreateProgress, CallAlone, CreateWrites
  <1>d. /\ Whole(op.sb) \in PageZero /\ Torn(Whole(op.sb)) \in PageZero
        /\ Whole(op.sb).sb = op.sb /\ ~Torn(Whole(op.sb)).intact
    BY <1>a DEF Whole, Torn, PageZero
  <1>e. /\ fs' \in [Paths -> File]
        /\ \A p \in Paths : /\ fs'[p].pages = fs[p].pages /\ fs'[p].stable0 = fs[p].stable0
                            /\ fs'[p].exists = fs[p].exists /\ fs'[p].stable_pages = fs[p].stable_pages
                            /\ p # op.path => fs'[p] = fs[p]
        /\ \/ fs'[op.path].page0 = Whole(op.sb)
           \/ fs'[op.path].page0 = Torn(Whole(op.sb)) /\ op' = Idle
    <2>1. PICK p0 \in {Whole(op.sb), Torn(Whole(op.sb))} :
            /\ fs' = [fs EXCEPT ![op.path] = [fs[op.path] EXCEPT !.page0 = p0]]
            /\ p0 = Whole(op.sb) \/ (p0 = Torn(Whole(op.sb)) /\ op' = Idle)
      BY <1>a
    <2> DEFINE g == [fs[op.path] EXCEPT !.page0 = p0]
    <2>2. fs[op.path] \in File /\ p0 \in PageZero /\ 1 \in 0..MaxPages
      BY <1>a, <1>d, <2>1, PageFileAssumption DEF FileInv, FileTypes
    <2>3. /\ g \in File /\ g.page0 = p0 /\ g.pages = fs[op.path].pages
          /\ g.exists = fs[op.path].exists /\ g.stable_pages = fs[op.path].stable_pages
          /\ g.stable0 = fs[op.path].stable0
      BY <2>2, FileFields, ZenonT(30)
    <2>4. fs' = [fs EXCEPT ![op.path] = g]
      BY <2>1
    <2> HIDE DEF g
    <2> QED BY <1>a, <2>1, <2>3, <2>4 DEF FileInv, FileTypes
  <1>g. ASSUME NEW f \in FileIds, f # f0, files[f] # None
        PROVE  files[f] \in Paths /\ files[f] # op.path
    <2>1. PICK o \in Objects : Opened(o, f)
      BY <1>a, <1>g DEF FileInv, Registered, f0
    <2>2. fs[files[f]].page0 = Whole(handle[o])
      BY <2>1 DEF FileInv, OpenIsGenuine, Opened
    <2> QED BY <1>c, <1>g, <2>2 DEF FileInv, FileTypes, Whole, Blank
  <1> HIDE DEF f0
  <1>f. AllocationsUniqueContiguous'
    BY DEF FileInv, AllocationsUniqueContiguous, CreateWrites
  <1>1. FileTypes'
    <2>1. \A p \in Paths : /\ fs'[p].page0.intact => fs'[p].page0.sb \in FileSuperblock
                           /\ fs'[p].stable0.intact => fs'[p].stable0.sb \in FileSuperblock
      <3>1. \A p \in Paths : fs'[p].stable0 = fs[p].stable0 /\ (p # op.path => fs'[p].page0 = fs[p].page0)
        BY <1>e
      <3>2. fs'[op.path].page0.intact => fs'[op.path].page0.sb \in FileSuperblock
        BY <1>a, <1>d, <1>e
      <3> QED BY <3>1, <3>2 DEF FileInv, FileTypes
    <2> QED BY <1>a, <1>b, <1>e, <2>1 DEF FileInv, FileTypes
  <1>2. Registered'
    <2>1. \A o \in Objects : handle[o] # None => files'[handle[o].file_id] # None
      BY <1>a, <1>c DEF FileInv, FileTypes, Registered, Opened, FileSuperblock
    <2>2. ASSUME NEW f \in FileIds, files'[f] # None
          PROVE  (\E o \in Objects : Opened(o, f)) \/ (op' # Idle /\ op'.sb.file_id = f)
      <3>1. files[f] # None /\ (op' = Idle => f # f0)
        BY <1>a, <1>b, <2>2 DEF FileInv, FileTypes
      <3> QED BY <1>a, <1>b, <3>1 DEF FileInv, Registered, f0
    <2> QED BY <1>a, <2>1, <2>2 DEF FileInv, Registered, Opened
  <1>3. CallAlone'
    BY <1>a, <1>b, <1>c DEF FileInv, CallAlone, Opened, f0, Idle, CreateOp
  <1>4. CreateProgress'
    <2>1. CASE op' = Idle
      BY <2>1, IdleShape DEF CreateProgress
    <2>2. CASE op' # Idle
      BY <1>b, <1>c, <1>e, <1>a, <2>2 DEF CreateProgress, FileInv, CreateWrites
    <2> QED BY <2>1, <2>2
  <1>5. FilesSane'
    <2>1. fs[op.path].exists
      BY DEF FileInv, CreateProgress, CreateWrites
    <2> QED BY <1>a, <1>c, <1>e, <2>1 DEF FileInv, FilesSane
  <1>6. OpenIsGenuine'
    <2> SUFFICES ASSUME NEW o \in Objects, handle[o] # None
                 PROVE  fs'[files'[handle[o].file_id]].page0 = Whole(handle[o])
      BY <1>a DEF OpenIsGenuine
    <2>1. handle[o].file_id \in FileIds /\ handle[o].file_id # f0 /\ files[handle[o].file_id] # None
      BY <1>c DEF FileInv, FileTypes, FileSuperblock, Opened, Registered
    <2>2. files'[handle[o].file_id] = files[handle[o].file_id]
      BY <1>a, <2>1 DEF FileInv, FileTypes
    <2> QED BY <1>e, <1>g, <2>1, <2>2 DEF FileInv, OpenIsGenuine
  <1>7. PromisedIsDurable'
    <2>1. promised[op.path] = None
      BY <1>a, <1>c, WholeNotBlank DEF FileInv, PromisedIsDurable
    <2> QED BY <1>a, <1>e, <2>1 DEF FileInv, PromisedIsDurable
  <1>8. AllocationsHold'
    BY <1>a, IdleShape DEF FileInv, AllocationsHold, CallAlone, Opened
  <1>9. GrantsReachEnd'
    <2> SUFFICES ASSUME NEW f \in FileIds, files'[f] # None, Len(granted'[f]) > 0
                 PROVE  granted'[f][Len(granted'[f])] + 1 = fs'[files'[f]].pages
      BY DEF GrantsReachEnd
    <2>1. f # f0 /\ files'[f] = files[f] /\ files[f] \in Paths /\ granted'[f] = granted[f]
      BY <1>a, <1>c DEF FileInv, FileTypes
    <2> QED BY <1>e, <2>1 DEF FileInv, GrantsReachEnd
  <1> QED BY <1>f, <1>1, <1>2, <1>3, <1>4, <1>5, <1>6, <1>7, <1>8, <1>9 DEF FileInv

LEMMA CreateSyncsPreserves ==
    ASSUME FileInv, CreateSyncs
    PROVE  FileInv'
  <1>a. /\ op \in CreateOp /\ op # Idle /\ op.path \in Paths /\ op.into \in Objects
        /\ op.sb \in FileSuperblock /\ op.sb.file_id \in FileIds
    BY OpShape DEF FileInv, CreateSyncs, CreateOp
  <1>b. /\ files[op.sb.file_id] = op.path /\ handle[op.into] = None
        /\ fs[op.path].page0 = Whole(op.sb) /\ fs[op.path].pages >= 1
        /\ \A o \in Objects : ~Opened(o, op.sb.file_id)
    BY <1>a DEF FileInv, CallAlone, CreateProgress, CreateSyncs
  <1>c. /\ fs' \in [Paths -> File]
        /\ \A p \in Paths : /\ fs'[p].exists = fs[p].exists /\ fs'[p].pages = fs[p].pages
                            /\ fs'[p].page0 = fs[p].page0
        /\ fs'[op.path].stable_pages = fs[op.path].pages
        /\ fs'[op.path].stable0 = fs[op.path].page0
        /\ \A p \in Paths \ {op.path} : fs'[p] = fs[p]
    BY <1>a, SyncFileEffect DEF FileInv, CreateSyncs
  <1>d. /\ op' = Idle /\ handle' = [handle EXCEPT ![op.into] = op.sb]
        /\ promised' = [promised EXCEPT ![op.path] = op.sb]
        /\ UNCHANGED <<files, alloc, mutex, granted>>
    BY DEF CreateSyncs
  <1>f. AllocationsUniqueContiguous'
    BY DEF FileInv, AllocationsUniqueContiguous, CreateSyncs
  <1>1. FileTypes'
    <2>1. \A p \in Paths : fs'[p].stable0 = fs[p].stable0 \/ fs'[p].stable0 = fs[p].page0
      BY <1>a, <1>c
    <2> QED BY <1>a, <1>c, <1>d, <2>1 DEF FileInv, FileTypes
  <1>2. Registered'
    <2>1. handle'[op.into] = op.sb /\ \A o \in Objects \ {op.into} : handle'[o] = handle[o]
      BY <1>a, <1>d DEF FileInv, FileTypes
    <2>2. op.sb # None
      BY <1>a, PageFileAssumption
    <2>3. \A o \in Objects, f \in FileIds :
             Opened(o, f)' <=> (IF o = op.into THEN f = op.sb.file_id ELSE Opened(o, f))
      BY <2>1, <2>2 DEF Opened
    <2>4. \A o \in Objects : handle'[o] # None => files'[handle'[o].file_id] # None
      BY <1>a, <1>b, <1>d, <2>1, PageFileAssumption DEF FileInv, Registered
    <2>5. ASSUME NEW f \in FileIds, files'[f] # None PROVE \E o \in Objects : Opened(o, f)'
      <3>1. CASE f = op.sb.file_id
        BY <1>a, <2>3, <3>1
      <3>2. CASE f # op.sb.file_id
        <4>1. PICK o \in Objects : Opened(o, f)
          BY <1>a, <1>b, <1>d, <2>5, <3>2 DEF FileInv, Registered
        <4>2. o # op.into
          BY <1>a, <1>b, <1>d, <4>1 DEF Opened
        <4> QED BY <2>3, <4>1, <4>2
      <3> QED BY <3>1, <3>2
    <2>6. \A o1, o2 \in Objects, f \in FileIds : Opened(o1, f)' /\ Opened(o2, f)' => o1 = o2
      BY <1>b, <2>3 DEF FileInv, Registered
    <2> QED BY <2>4, <2>5, <2>6 DEF Registered
  <1>3. CallAlone'
    BY DEF CallAlone, CreateSyncs
  <1>4. CreateProgress'
    BY DEF CreateProgress, CreateSyncs, Idle
  <1>5. FilesSane'
    BY <1>c DEF FileInv, FilesSane
  <1>6. OpenIsGenuine'
    <2> SUFFICES ASSUME NEW o \in Objects, handle'[o] # None
                 PROVE  fs'[files[handle'[o].file_id]].page0 = Whole(handle'[o])
      BY <1>d DEF OpenIsGenuine
    <2>1. CASE o = op.into
      BY <1>a, <1>b, <1>c, <1>d, <2>1 DEF FileInv, FileTypes
    <2>2. CASE o # op.into
      <3>1. handle'[o] = handle[o]
        BY <1>d, <2>2 DEF FileInv, FileTypes
      <3>2. files[handle[o].file_id] \in Paths
        BY <3>1 DEF FileInv, FileTypes, Registered, FileSuperblock
      <3> QED BY <1>c, <3>1, <3>2 DEF FileInv, OpenIsGenuine
    <2> QED BY <2>1, <2>2
  <1>7. PromisedIsDurable'
    BY <1>a, <1>b, <1>c, <1>d DEF FileInv, FileTypes, PromisedIsDurable
  <1>8. AllocationsHold'
    BY DEF FileInv, AllocationsHold, CallAlone, CreateSyncs, Idle, Ready
  <1>9. GrantsReachEnd'
    BY DEF FileInv, GrantsReachEnd, CreateSyncs, SyncFile, FileTypes
  <1> QED BY <1>f, <1>1, <1>2, <1>3, <1>4, <1>5, <1>6, <1>7, <1>8, <1>9 DEF FileInv

LEMMA OpenFilePreserves ==
    ASSUME FileInv, NEW o \in Objects, NEW path \in Paths, NEW sb \in Expected,
           OpenFile(o, path, sb)
    PROVE  FileInv'
  <1>f. FilesSane' /\ PromisedIsDurable'
    BY DEF FileInv, FilesSane, PromisedIsDurable, OpenFile
  <1>1. FileTypes'
    BY DEF FileInv, FileTypes, OpenFile, Expected, OpenOp
  <1>2. Registered'
    BY DEF FileInv, Registered, Opened, OpenFile, Quiet, Idle
  <1>3. CallAlone'
    BY DEF FileInv, CallAlone, Opened, Registered, OpenFile, Quiet, FileTypes, Expected
  <1>4. CreateProgress'
    BY DEF CreateProgress, OpenFile
  <1>6. OpenIsGenuine'
    BY DEF FileInv, OpenIsGenuine, Registered, OpenFile
  <1>8. AllocationsHold'
    BY DEF AllocationsHold, OpenFile, Quiet, Ready
  <1>9. GrantsReachEnd'
    BY DEF FileInv, GrantsReachEnd, OpenFile, FileTypes
  <1>10. AllocationsUniqueContiguous'
    BY DEF FileInv, AllocationsUniqueContiguous, OpenFile
  <1> QED BY <1>f, <1>1, <1>2, <1>3, <1>4, <1>6, <1>8, <1>9, <1>10 DEF FileInv

LEMMA OpenCountsPreserves ==
    ASSUME FileInv, OpenCounts
    PROVE  FileInv'
  <1>f. FilesSane' /\ OpenIsGenuine' /\ PromisedIsDurable' /\ AllocationsHold' /\
  GrantsReachEnd' /\ AllocationsUniqueContiguous'
    BY DEF FileInv, FilesSane, OpenIsGenuine, PromisedIsDurable, AllocationsHold,
    GrantsReachEnd, AllocationsUniqueContiguous, Opened, OpenCounts
  <1>1. FileTypes'
    <2>1. op \in OpenOp /\ op' = [op EXCEPT !.at = "READ"]
      BY OpShape DEF FileInv, OpenCounts
    <2>2. op' \in OpenOp
      BY <2>1 DEF OpenOp
    <2> QED BY <2>2 DEF FileInv, FileTypes, OpenCounts
  <1>2. Registered'
    BY DEF FileInv, Registered, Opened, OpenCounts, Idle
  <1>3. CallAlone'
    BY DEF FileInv, CallAlone, Opened, OpenCounts, Idle
  <1>4. CreateProgress'
    BY DEF CreateProgress, OpenCounts
  <1> QED BY <1>f, <1>1, <1>2, <1>3, <1>4 DEF FileInv

LEMMA OpenReadsPreserves ==
    ASSUME FileInv, OpenReads
    PROVE  FileInv'
  <1> DEFINE sb0 == fs[op.path].page0.sb
             f0 == op.sb.file_id
  <1>a. /\ op # Idle /\ op.path \in Paths /\ op.into \in Objects /\ f0 \in FileIds
        /\ files[f0] = op.path /\ handle[op.into] = None
        /\ \A o \in Objects : ~Opened(o, f0)
    BY OpShape DEF FileInv, OpenReads, CallAlone
  <1>b. /\ sb0 \in FileSuperblock /\ sb0.file_id = f0 /\ fs[op.path].page0 = Whole(sb0)
    BY <1>a DEF FileInv, FileTypes, OpenReads, Decodes, Matches, File, PageZero, Whole
  <1>c. /\ op' = Idle /\ handle' = [handle EXCEPT ![op.into] = sb0]
        /\ UNCHANGED <<fs, files, alloc, mutex, promised, granted>>
    BY DEF OpenReads
  <1> HIDE DEF sb0, f0
  <1>f. FilesSane' /\ PromisedIsDurable' /\ GrantsReachEnd' /\ AllocationsUniqueContiguous'
    BY DEF FileInv, FilesSane, PromisedIsDurable, GrantsReachEnd, AllocationsUniqueContiguous,
    OpenReads
  <1>1. FileTypes'
    BY DEF FileInv, FileTypes, OpenReads, Decodes, CreateOp, OpenOp, Idle
  <1>2. Registered'
    <2>1. handle'[op.into] = sb0 /\ \A o \in Objects \ {op.into} : handle'[o] = handle[o]
      BY <1>a, <1>c DEF FileInv, FileTypes
    <2>2. sb0 # None
      BY <1>b, PageFileAssumption
    <2>3. \A o \in Objects, f \in FileIds :
             Opened(o, f)' <=> (IF o = op.into THEN f = f0 ELSE Opened(o, f))
      BY <1>b, <2>1, <2>2 DEF Opened
    <2>4. \A o \in Objects : handle'[o] # None => files'[handle'[o].file_id] # None
      BY <1>a, <1>b, <1>c, <2>1, PageFileAssumption DEF FileInv, Registered
    <2>5. ASSUME NEW f \in FileIds, files'[f] # None PROVE \E o \in Objects : Opened(o, f)'
      <3>1. CASE f = f0
        BY <1>a, <2>3, <3>1
      <3>2. CASE f # f0
        <4>1. PICK o \in Objects : Opened(o, f)
          BY <1>a, <1>c, <2>5, <3>2 DEF FileInv, Registered, f0
        <4>2. o # op.into
          BY <1>a, <1>c, <4>1 DEF Opened
        <4> QED BY <2>3, <4>1, <4>2
      <3> QED BY <3>1, <3>2
    <2>6. \A o1, o2 \in Objects, f \in FileIds : Opened(o1, f)' /\ Opened(o2, f)' => o1 = o2
      BY <1>a, <2>3 DEF FileInv, Registered
    <2> QED BY <2>4, <2>5, <2>6 DEF Registered
  <1>3. CallAlone'
    BY DEF CallAlone, OpenReads
  <1>4. CreateProgress'
    BY DEF CreateProgress, OpenReads, Idle
  <1>6. OpenIsGenuine'
    <2> SUFFICES ASSUME NEW o \in Objects, handle'[o] # None
                 PROVE  fs[files[handle'[o].file_id]].page0 = Whole(handle'[o])
      BY <1>c DEF OpenIsGenuine
    <2>1. CASE o = op.into
      BY <1>a, <1>b, <1>c, <2>1 DEF FileInv, FileTypes
    <2>2. CASE o # op.into
      BY <1>c, <2>2 DEF FileInv, FileTypes, OpenIsGenuine
    <2> QED BY <2>1, <2>2
  <1>8. AllocationsHold'
    BY DEF FileInv, AllocationsHold, CallAlone, OpenReads, Idle
  <1> QED BY <1>f, <1>1, <1>2, <1>3, <1>4, <1>6, <1>8 DEF FileInv

LEMMA FailsPreserves ==
    ASSUME FileInv, Fails
    PROVE  FileInv'
  <1>f. FilesSane' /\ PromisedIsDurable' /\ AllocationsUniqueContiguous'
    BY DEF FileInv, FilesSane, PromisedIsDurable, AllocationsUniqueContiguous, Fails
  <1>1. FileTypes'
    BY DEF FileInv, FileTypes, Fails, CleanupRegistration
  <1>2. Registered'
    <2> DEFINE f0 == op.sb.file_id
    <2>1. /\ f0 \in FileIds /\ files' = [files EXCEPT ![f0] = None] /\ op' = Idle
          /\ handle' = handle /\ \A o \in Objects : ~Opened(o, f0)
      BY OpShape DEF FileInv, Fails, CleanupRegistration, CallAlone
    <2>2. \A f \in FileIds : files'[f] = IF f = f0 THEN None ELSE files[f]
      BY <2>1 DEF FileInv, FileTypes
    <2>3. \A o \in Objects : handle[o] # None => files'[handle[o].file_id] # None
      BY <2>1, <2>2 DEF FileInv, FileTypes, Registered, Opened, FileSuperblock
    <2>4. \A f \in FileIds : files'[f] # None => \E o \in Objects : Opened(o, f)
      BY <2>2 DEF FileInv, Registered
    <2> QED BY <2>1, <2>3, <2>4 DEF FileInv, Registered, Opened
  <1>3. CallAlone'
    BY DEF CallAlone, Fails
  <1>4. CreateProgress'
    BY DEF CreateProgress, Fails, Idle
  <1>6. OpenIsGenuine'
    BY DEF FileInv, OpenIsGenuine, CallAlone, Opened, Fails, CleanupRegistration
  <1>8. AllocationsHold'
    BY DEF FileInv, AllocationsHold, CallAlone, Fails, Ready
  <1>9. GrantsReachEnd'
    BY DEF FileInv, GrantsReachEnd, Fails, CleanupRegistration
  <1> QED BY <1>f, <1>1, <1>2, <1>3, <1>4, <1>6, <1>8, <1>9 DEF FileInv

LEMMA DestroyPreserves ==
    ASSUME FileInv, NEW o \in Objects, Destroy(o)
    PROVE  FileInv'
  <1>f. CreateProgress' /\ FilesSane' /\ PromisedIsDurable' /\ AllocationsUniqueContiguous'
    BY DEF FileInv, CreateProgress, FilesSane, PromisedIsDurable, AllocationsUniqueContiguous,
    Destroy
  <1>1. FileTypes'
    BY DEF FileInv, FileTypes, Destroy
  <1>2. Registered'
    BY DEF FileInv, Registered, Opened, Destroy, FileTypes
  <1>3. CallAlone'
    BY DEF CallAlone, Destroy, Quiet
  <1>6. OpenIsGenuine'
    BY DEF FileInv, OpenIsGenuine, Registered, Opened, Destroy, FileTypes
  <1>8. AllocationsHold'
    BY DEF AllocationsHold, Destroy, Quiet, Ready
  <1>9. GrantsReachEnd'
    BY DEF FileInv, GrantsReachEnd, Destroy
  <1> QED BY <1>f, <1>1, <1>2, <1>3, <1>6, <1>8, <1>9 DEF FileInv

LEMMA MoveAssignPreserves ==
    ASSUME FileInv, NEW o \in Objects, NEW other \in Objects, MoveAssign(o, other)
    PROVE  FileInv'
  <1>a. /\ op = Idle /\ o # other
        /\ handle'[o] = handle[other] /\ handle'[other] = None
        /\ \A x \in Objects \ {o, other} : handle'[x] = handle[x]
        /\ handle' \in [Objects -> FileSuperblock \cup {None}]
        /\ UNCHANGED <<fs, op, alloc, mutex, promised, granted>>
    BY DEF FileInv, FileTypes, MoveAssign, Quiet
  <1>b. /\ files' \in [FileIds -> Paths \cup {None}]
        /\ \A f \in FileIds : files'[f] = IF Opened(o, f) THEN None ELSE files[f]
    BY DEF FileInv, FileTypes, MoveAssign, Opened, FileSuperblock
  <1>c. \A x \in Objects, f \in FileIds :
           Opened(x, f)' <=> IF x = o THEN Opened(other, f) ELSE x # other /\ Opened(x, f)
    BY <1>a DEF Opened
  <1>d. \A x \in Objects : handle[x] # None => handle[x].file_id \in FileIds /\ Opened(x, handle[x].file_id)
    BY DEF FileInv, FileTypes, FileSuperblock, Opened
  <1>f. CreateProgress' /\ FilesSane' /\ PromisedIsDurable' /\ AllocationsUniqueContiguous'
    BY DEF FileInv, CreateProgress, FilesSane, PromisedIsDurable, AllocationsUniqueContiguous,
    MoveAssign
  <1>1. FileTypes'
    BY <1>a, <1>b DEF FileInv, FileTypes
  <1>2. Registered'
    <2>1. ASSUME NEW x \in Objects, handle'[x] # None PROVE files'[handle'[x].file_id] # None
      <3>1. PICK y \in Objects \ {o} : handle[y] = handle'[x]
        BY <1>a, <2>1
      <3> DEFINE f == handle[y].file_id
      <3>2. handle[y] # None /\ f \in FileIds /\ Opened(y, f) /\ f = handle'[x].file_id
        BY <1>d, <2>1, <3>1
      <3> HIDE DEF f
      <3>3. ~Opened(o, f)
        BY <3>1, <3>2 DEF FileInv, Registered
      <3>4. files[f] # None
        BY <3>2 DEF FileInv, Registered, Opened
      <3> QED BY <1>b, <3>2, <3>3, <3>4
    <2>2. ASSUME NEW f \in FileIds, files'[f] # None PROVE \E x \in Objects : Opened(x, f)'
      <3>1. ~Opened(o, f) /\ files[f] # None
        BY <1>b, <2>2
      <3>2. PICK y \in Objects : Opened(y, f)
        BY <1>a, <3>1 DEF FileInv, Registered
      <3> QED BY <1>c, <3>1, <3>2
    <2>3. \A o1, o2 \in Objects, f \in FileIds : Opened(o1, f)' /\ Opened(o2, f)' => o1 = o2
      BY <1>c DEF FileInv, Registered
    <2> QED BY <2>1, <2>2, <2>3 DEF Registered
  <1>3. CallAlone'
    BY DEF CallAlone, MoveAssign, Quiet
  <1>6. OpenIsGenuine'
    <2> SUFFICES ASSUME NEW x \in Objects, handle'[x] # None
                 PROVE  fs[files'[handle'[x].file_id]].page0 = Whole(handle'[x])
      BY <1>a DEF OpenIsGenuine
    <2>1. PICK y \in Objects \ {o} : handle[y] = handle'[x]
      BY <1>a
    <2> DEFINE f == handle[y].file_id
    <2>2. handle[y] # None /\ f \in FileIds /\ Opened(y, f) /\ f = handle'[x].file_id
      BY <1>d, <2>1
    <2> HIDE DEF f
    <2>3. ~Opened(o, f)
      BY <2>1, <2>2 DEF FileInv, Registered
    <2>4. files'[f] = files[f]
      BY <1>b, <2>2, <2>3
    <2> QED BY <2>1, <2>2, <2>4 DEF FileInv, OpenIsGenuine, f
  <1>8. AllocationsHold'
    BY DEF AllocationsHold, MoveAssign, Quiet, Ready
  <1>9. GrantsReachEnd'
    BY DEF FileInv, GrantsReachEnd, MoveAssign
  <1> QED BY <1>f, <1>1, <1>2, <1>3, <1>6, <1>8, <1>9 DEF FileInv

LEMMA AllocatePagePreserves ==
    ASSUME FileInv, NEW t \in Threads, NEW o \in Objects, AllocatePage(t, o)
    PROVE  FileInv'
  <1>f. Registered' /\ CreateProgress' /\ FilesSane' /\ OpenIsGenuine' /\ PromisedIsDurable' /\
  GrantsReachEnd' /\ AllocationsUniqueContiguous'
    BY DEF FileInv, Registered, CreateProgress, FilesSane, OpenIsGenuine, PromisedIsDurable,
    GrantsReachEnd, AllocationsUniqueContiguous, Opened, AllocatePage
  <1>1. FileTypes'
    BY DEF FileInv, FileTypes, AllocatePage, FileSuperblock, Locking
  <1>3. CallAlone'
    BY DEF CallAlone, AllocatePage
  <1>8. AllocationsHold'
    BY DEF FileInv, AllocationsHold, Opened, AllocatePage
  <1> QED BY <1>f, <1>1, <1>3, <1>8 DEF FileInv

LEMMA LocksExtensionPreserves ==
    ASSUME FileInv, NEW t \in Threads, LocksExtension(t)
    PROVE  FileInv'
  <1>f. Registered' /\ CreateProgress' /\ FilesSane' /\ OpenIsGenuine' /\ PromisedIsDurable' /\
  GrantsReachEnd' /\ AllocationsUniqueContiguous'
    BY DEF FileInv, Registered, CreateProgress, FilesSane, OpenIsGenuine, PromisedIsDurable,
    GrantsReachEnd, AllocationsUniqueContiguous, Opened, LocksExtension
  <1>1. FileTypes'
    <2>1. alloc[t] \in Locking
      BY AllocShape DEF FileInv, LocksExtension
    <2>2. [alloc[t] EXCEPT !.at = "COUNT"] \in Locking
      BY <2>1 DEF Locking
    <2>3. alloc' = [alloc EXCEPT ![t] = [alloc[t] EXCEPT !.at = "COUNT"]]
      BY DEF FileInv, FileTypes, LocksExtension
    <2> QED BY <2>2, <2>3 DEF FileInv, FileTypes, LocksExtension
  <1>3. CallAlone'
    BY DEF FileInv, CallAlone, LocksExtension, Ready
  <1>8. AllocationsHold'
    BY PageFileAssumption DEF FileInv, AllocationsHold, Opened, LocksExtension, Ready
  <1> QED BY <1>f, <1>1, <1>3, <1>8 DEF FileInv

LEMMA CountsPagesPreserves ==
    ASSUME FileInv, NEW t \in Threads, CountsPages(t)
    PROVE  FileInv'
  <1>f. Registered' /\ CreateProgress' /\ FilesSane' /\ OpenIsGenuine' /\ PromisedIsDurable' /\
  GrantsReachEnd' /\ AllocationsUniqueContiguous'
    BY DEF FileInv, Registered, CreateProgress, FilesSane, OpenIsGenuine, PromisedIsDurable,
    GrantsReachEnd, AllocationsUniqueContiguous, Opened, CountsPages
  <1>1. FileTypes'
    <2> DEFINE f == alloc[t].file_id
               r == [at |-> "TRUNCATE", file_id |-> f, count |-> fs[files[f]].pages]
    <2>1. f \in FileIds /\ alloc[t] # Ready
      BY AllocShape DEF FileInv, CountsPages
    <2>2. files[f] \in Paths
      BY <2>1 DEF FileInv, FileTypes, AllocationsHold, Registered, Opened
    <2>3. r \in Truncating
      BY <2>1, <2>2 DEF FileInv, FileTypes, File, Truncating
    <2>4. alloc' = [alloc EXCEPT ![t] = r]
      BY DEF CountsPages
    <2> HIDE DEF r
    <2> QED BY <2>3, <2>4 DEF FileInv, FileTypes, CountsPages
  <1>3. CallAlone'
    BY DEF FileInv, CallAlone, CountsPages, Ready
  <1>8. AllocationsHold'
    BY DEF FileInv, AllocationsHold, Opened, CountsPages, Ready
  <1> QED BY <1>f, <1>1, <1>3, <1>8 DEF FileInv

LEMMA TruncatesPreserves ==
    ASSUME FileInv, NEW t \in Threads, Truncates(t)
    PROVE  FileInv'
  <1> DEFINE f == alloc[t].file_id
             n == alloc[t].count
             path == files[f]
  <1>a. /\ alloc[t] # Ready /\ f \in FileIds /\ n \in 0..MaxPages /\ n < MaxPages
        /\ op = Idle /\ n = fs[path].pages /\ mutex = t
    BY AllocShape DEF FileInv, Truncates, Truncating, CallAlone, AllocationsHold
  <1>b. PICK o \in Objects : Opened(o, f)
    BY <1>a DEF FileInv, AllocationsHold
  <1>c. path \in Paths /\ fs[path].page0 = Whole(handle[o]) /\ fs[path].exists
    <2>1. path \in Paths /\ fs[path].page0 = Whole(handle[o])
      BY <1>a, <1>b DEF FileInv, FileTypes, Registered, OpenIsGenuine, Opened
    <2> QED BY <2>1, WholeNotBlank DEF FileInv, FilesSane
  <1>d. /\ fs' \in [Paths -> File] /\ fs'[path].pages = n + 1
        /\ \A p \in Paths : /\ fs'[p].page0 = fs[p].page0 /\ fs'[p].stable0 = fs[p].stable0
                            /\ fs'[p].exists = fs[p].exists /\ fs'[p].stable_pages = fs[p].stable_pages
                            /\ p # path => fs'[p] = fs[p]
    <2> DEFINE g == [fs[path] EXCEPT !.pages = n + 1]
    <2>1. fs[path] \in File /\ fs[path].page0 \in PageZero /\ n + 1 \in 0..MaxPages
      BY <1>a, <1>c, PageFileAssumption DEF FileInv, FileTypes, File
    <2>2. /\ g \in File /\ g.pages = n + 1 /\ g.page0 = fs[path].page0
          /\ g.exists = fs[path].exists /\ g.stable_pages = fs[path].stable_pages
          /\ g.stable0 = fs[path].stable0
      BY <2>1, FileFields, ZenonT(30)
    <2>3. fs' = [fs EXCEPT ![path] = g]
      BY DEF FileInv, FileTypes, Truncates
    <2> HIDE DEF g
    <2> QED BY <1>c, <2>2, <2>3 DEF FileInv, FileTypes
  <1>e. /\ alloc' = [alloc EXCEPT ![t] = Ready] /\ mutex' = None
        /\ granted' = IF n = 0 THEN granted ELSE [granted EXCEPT ![f] = Append(granted[f], n)]
        /\ UNCHANGED <<files, handle, op, promised>>
    BY <1>a DEF Truncates, Unlocked, FileInv, FileTypes
  (* No other FileId is registered for this path: page 0 carries one file_id. *)
  <1>g. ASSUME NEW f2 \in FileIds \ {f}, files[f2] # None PROVE files[f2] \in Paths \ {path}
    <2>1. PICK o2 \in Objects : Opened(o2, f2)
      BY <1>a, <1>g DEF FileInv, Registered
    <2>2. fs[files[f2]].page0 = Whole(handle[o2])
      BY <2>1 DEF FileInv, OpenIsGenuine, Opened
    <2>3. handle[o].file_id # handle[o2].file_id
      BY <1>b, <2>1 DEF Opened
    <2>4. Whole(handle[o]).sb = handle[o] /\ Whole(handle[o2]).sb = handle[o2]
      BY DEF Whole
    <2>5. files[f2] # path
      BY <1>c, <2>2, <2>3, <2>4
    <2> QED BY <1>g, <2>5 DEF FileInv, FileTypes
  <1>h. \A f2 \in FileIds : granted[f2] \in Seq(0..MaxPages)
    BY DEF FileInv, FileTypes
  <1> HIDE DEF f, n, path
  <1>i. n # 0 => /\ Append(granted[f], n) \in Seq(0..MaxPages)
                 /\ Len(Append(granted[f], n)) = Len(granted[f]) + 1
                 /\ Append(granted[f], n)[Len(granted[f]) + 1] = n
                 /\ \A i \in 1..Len(granted[f]) : Append(granted[f], n)[i] = granted[f][i]
    BY <1>a, <1>h
  <1>f. Registered'
    BY DEF FileInv, Registered, Opened, Truncates
  <1>1. FileTypes'
    <2>1. granted' \in [FileIds -> Seq(0..MaxPages)]
      BY <1>a, <1>e, <1>i DEF FileInv, FileTypes
    <2> QED BY <1>d, <1>e, <2>1 DEF FileInv, FileTypes
  <1>3. CallAlone'
    BY DEF FileInv, CallAlone, Truncates, Ready
  <1>4. CreateProgress'
    BY DEF FileInv, CreateProgress, CallAlone, Truncates, Idle, Ready
  <1>5. FilesSane'
    <2>1. n + 1 >= 1
      BY <1>a
    <2> QED BY <1>c, <1>d, <2>1 DEF FileInv, FilesSane
  <1>6. OpenIsGenuine'
    BY DEF FileInv, OpenIsGenuine, Truncates
  <1>7. PromisedIsDurable'
    BY DEF FileInv, PromisedIsDurable, Truncates
  <1>8. AllocationsHold'
    BY DEF FileInv, AllocationsHold, Opened, Truncates, FileTypes, Ready
  <1>9. GrantsReachEnd'
    <2> SUFFICES ASSUME NEW f2 \in FileIds, files'[f2] # None, Len(granted'[f2]) > 0
                 PROVE  granted'[f2][Len(granted'[f2])] + 1 = fs'[files'[f2]].pages
      BY DEF GrantsReachEnd
    <2>1. CASE f2 # f
      <3>1. granted'[f2] = granted[f2] /\ files'[f2] = files[f2]
        BY <1>e, <2>1 DEF FileInv, FileTypes
      <3>2. fs'[files[f2]] = fs[files[f2]]
        BY <1>d, <1>g, <2>1, <3>1
      <3> QED BY <3>1, <3>2 DEF FileInv, GrantsReachEnd
    <2>2. CASE f2 = f /\ n # 0
      <3>1. granted'[f] = Append(granted[f], n)
        BY <1>a, <1>e, <2>2 DEF FileInv, FileTypes
      <3> QED BY <1>d, <1>e, <1>i, <2>2, <3>1 DEF path
    <2>3. CASE f2 = f /\ n = 0
      <3>1. files[f] # None /\ Len(granted[f]) > 0
        BY <1>e, <2>3
      <3>2. granted[f][Len(granted[f])] + 1 = 0
        BY <1>a, <2>3, <3>1 DEF FileInv, GrantsReachEnd, path
      <3>3. granted[f][Len(granted[f])] \in 0..MaxPages
        <4>1. granted[f] \in Seq(0..MaxPages)
          BY <1>a, <1>h
        <4>2. Len(granted[f]) \in 1..Len(granted[f])
          BY <3>1, <4>1, LenProperties
        <4> QED BY <4>1, <4>2, ElementOfSeq
      <3> QED BY <3>2, <3>3, PageFileAssumption
    <2> QED BY <2>1, <2>2, <2>3
  <1>10. AllocationsUniqueContiguous'
    <2> SUFFICES ASSUME NEW f2 \in FileIds, NEW i \in DOMAIN granted'[f2]
                 PROVE  granted'[f2][i] = granted'[f2][1] + i - 1 /\ granted'[f2][i] # 0
      BY DEF AllocationsUniqueContiguous
    <2>1. CASE f2 # f \/ n = 0
      BY <1>e, <2>1 DEF FileInv, FileTypes, AllocationsUniqueContiguous
    <2>2. CASE f2 = f /\ n # 0
      <3> DEFINE s == granted[f]
                 l == Len(granted[f])
      <3>1. granted'[f] = Append(s, n) /\ s \in Seq(0..MaxPages) /\ l \in Nat
        BY <1>a, <1>e, <1>h, <2>2 DEF FileInv, FileTypes
      <3>a. DOMAIN s = 1..l /\ \A j \in 1..l : s[j] \in 0..MaxPages
        BY <3>1, ElementOfSeq, LenProperties
      <3>2. \A j \in 1..l : s[j] = s[1] + j - 1 /\ s[j] # 0 /\ s[j] \in 0..MaxPages
        BY <1>a, <3>a DEF FileInv, AllocationsUniqueContiguous
      <3>3. l > 0 => s[l] + 1 = n
        BY <1>a, <1>c, PageFileAssumption DEF FileInv, GrantsReachEnd, path
      <3>4. i \in 1..(l + 1)
        BY <1>i, <2>2, <3>1
      <3>5. Append(s, n)[l + 1] = n /\ \A j \in 1..l : Append(s, n)[j] = s[j]
        BY <1>i, <2>2
      <3> DEFINE a == Append(s, n)
      <3>b. granted'[f] = a /\ a[l + 1] = n /\ \A j \in 1..l : a[j] = s[j]
        BY <3>1, <3>5
      <3> HIDE DEF s, l, a
      <3>6. CASE i =< l
        BY <2>2, <3>1, <3>2, <3>4, <3>b, <3>6
      <3>7. CASE i = l + 1 /\ l > 0
        <4>1. s[l] = s[1] + l - 1 /\ s[1] \in 0..MaxPages /\ s[l] \in 0..MaxPages
          BY <3>1, <3>2, <3>7
        <4>2. a[1] = s[1] /\ a[i] = n
          BY <3>1, <3>b, <3>7
        <4>3. n = s[1] + i - 1
          BY <1>a, <3>1, <3>3, <3>7, <4>1
        <4> QED BY <2>2, <3>b, <4>2, <4>3
      <3>8. CASE i = l + 1 /\ l = 0
        BY <1>a, <2>2, <3>b, <3>8
      <3> QED BY <3>1, <3>4, <3>6, <3>7, <3>8
    <2> QED BY <2>1, <2>2
  <1> QED BY <1>f, <1>1, <1>3, <1>4, <1>5, <1>6, <1>7, <1>8, <1>9, <1>10 DEF FileInv

LEMMA AllocateFailsPreserves ==
    ASSUME FileInv, NEW t \in Threads, AllocateFails(t)
    PROVE  FileInv'
  <1>f. Registered' /\ CreateProgress' /\ FilesSane' /\ OpenIsGenuine' /\ PromisedIsDurable' /\
  GrantsReachEnd' /\ AllocationsUniqueContiguous'
    BY DEF FileInv, Registered, CreateProgress, FilesSane, OpenIsGenuine, PromisedIsDurable,
    GrantsReachEnd, AllocationsUniqueContiguous, Opened, AllocateFails
  <1>1. FileTypes'
    BY DEF FileInv, FileTypes, AllocateFails, Unlocked
  <1>3. CallAlone'
    BY DEF FileInv, CallAlone, Opened, AllocateFails
  <1>8. AllocationsHold'
    BY DEF FileInv, AllocationsHold, Opened, AllocateFails, FileTypes, Ready
  <1> QED BY <1>f, <1>1, <1>3, <1>8 DEF FileInv

LEMMA WriteStableImagePreserves ==
    ASSUME FileInv, NEW o \in Objects, WriteStableImage(o)
    PROVE  FileInv'
  <1> DEFINE path == files[handle[o].file_id]
  <1>a. /\ path \in Paths /\ fs[path].page0 = Whole(handle[o]) /\ fs[path].pages >= 1
        /\ handle[o] \in FileSuperblock
    BY DEF FileInv, FileTypes, Registered, OpenIsGenuine, WriteStableImage, File, FileSuperblock
  <1>b. /\ fs' \in [Paths -> File]
        /\ \A p \in Paths : /\ fs'[p].exists = fs[p].exists /\ fs'[p].pages = fs[p].pages
                            /\ fs'[p].page0 = fs[p].page0
        /\ fs'[path].stable_pages = fs[path].pages /\ fs'[path].stable0 = fs[path].page0
        /\ \A p \in Paths \ {path} : fs'[p] = fs[p]
    BY <1>a, SyncFileEffect DEF FileInv, WriteStableImage
  <1>c. /\ promised' = [promised EXCEPT ![path] = handle[o]]
        /\ UNCHANGED <<files, handle, op, alloc, mutex, granted>>
    BY DEF WriteStableImage
  <1>d. \A f \in FileIds : files[f] \in Paths \cup {None}
    BY DEF FileInv, FileTypes
  <1> HIDE DEF path
  <1>f. Registered' /\ CallAlone' /\ AllocationsUniqueContiguous'
    BY DEF FileInv, Registered, CallAlone, AllocationsUniqueContiguous, Opened, WriteStableImage
  <1>1. FileTypes'
    <2>1. \A p \in Paths : fs'[p].stable0 = fs[p].stable0 \/ fs'[p].stable0 = fs[p].page0
      BY <1>b
    <2> QED BY <1>a, <1>b, <1>c, <2>1 DEF FileInv, FileTypes
  <1>4. CreateProgress'
    BY <1>b, <1>c, IdleShape DEF WriteStableImage, CreateProgress
  <1>5. FilesSane'
    BY <1>b DEF FileInv, FilesSane
  <1>6. OpenIsGenuine'
    BY <1>b, <1>c DEF FileInv, FileTypes, Registered, OpenIsGenuine, FileSuperblock
  <1>7. PromisedIsDurable'
    BY <1>a, <1>b, <1>c DEF FileInv, FileTypes, PromisedIsDurable
  <1>8. AllocationsHold'
    <2>1. ASSUME NEW t \in Threads, alloc[t].at = "TRUNCATE"
          PROVE  alloc[t].count = fs'[files[alloc[t].file_id]].pages
      <3>1. alloc[t].file_id \in FileIds /\ files[alloc[t].file_id] \in Paths
        BY <1>d, <2>1, AllocShape DEF FileInv, AllocationsHold, Registered, Opened
      <3> QED BY <1>b, <2>1, <3>1 DEF FileInv, AllocationsHold
    <2> QED BY <1>c, <2>1 DEF FileInv, AllocationsHold, Opened
  <1>9. GrantsReachEnd'
    BY <1>b, <1>c, <1>d DEF FileInv, GrantsReachEnd
  <1> QED BY <1>f, <1>1, <1>4, <1>5, <1>6, <1>7, <1>8, <1>9 DEF FileInv

LEMMA CrashPreserves ==
    ASSUME FileInv, Crash
    PROVE  FileInv'
  <1>a. /\ files' = [f \in FileIds |-> None] /\ handle' = [o \in Objects |-> None]
        /\ op' = Idle /\ alloc' = [t \in Threads |-> Ready] /\ mutex' = None
        /\ granted' = [f \in FileIds |-> << >>] /\ promised' = promised
    BY DEF Crash
  <1>b. \A p \in Paths : fs'[p] \in Survivors(fs[p])
    BY DEF Crash
  <1>c. ASSUME NEW p \in Paths
        PROVE  /\ fs'[p] \in File /\ fs'[p].exists = fs[p].exists
               /\ fs'[p].pages \in {fs[p].pages, fs[p].stable_pages}
               /\ fs'[p].stable_pages = fs'[p].pages /\ fs'[p].stable0 = fs'[p].page0
               /\ \/ fs'[p].page0 = Blank /\ fs'[p].pages = 0
                  \/ /\ fs'[p].page0 \in {fs[p].page0, fs[p].stable0, Torn(fs[p].page0)}
                     /\ fs'[p].pages # 0
                     /\ fs[p].page0 = fs[p].stable0 => fs'[p].page0 = fs[p].page0
    <2>1. PICK n \in {fs[p].pages, fs[p].stable_pages},
               p0 \in {fs[p].page0, fs[p].stable0}
                      \cup (IF fs[p].page0 = fs[p].stable0 THEN {} ELSE {Torn(fs[p].page0)}) :
            fs'[p] = [exists |-> fs[p].exists, pages |-> n, page0 |-> IF n = 0 THEN Blank ELSE p0,
                      stable_pages |-> n, stable0 |-> IF n = 0 THEN Blank ELSE p0]
      BY <1>b, SurvivorShape
    <2>2. fs[p] \in File
      BY DEF FileInv, FileTypes
    <2>3. /\ fs[p].page0 \in PageZero /\ fs[p].stable0 \in PageZero /\ n \in 0..MaxPages
          /\ fs[p].exists \in BOOLEAN
      BY <2>2 DEF File
    <2>4. Blank \in PageZero /\ Torn(fs[p].page0) \in PageZero
      BY <2>3 DEF PageZero, Blank, Torn
    <2> DEFINE q == IF n = 0 THEN Blank ELSE p0
    <2>5. /\ q \in PageZero
          /\ \/ q = Blank /\ n = 0
             \/ /\ q \in {fs[p].page0, fs[p].stable0, Torn(fs[p].page0)} /\ n # 0
                /\ fs[p].page0 = fs[p].stable0 => q = fs[p].page0
      BY <2>3, <2>4
    <2>6. fs'[p] = [exists |-> fs[p].exists, pages |-> n, page0 |-> q, stable_pages |-> n, stable0 |-> q]
      BY <2>1
    <2> HIDE DEF q
    <2> QED BY <2>3, <2>5, <2>6 DEF File
  <1>1. FileTypes'
    <2>1. fs' \in [Paths -> File]
      BY <1>c DEF Crash
    <2>2. \A p \in Paths : fs'[p].page0.intact => fs'[p].page0.sb \in FileSuperblock
      BY <1>c DEF FileInv, FileTypes, Blank, Torn
    <2>3. << >> \in Seq(0..MaxPages)
      OBVIOUS
    <2> QED BY <1>a, <1>c, <2>1, <2>2, <2>3 DEF FileInv, FileTypes
  <1>2. Registered'
    BY <1>a, PageFileAssumption DEF Registered, Opened
  <1>3. CallAlone'
    BY <1>a DEF CallAlone
  <1>4. CreateProgress'
    BY <1>a, IdleShape DEF CreateProgress
  <1>5. FilesSane'
    <2> SUFFICES ASSUME NEW p \in Paths
                 PROVE  /\ ~fs'[p].exists => fs'[p].page0 = Blank /\ fs'[p].stable0 = Blank
                        /\ fs'[p].page0 # Blank => fs'[p].pages >= 1
      BY DEF FilesSane
    <2>1. fs'[p].pages \in Nat
      BY <1>c, PageFileAssumption DEF File
    <2>2. fs'[p].page0 # Blank => fs'[p].pages >= 1
      BY <1>c, <2>1
    <2>3. ~fs[p].exists => fs[p].page0 = Blank /\ fs[p].stable0 = Blank
      BY DEF FileInv, FilesSane
    <2>4. Torn(Blank) = Blank
      BY DEF Torn, Blank
    <2> QED BY <1>c, <2>2, <2>3, <2>4
  <1>6. OpenIsGenuine'
    BY <1>a DEF OpenIsGenuine
  <1>7. PromisedIsDurable'
    <2> SUFFICES ASSUME NEW p \in Paths, promised[p] # None
                 PROVE  /\ fs'[p].page0 = Whole(promised[p]) /\ fs'[p].stable0 = Whole(promised[p])
                        /\ fs'[p].stable_pages >= 1
      BY <1>a DEF PromisedIsDurable
    <2>1. /\ fs[p].page0 = Whole(promised[p]) /\ fs[p].stable0 = Whole(promised[p])
          /\ fs[p].stable_pages >= 1
      BY DEF FileInv, PromisedIsDurable
    <2>2. fs[p].pages >= 1
      BY <2>1, WholeNotBlank DEF FileInv, FilesSane
    <2> QED BY <1>c, <2>1, <2>2
  <1>8. AllocationsHold'
    BY <1>a, IdleShape DEF AllocationsHold
  <1>9. GrantsReachEnd'
    BY <1>a DEF GrantsReachEnd
  <1>10. AllocationsUniqueContiguous'
    BY <1>a DEF AllocationsUniqueContiguous
  <1> QED BY <1>1, <1>2, <1>3, <1>4, <1>5, <1>6, <1>7, <1>8, <1>9, <1>10 DEF FileInv

LEMMA NextFileInv == FileInv /\ [Next]_fileVars => FileInv'
  <1> SUFFICES ASSUME FileInv, [Next]_fileVars PROVE FileInv'
    OBVIOUS
  <1>1. CASE UNCHANGED fileVars
    BY <1>1 DEF fileVars, FileInv, FileTypes, Registered, CallAlone, CreateProgress, FilesSane,
       OpenIsGenuine, PromisedIsDurable, AllocationsHold, GrantsReachEnd,
       AllocationsUniqueContiguous, Opened
  <1>2. CASE Next
    BY <1>2, CreateFilePreserves, CreateCountsPreserves, CreateExtendsPreserves,
       CreateWritesPreserves, CreateSyncsPreserves, OpenFilePreserves, OpenCountsPreserves,
       OpenReadsPreserves, FailsPreserves, DestroyPreserves, MoveAssignPreserves,
       AllocatePagePreserves, LocksExtensionPreserves, CountsPagesPreserves,
       TruncatesPreserves, AllocateFailsPreserves, WriteStableImagePreserves, CrashPreserves
       DEF Next
  <1> QED BY <1>1, <1>2

LEMMA FileInvHolds == Spec => []FileInv
  BY InitFileInv, NextFileInv, PTL DEF Spec

(* Whatever the paths, file ids, PageFile variables and threads, and whichever system call of *)
(* Create or Open fails or is cut off by a crash: between lifecycle calls every registration  *)
(* of the disk manager belongs to exactly one open PageFile.                                 *)
THEOREM NoRegistrationLeaks == Spec => []RegistrationsOwned
  <1>1. FileInv => RegistrationsOwned
    <2> SUFFICES ASSUME FileInv, op = Idle, NEW f \in FileIds
                 PROVE  Cardinality({o \in Objects : handle[o] # None /\ handle[o].file_id = f})
                          = IF files[f] = None THEN 0 ELSE 1
      BY DEF RegistrationsOwned
    <2> DEFINE S == {o \in Objects : handle[o] # None /\ handle[o].file_id = f}
    <2>1. CASE files[f] = None
      <3>1. S = {}
        BY <2>1 DEF FileInv, Registered
      <3> QED BY <2>1, <3>1, FS_EmptySet
    <2>2. CASE files[f] # None
      <3>1. PICK o \in Objects : Opened(o, f)
        BY <2>2 DEF FileInv, Registered
      <3>2. S = {o}
        BY <3>1 DEF FileInv, Registered, Opened
      <3>3. Cardinality({o}) = 1
        BY FS_Singleton
      <3> QED BY <2>2, <3>2, <3>3
    <2> QED BY <2>1, <2>2
  <1> QED BY <1>1, FileInvHolds, PTL

(* An open PageFile always manages the file whose page 0 carries its superblock: neither a    *)
(* Create that failed halfway nor a crash leaves a page 0 that a later Open mistakes for one. *)
THEOREM OpenFilesAreGenuine == Spec => []OpenIsGenuine
  <1>1. FileInv => OpenIsGenuine
    BY DEF FileInv
  <1> QED BY <1>1, FileInvHolds, PTL

(* What a successful Create or writeback promised is on the disk and stays there through any  *)
(* number of crashes, for any number of files.                                               *)
THEOREM PromisesSurviveCrashes == Spec => []PromisedIsDurable
  <1>1. FileInv => PromisedIsDurable
    BY DEF FileInv
  <1> QED BY <1>1, FileInvHolds, PTL

(* Any number of threads may extend any number of files at once: the page numbers one         *)
(* registration hands out are consecutive, and page 0 is never among them.                   *)
THEOREM AllocationsNeverCollide == Spec => []AllocationsUniqueContiguous
  <1>1. FileInv => AllocationsUniqueContiguous
    BY DEF FileInv
  <1> QED BY <1>1, FileInvHolds, PTL

=============================================================================
