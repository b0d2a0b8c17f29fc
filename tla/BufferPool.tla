----------------------------- MODULE BufferPool -----------------------------
(***************************************************************************)
(* The page cache of src/src/storage/buffer: threads fetch, create, change, *)
(* flush and evict pages, and retire files, over one mutex, one condition   *)
(* variable (state_changed_) and one latch per frame.                       *)
(*                                                                         *)
(* Every action is one region the code runs with mutex_ held, or one step   *)
(* it runs without it (an I/O call, a latch, an edit of page bytes).        *)
(* Page bytes are a version number: -1 is a torn image, 0 an extended page  *)
(* nobody initialised, and 1, 2, ... are valid images.                      *)
(***************************************************************************)
EXTENDS Integers, FiniteSets

CONSTANTS
    Threads,       \* client threads
    Frames,        \* the frames of the pool
    Files,         \* FileIds known to the DiskManager
    Registered,    \* the files registered with the pool in the initial state
    InitialPages,  \* data pages 1..InitialPages are on disk initially
    MaxPageNo,     \* bound: the disk is full beyond this page number
    MaxPins,       \* max_pin_count_
    MaxVersion,    \* bound: the newest version an edit may produce
    MaxCalls,      \* bound: calls made by all threads together
    Menu,          \* Menu[t]: the operations thread t may call
    Faults,        \* the I/O calls that may fail
    Frame0,        \* frame_id 0, what the frame_id of an entry holds before it has a frame
    NoPage, NoFrame

Operations == {"FETCH_READ", "FETCH_WRITE", "NEW_PAGE", "FLUSH_PAGE", "FLUSH_FILE",
               "FLUSH_ALL", "RETIRE_FLUSH", "RETIRE_DISCARD", "SHUTDOWN", "REGISTER"}

PageId == [file: Files, no: 1..MaxPageNo]

ASSUME ConstantsAssumption ==
    /\ Files \subseteq Nat /\ IsFiniteSet(Files) /\ Registered \subseteq Files
    /\ IsFiniteSet(Threads) /\ IsFiniteSet(Frames)
    /\ InitialPages \in Nat /\ MaxPageNo \in Nat /\ InitialPages =< MaxPageNo
    /\ MaxPins \in Nat \ {0} /\ MaxVersion \in Nat /\ MaxCalls \in Nat
    /\ Menu \in [Threads -> SUBSET Operations]
    /\ Faults \subseteq {"read", "write", "sync", "extend", "init", "count"}
    /\ Frame0 \in Frames /\ NoFrame \notin Frames /\ NoPage \notin PageId
    /\ Frames \cap {"NONE", "PENDING", "FAILED"} = {}

VARIABLES
    frames,      \* frames_: metadata and contents of every frame
    free_list,   \* free_list_, as a set: which free frame is taken first is left open
    page_table,  \* page_table_
    files,       \* files_: the registry
    quiescing,   \* quiescing_
    asleep,      \* threads waiting on state_changed_ that no notification has reached
    pc, local,   \* where each thread is, and its local variables
    cache,       \* what a read of each page returns
    stable,      \* what survives a power loss
    physical,    \* page count of each file on disk, page 0 included
    calls        \* calls made so far

poolVars == <<frames, free_list, page_table, files>>
diskVars == <<cache, stable, physical>>
vars == <<frames, free_list, page_table, files, quiescing, asleep, pc, local,
          cache, stable, physical, calls>>

Version == Int

(* BufferFrame *)
Frame == [state: {"FREE", "LOADING", "RESIDENT", "EVICTING"},
          io: {"NONE", "READ_IN_PROGRESS", "WRITEBACK_IN_PROGRESS"},
          page: PageId \cup {NoPage}, pin: Nat, dirty: BOOLEAN,
          gen: Nat, epoch: Nat, ver: Version]

(* PageTableEntry; claims counts the fetches that share the load, and is 0 when load is null. *)
Entry == [state: {"ABSENT", "LOAD_INTENT", "LOADING", "RESIDENT", "EVICTING"},
          frame: Frames, claims: Nat]

Absent == [state |-> "ABSENT", frame |-> Frame0, claims |-> 0]
Intent == [state |-> "LOAD_INTENT", frame |-> Frame0, claims |-> 1]

(* FileEntry; a file that is not in files_ is CLOSED. *)
FileEntry == [state: {"CLOSED", "ACTIVE", "RETIRING"}, published: Nat, creating: BOOLEAN]

Closed == [state |-> "CLOSED", published |-> 0, creating |-> FALSE]

Labels == {"idle", "pin", "join", "read", "loaded", "write", "sync", "wrote", "copy",
           "latch", "reading", "writing", "edited", "unpin", "turn", "extend", "extended",
           "build", "start_flush", "flush", "retire", "drain", "quiesce", "shutdown",
           "register", "emplace", "threw"}

(* The locals of a call: its arguments, the frame it works on, the outcome of the load it   *)
(* joined, the image it writes back, the pages it has still to flush, what the last I/O     *)
(* call returned, and two observations: the versions a flush was asked to make stable       *)
(* (goal) and how the call ended (result).                                                  *)
Local == [op: Operations \cup {"NONE"}, file: Files \cup {NoFrame}, page: PageId \cup {NoPage},
          frame: Frames \cup {NoFrame}, load: Frames \cup {"NONE", "PENDING", "FAILED"},
          target: PageId \cup {NoPage}, img: Version, gen: Nat, epoch: Nat, todo: SUBSET PageId,
          failed: BOOLEAN, ok: BOOLEAN, count: Nat, goal: [PageId -> Version],
          result: {"none", "ok", "error"}]

Fresh == [op |-> "NONE", file |-> NoFrame, page |-> NoPage, frame |-> NoFrame,
          load |-> "NONE", target |-> NoPage, img |-> 0, gen |-> 0, epoch |-> 0, todo |-> {},
          failed |-> FALSE, ok |-> TRUE, count |-> 0, goal |-> [p \in PageId |-> 0], result |-> "none"]

(* Constructor, after the RegisterFile calls for the files in Registered. *)
Init ==
    /\ frames = [f \in Frames |->
                    [state |-> "FREE", io |-> "NONE", page |-> NoPage, pin |-> 0,
                     dirty |-> FALSE, gen |-> 0, epoch |-> 0, ver |-> 0]]
    /\ free_list = Frames
    /\ page_table = [p \in PageId |-> Absent]
    /\ files = [d \in Files |->
                   IF d \in Registered
                   THEN [state |-> "ACTIVE", published |-> InitialPages + 1, creating |-> FALSE]
                   ELSE Closed]
    /\ quiescing = FALSE
    /\ asleep = {}
    /\ pc = [t \in Threads |-> "idle"]
    /\ local = [t \in Threads |-> Fresh]
    /\ cache = [p \in PageId |-> IF p.no =< InitialPages THEN 1 ELSE 0]
    /\ stable = cache
    /\ physical = [d \in Files |-> InitialPages + 1]
    /\ calls = 0

-----------------------------------------------------------------------------
(* Steps of control.                                                       *)

At(t, l) == pc[t] = l /\ t \notin asleep
Goto(t, l) == pc' = [pc EXCEPT ![t] = l]

(* Mutation: notify_one for notify_all. *)
NotifyOne == asleep' \in (IF asleep = {} THEN {{}} ELSE {asleep \ {u} : u \in asleep})
NotifyAll == asleep' = {}

MayFail(call) == IF call \in Faults THEN BOOLEAN ELSE {TRUE}

(* The call returns: an error, a status, or (at the end of a guard's life) nothing. *)
Return(t, res) ==
    /\ Goto(t, "idle")
    /\ local' = [local EXCEPT ![t] = [Fresh EXCEPT !.result = res]]

(* Threads at one of labels with a guard on frame f. *)
LatchHolders(f, labels) == {u \in Threads : pc[u] \in labels /\ local[u].frame = f}

InMemory(p) == page_table[p].state \in {"RESIDENT", "EVICTING"}

(* What a fetch that latched frame f next would read. *)
Published(f) == IF LatchHolders(f, {"edited"}) = {} THEN frames[f].ver ELSE frames[f].ver - 1

(* The dirty contents a call of op, on page p or its file, finds in memory: what a flush   *)
(* is asked to make stable.                                                                *)
Goal(op, p) ==
    [q \in PageId |->
        IF /\ \/ op = "FLUSH_PAGE" /\ q = p
              \/ op = "FLUSH_FILE" /\ q.file = p.file
              \/ op = "FLUSH_ALL"
           /\ InMemory(q)
           /\ frames[page_table[q].frame].dirty
        THEN Published(page_table[q].frame) ELSE 0]

(* A client calls operation op, on page p or on the file of p. *)
Call(t, op, p) ==
    /\ At(t, "idle")
    /\ calls < MaxCalls
    /\ op \in Menu[t]
    /\ calls' = calls + 1
    /\ Goto(t, CASE op \in {"FETCH_READ", "FETCH_WRITE"} -> "pin"
                 [] op = "NEW_PAGE" -> "turn"
                 [] op \in {"FLUSH_PAGE", "FLUSH_FILE", "FLUSH_ALL"} -> "start_flush"
                 [] op \in {"RETIRE_FLUSH", "RETIRE_DISCARD"} -> "retire"
                 [] op = "SHUTDOWN" -> "quiesce"
                 [] op = "REGISTER" -> "register")
    /\ local' = [local EXCEPT ![t] =
                    [Fresh EXCEPT !.op = op, !.file = p.file,
                                  !.page = IF op \in {"FETCH_READ", "FETCH_WRITE", "FLUSH_PAGE"}
                                           THEN p ELSE NoPage,
                                  !.goal = Goal(op, p)]]
    /\ UNCHANGED <<poolVars, quiescing, asleep, diskVars>>

-----------------------------------------------------------------------------
(* Frames.                                                                 *)

ResetFrame(fr, f) ==
    [fr EXCEPT ![f] = [@ EXCEPT !.state = "FREE", !.io = "NONE", !.page = NoPage,
                                !.pin = 0, !.dirty = FALSE, !.ver = 0]]

(* FREE -> LOADING: the frame begins a new residency. *)
Bind(fr, f, p, io) ==
    [fr EXCEPT ![f] = [@ EXCEPT !.state = "LOADING", !.io = io, !.page = p,
                                !.dirty = FALSE, !.epoch = fr[f].epoch + 1, !.ver = 0]]

(* Mutation: pins are not looked at. *)
IsVictimEligibleIfPinned(f) ==
    /\ frames[f].state = "RESIDENT"
    /\ frames[f].io = "NONE"
    /\ files[frames[f].page.file].state = "ACTIVE"

IsVictimEligible(f) ==
    /\ frames[f].state = "RESIDENT"
    /\ frames[f].pin = 0
    /\ frames[f].io = "NONE"
    /\ files[frames[f].page.file].state = "ACTIVE"

(* Mutation: every victim is taken for clean. *)
NeverWritesBack(f) == FALSE

(* A victim is written back before its frame is reused. *)
NeedsWriteback(f) == frames[f].dirty

(* Threads sharing the load of page p that have not seen its outcome. *)
Joiners(p) == {j \in Threads : pc[j] = "join" /\ local[j].page = p /\ local[j].load = "PENDING"}

(* The shared LoadOperation is done: r is its frame or its failure. *)
Resolve(p, r) ==
    [j \in Threads |-> IF j \in Joiners(p) THEN [local[j] EXCEPT !.load = r] ELSE local[j]]

(* AcquireFrame hands the frame f, reset, to its requester: LoadPage binds it before the    *)
(* read, NewPage holds it while it reserves a page number.                                  *)
Granted(t, f, fr, pt) ==
    LET p == local[t].page IN
    IF local[t].op = "NEW_PAGE"
    THEN /\ frames' = fr
         /\ page_table' = pt
         /\ Goto(t, "extend")
         /\ local' = [local EXCEPT ![t] = [@ EXCEPT !.frame = f,
                                                    !.count = files[local[t].file].published]]
    ELSE /\ frames' = Bind(fr, f, p, "READ_IN_PROGRESS")
         /\ page_table' = [pt EXCEPT ![p] = [@ EXCEPT !.state = "LOADING", !.frame = f]]
         /\ Goto(t, "read")
         /\ local' = [local EXCEPT ![t].frame = f]

(* AcquireFrame fails: LoadPage drops its intent and fails everyone who joined it, NewPage *)
(* gives up its turn.                                                                      *)
Refused(t, pt, fs) ==
    LET p == local[t].page IN
    /\ NotifyAll
    /\ Goto(t, "idle")
    /\ IF local[t].op = "NEW_PAGE"
       THEN /\ files' = [fs EXCEPT ![local[t].file].creating = FALSE]
            /\ page_table' = pt
            /\ local' = [local EXCEPT ![t] = [Fresh EXCEPT !.result = "error"]]
       ELSE /\ files' = fs
            /\ page_table' = [pt EXCEPT ![p] = Absent]
            /\ local' = [Resolve(p, "FAILED") EXCEPT ![t] = [Fresh EXCEPT !.result = "error"]]

(* AcquireFrame up to its first unlock; pt and fs are the page table and the registry as   *)
(* the caller left them. A dirty victim is copied and written back with the mutex free.    *)
AcquireFrame(t, pt, fs) ==
    \/ \E f \in free_list :
          /\ free_list' = free_list \ {f}
          /\ Granted(t, f, frames, pt)
          /\ files' = fs
          /\ UNCHANGED asleep
    \/ /\ free_list = {}
       /\ \E f \in Frames :
             /\ IsVictimEligible(f)
             /\ ~NeedsWriteback(f)
             /\ Granted(t, f, ResetFrame(frames, f), [pt EXCEPT ![frames[f].page] = Absent])
       /\ NotifyAll
       /\ files' = fs
       /\ UNCHANGED free_list
    \/ /\ free_list = {}
       /\ \E f \in Frames :
             /\ IsVictimEligible(f)
             /\ NeedsWriteback(f)
             /\ frames' = [frames EXCEPT ![f] = [@ EXCEPT !.state = "EVICTING",
                                                          !.io = "WRITEBACK_IN_PROGRESS"]]
             /\ page_table' = [pt EXCEPT ![frames[f].page].state = "EVICTING"]
             /\ local' = [local EXCEPT ![t] = [@ EXCEPT !.frame = f, !.target = frames[f].page,
                                                         !.img = frames[f].ver]]
       /\ Goto(t, "write")
       /\ files' = fs
       /\ UNCHANGED <<free_list, asleep>>
    \/ /\ free_list = {}
       /\ \A f \in Frames : ~IsVictimEligible(f)
       /\ Refused(t, pt, fs)
       /\ UNCHANGED <<frames, free_list>>

(* AcquireFrame after the writeback of its victim: pass the frame on, or restore the       *)
(* victim as a dirty resident page and fail the requester.                                 *)
FinishEviction(t) ==
    /\ At(t, "wrote")
    /\ local[t].op \in {"FETCH_READ", "FETCH_WRITE", "NEW_PAGE"}
    /\ LET f == local[t].frame
           victim == local[t].target
       IN \/ /\ local[t].ok
             /\ Granted(t, f, ResetFrame(frames, f), [page_table EXCEPT ![victim] = Absent])
             /\ NotifyAll
             /\ UNCHANGED files
          \/ /\ ~local[t].ok
             /\ frames' = [frames EXCEPT ![f] = [@ EXCEPT !.state = "RESIDENT", !.io = "NONE"]]
             /\ Refused(t, [page_table EXCEPT ![victim].state = "RESIDENT"], files)
    /\ UNCHANGED <<free_list, quiescing, diskVars, calls>>

-----------------------------------------------------------------------------
(* Fetching.                                                               *)

(* CheckFetchableLocked; page numbers start at 1 here, page 0 is never served. *)
Fetchable(p) ==
    /\ ~quiescing
    /\ files[p.file].state = "ACTIVE"
    /\ p.no < files[p.file].published

Loading(p) == page_table[p].state \in {"LOAD_INTENT", "LOADING"}

(* Every error PinPage returns before it owns a claim or a pin. *)
FetchRefused(t) ==
    /\ At(t, "pin")
    /\ LET p == local[t].page IN
          \/ ~Fetchable(p)
          \/ page_table[p].state = "RESIDENT" /\ frames[page_table[p].frame].pin >= MaxPins
          \/ Loading(p) /\ (page_table[p].claims = 0 \/ page_table[p].claims >= MaxPins)
    /\ Return(t, "error")
    /\ UNCHANGED <<poolVars, quiescing, asleep, diskVars, calls>>

PinResident(t) ==
    /\ At(t, "pin")
    /\ LET p == local[t].page
           f == page_table[p].frame
       IN /\ Fetchable(p)
          /\ page_table[p].state = "RESIDENT"
          /\ frames[f].pin < MaxPins
          /\ frames' = [frames EXCEPT ![f].pin = @ + 1]
          /\ local' = [local EXCEPT ![t].frame = f]
    /\ Goto(t, "latch")
    /\ UNCHANGED <<free_list, page_table, files, quiescing, asleep, diskVars, calls>>

(* The page is being evicted: wait for the outcome, then start again. *)
AwaitEviction(t) ==
    /\ At(t, "pin")
    /\ Fetchable(local[t].page)
    /\ page_table[local[t].page].state = "EVICTING"
    /\ asleep' = asleep \cup {t}
    /\ UNCHANGED <<poolVars, quiescing, pc, local, diskVars, calls>>

(* Mutation: the joined fetch leaves no claim. *)
JoinLoadUnclaimed(t) ==
    /\ At(t, "pin")
    /\ Fetchable(local[t].page)
    /\ Loading(local[t].page)
    /\ asleep' = asleep \cup {t}
    /\ Goto(t, "join")
    /\ local' = [local EXCEPT ![t].load = "PENDING"]
    /\ UNCHANGED <<poolVars, quiescing, diskVars, calls>>

JoinLoad(t) ==
    /\ At(t, "pin")
    /\ LET p == local[t].page IN
          /\ Fetchable(p)
          /\ Loading(p)
          /\ page_table[p].claims \in 1..(MaxPins - 1)
          /\ page_table' = [page_table EXCEPT ![p].claims = @ + 1]
    /\ asleep' = asleep \cup {t}
    /\ Goto(t, "join")
    /\ local' = [local EXCEPT ![t].load = "PENDING"]
    /\ UNCHANGED <<frames, free_list, files, quiescing, diskVars, calls>>

(* A joined fetch wakes up: its claim has become a pin, or the load has failed, or it was *)
(* woken for something else.                                                              *)
JoinWake(t) ==
    /\ At(t, "join")
    /\ \/ /\ local[t].load = "PENDING"
          /\ asleep' = asleep \cup {t}
          /\ UNCHANGED <<pc, local>>
       \/ /\ local[t].load = "FAILED"
          /\ Return(t, "error")
          /\ UNCHANGED asleep
       \/ /\ local[t].load \in Frames
          /\ Goto(t, "latch")
          /\ local' = [local EXCEPT ![t] = [@ EXCEPT !.frame = local[t].load, !.load = "NONE"]]
          /\ UNCHANGED asleep
    /\ UNCHANGED <<poolVars, quiescing, diskVars, calls>>

(* LoadPage up to its first unlock. *)
LoadPage(t) ==
    /\ At(t, "pin")
    /\ LET p == local[t].page IN
          /\ Fetchable(p)
          /\ page_table[p].state = "ABSENT"
          /\ AcquireFrame(t, [page_table EXCEPT ![p] = Intent], files)
    /\ UNCHANGED <<quiescing, diskVars, calls>>

(* PageIo::ReadPage into the loading frame; a failed read leaves an arbitrary prefix. *)
ReadPage(t) ==
    /\ At(t, "read")
    /\ \E ok \in MayFail("read") :
          /\ frames' = [frames EXCEPT ![local[t].frame].ver =
                                          IF ok THEN cache[local[t].page] ELSE -1]
          /\ local' = [local EXCEPT ![t].ok = ok]
    /\ Goto(t, "loaded")
    /\ UNCHANGED <<free_list, page_table, files, quiescing, asleep, diskVars, calls>>

(* Mutation: a load is published although its file is retiring. *)
LoadFailsUnlessRead(t) == ~local[t].ok \/ frames[local[t].frame].ver < 1

(* LoadFailureLocked: the read, the validation, or the retirement of the file. *)
LoadFails(t) ==
    \/ ~local[t].ok
    \/ frames[local[t].frame].ver < 1
    \/ files[local[t].page.file].state # "ACTIVE"

(* LoadPage after the read: publish, turning every claim into a pin, or drop the intent. *)
FinishLoad(t) ==
    /\ At(t, "loaded")
    /\ LET p == local[t].page
           f == local[t].frame
       IN \/ /\ LoadFails(t)
             /\ frames' = ResetFrame(frames, f)
             /\ free_list' = free_list \cup {f}
             /\ page_table' = [page_table EXCEPT ![p] = Absent]
             /\ local' = [Resolve(p, "FAILED") EXCEPT ![t] = [Fresh EXCEPT !.result = "error"]]
             /\ Goto(t, "idle")
          \/ /\ ~LoadFails(t)
             /\ frames' = [frames EXCEPT ![f] = [@ EXCEPT !.state = "RESIDENT", !.io = "NONE",
                                                          !.pin = page_table[p].claims]]
             /\ page_table' = [page_table EXCEPT ![p] = [@ EXCEPT !.state = "RESIDENT",
                                                                  !.claims = 0]]
             /\ local' = Resolve(p, f)
             /\ Goto(t, "latch")
             /\ UNCHANGED free_list
    /\ NotifyAll
    /\ UNCHANGED <<files, quiescing, diskVars, calls>>

-----------------------------------------------------------------------------
(* Guards.                                                                 *)

(* MakeGuard: the pin is held, wait for the latch. *)
Latch(t) ==
    /\ At(t, "latch")
    /\ LatchHolders(local[t].frame, {"writing", "edited"}) = {}
    /\ \/ local[t].op = "FETCH_READ" /\ Goto(t, "reading")
       \/ /\ local[t].op # "FETCH_READ"
          /\ LatchHolders(local[t].frame, {"reading"}) = {}
          /\ Goto(t, "writing")
    /\ UNCHANGED <<poolVars, quiescing, asleep, local, diskVars, calls>>

(* The owner of a write guard changes the page's bytes ... *)
Edit(t) ==
    /\ At(t, "writing")
    /\ frames[local[t].frame].ver < MaxVersion
    /\ frames' = [frames EXCEPT ![local[t].frame].ver = @ + 1]
    /\ Goto(t, "edited")
    /\ UNCHANGED <<free_list, page_table, files, quiescing, asleep, local, diskVars, calls>>

(* ... and reports the change: MarkDirty calls PublishMutation. *)
MarkDirty(t) ==
    /\ At(t, "edited")
    /\ LET f == local[t].frame IN
          frames' = [frames EXCEPT ![f] = [@ EXCEPT !.gen = frames[f].gen + 1, !.dirty = TRUE]]
    /\ Goto(t, "writing")
    /\ UNCHANGED <<free_list, page_table, files, quiescing, asleep, local, diskVars, calls>>

(* ReleaseLatchAndPin drops the latch first ... *)
ReleaseLatch(t) ==
    /\ At(t, "reading") \/ At(t, "writing")
    /\ Goto(t, "unpin")
    /\ UNCHANGED <<poolVars, quiescing, asleep, local, diskVars, calls>>

(* Mutation: the pin is given back twice. *)
UnpinTwice(t) ==
    /\ At(t, "unpin")
    /\ LET f == local[t].frame IN
          /\ frames' = [frames EXCEPT ![f].pin = @ - 2]
          /\ asleep' = IF frames[f].pin = 1 THEN {} ELSE asleep
    /\ Return(t, "ok")
    /\ UNCHANGED <<free_list, page_table, files, quiescing, diskVars, calls>>

(* ... then the pin. *)
Unpin(t) ==
    /\ At(t, "unpin")
    /\ LET f == local[t].frame IN
          /\ frames' = [frames EXCEPT ![f].pin = IF @ = 0 THEN 0 ELSE @ - 1]
          /\ asleep' = IF frames[f].pin = 1 THEN {} ELSE asleep
    /\ Return(t, "ok")
    /\ UNCHANGED <<free_list, page_table, files, quiescing, diskVars, calls>>

-----------------------------------------------------------------------------
(* New pages.                                                              *)

(* Mutation: creators do not wait for each other. *)
TurnNeverTaken(d) == FALSE

(* Another NewPage is running for the file. *)
TurnTaken(d) == files[d].creating

(* Mutation: a failed creation publishes its page number. *)
EndTurnAdvances(d) ==
    [files EXCEPT ![d] = [@ EXCEPT !.creating = FALSE, !.published = files[d].published + 1]]

(* finish: the file's turn is free again. *)
EndTurn(d) == [files EXCEPT ![d].creating = FALSE]

(* WaitForNewPageTurn, and NewPage up to its first unlock. *)
NewPage(t) ==
    /\ At(t, "turn")
    /\ LET d == local[t].file
           open == ~quiescing /\ files[d].state = "ACTIVE"
       IN \/ /\ ~open
             /\ Return(t, "error")
             /\ UNCHANGED <<poolVars, asleep>>
          \/ /\ open
             /\ TurnTaken(d)
             /\ asleep' = asleep \cup {t}
             /\ UNCHANGED <<poolVars, pc, local>>
          \/ /\ open
             /\ ~TurnTaken(d)
             /\ AcquireFrame(t, page_table, [files EXCEPT ![d].creating = TRUE])
    /\ UNCHANGED <<quiescing, diskVars, calls>>

(* ReserveNewPageNo: reuse an unpublished page at the tail, or append one. *)
ReserveNewPageNo(t) ==
    /\ At(t, "extend")
    /\ LET d == local[t].file
           published == local[t].count
           old == physical[d]
       IN \/ /\ "count" \in Faults
             /\ local' = [local EXCEPT ![t].ok = FALSE]
             /\ UNCHANGED diskVars
          \/ /\ old > published
             /\ local' = [local EXCEPT ![t].ok = TRUE]
             /\ UNCHANGED diskVars
          \/ /\ old =< published
             /\ "extend" \in Faults \/ old > MaxPageNo
             /\ local' = [local EXCEPT ![t].ok = FALSE]
             /\ UNCHANGED diskVars
          \/ /\ old =< published
             /\ old =< MaxPageNo
             /\ physical' = [physical EXCEPT ![d] = old + 1]
             /\ cache' = [cache EXCEPT ![[file |-> d, no |-> old]] = 0]
             /\ stable' = [stable EXCEPT ![[file |-> d, no |-> old]] = 0]
             /\ local' = [local EXCEPT ![t] = [@ EXCEPT !.ok = TRUE, !.count = old]]
    /\ Goto(t, "extended")
    /\ UNCHANGED <<poolVars, quiescing, asleep, calls>>

(* NewPage binds its frame to the reserved page number as private and LOADING. *)
BindNewPage(t) ==
    /\ At(t, "extended")
    /\ LET d == local[t].file
           f == local[t].frame
           p == [file |-> d, no |-> local[t].count]
           reserved == local[t].ok /\ local[t].count # 0 /\ local[t].count = files[d].published
       IN \/ /\ ~reserved
             /\ free_list' = free_list \cup {f}
             /\ files' = EndTurn(d)
             /\ NotifyAll
             /\ Return(t, "error")
             /\ UNCHANGED <<frames, page_table>>
          \/ /\ reserved
             /\ frames' = Bind(frames, f, p, "NONE")
             /\ page_table' = [page_table EXCEPT ![p] =
                                  [state |-> "LOADING", frame |-> f, claims |-> 0]]
             /\ local' = [local EXCEPT ![t] = [@ EXCEPT !.page = p, !.count = 0]]
             /\ Goto(t, "build")
             /\ UNCHANGED <<free_list, files, asleep>>
    /\ UNCHANGED <<quiescing, diskVars, calls>>

(* The initializer and the validator have run on the private frame: publish the page and  *)
(* the new bound together, or leave the page unpublished at the tail of the file.         *)
FinishNewPage(t) ==
    /\ At(t, "build")
    /\ LET d == local[t].file
           f == local[t].frame
           p == local[t].page
       IN \E built \in MayFail("init") :
          \/ /\ ~built \/ files[d].state # "ACTIVE"
             /\ page_table' = [page_table EXCEPT ![p] = Absent]
             /\ frames' = ResetFrame(frames, f)
             /\ free_list' = free_list \cup {f}
             /\ files' = EndTurn(d)
             /\ Return(t, "error")
          \/ /\ built /\ files[d].state = "ACTIVE"
             /\ files' = [files EXCEPT ![d] = [@ EXCEPT !.published = p.no + 1,
                                                        !.creating = FALSE]]
             /\ frames' = [frames EXCEPT ![f] = [@ EXCEPT !.state = "RESIDENT", !.pin = 1,
                                                          !.dirty = TRUE, !.ver = 1,
                                                          !.gen = frames[f].gen + 1]]
             /\ page_table' = [page_table EXCEPT ![p].state = "RESIDENT"]
             /\ Goto(t, "latch")
             /\ UNCHANGED <<free_list, local>>
    /\ NotifyAll
    /\ UNCHANGED <<quiescing, diskVars, calls>>

-----------------------------------------------------------------------------
(* Stable writeback: the three unlocked steps of a flush or an eviction.    *)

(* Mutation: the image is copied without the latch. *)
CopyImageUnlatched(t) ==
    /\ At(t, "copy")
    /\ local' = [local EXCEPT ![t] = [@ EXCEPT !.img = frames[local[t].frame].ver,
                                               !.gen = frames[local[t].frame].gen]]
    /\ Goto(t, "write")
    /\ UNCHANGED <<poolVars, quiescing, asleep, diskVars, calls>>

(* WritebackResident copies the image, with its generation, under the shared latch. *)
CopyImage(t) ==
    /\ At(t, "copy")
    /\ LatchHolders(local[t].frame, {"writing", "edited"}) = {}
    /\ local' = [local EXCEPT ![t] = [@ EXCEPT !.img = frames[local[t].frame].ver,
                                               !.gen = frames[local[t].frame].gen]]
    /\ Goto(t, "write")
    /\ UNCHANGED <<poolVars, quiescing, asleep, diskVars, calls>>

(* WriteStableImage, pwrite: a failed write may leave a torn page. *)
WriteImage(t) ==
    /\ At(t, "write")
    /\ \E ok \in MayFail("write") :
          \/ /\ ok
             /\ cache' = [cache EXCEPT ![local[t].target] = local[t].img]
             /\ Goto(t, "sync")
             /\ UNCHANGED local
          \/ /\ ~ok
             /\ cache' = cache \/ cache' = [cache EXCEPT ![local[t].target] = -1]
             /\ local' = [local EXCEPT ![t].ok = FALSE]
             /\ Goto(t, "wrote")
    /\ UNCHANGED <<poolVars, quiescing, asleep, stable, physical, calls>>

(* WriteStableImage, fdatasync: success makes everything written to the file stable; a    *)
(* failure promises nothing.                                                              *)
SyncFile(t) ==
    /\ At(t, "sync")
    /\ \E ok \in MayFail("sync") :
          /\ local' = [local EXCEPT ![t].ok = ok]
          /\ stable' = [p \in PageId |-> IF ok /\ p.file = local[t].target.file
                                         THEN cache[p] ELSE stable[p]]
    /\ Goto(t, "wrote")
    /\ UNCHANGED <<poolVars, quiescing, asleep, cache, physical, calls>>

-----------------------------------------------------------------------------
(* Flushing and closing. In this section l is the local record of the calling thread, fr  *)
(* and fs the frames and the registry, and aw the sleepers, as the caller left them in    *)
(* the same critical section.                                                             *)

PageLeq(p, q) == p.file < q.file \/ (p.file = q.file /\ p.no =< q.no)

(* Mutation: a page under eviction is taken for flushed. *)
UnflushedIfResident(fr, p) ==
    page_table[p].state = "RESIDENT" /\ fr[page_table[p].frame].dirty

(* FlushPageLocked returns at once for a page that is not Unflushed. *)
Unflushed(fr, p) ==
    \/ page_table[p].state = "EVICTING"
    \/ page_table[p].state = "RESIDENT" /\ fr[page_table[p].frame].dirty

(* Mutation: the mappings of the closed file stay. *)
CloseFileKeepsMappings(t, l, fr, fs) ==
    LET freed == {page_table[p].frame : p \in {q \in PageId : q.file = l.file
                                                  /\ page_table[q].state # "ABSENT"}}
    IN /\ frames' = [f \in Frames |-> IF f \in freed THEN ResetFrame(fr, f)[f] ELSE fr[f]]
       /\ free_list' = free_list \cup freed
       /\ files' = [fs EXCEPT ![l.file] = Closed]
       /\ NotifyAll
       /\ Return(t, "ok")
       /\ UNCHANGED page_table

(* RetireFile after a successful flush: drop mappings, free the frames, close the file. *)
CloseFile(t, l, fr, fs) ==
    LET entries == {p \in PageId : p.file = l.file /\ page_table[p].state # "ABSENT"}
        freed == {page_table[p].frame : p \in entries}
    IN /\ page_table' = [p \in PageId |-> IF p \in entries THEN Absent ELSE page_table[p]]
       /\ frames' = [f \in Frames |-> IF f \in freed THEN ResetFrame(fr, f)[f] ELSE fr[f]]
       /\ free_list' = free_list \cup freed
       /\ files' = [fs EXCEPT ![l.file] = Closed]
       /\ NotifyAll
       /\ Return(t, "ok")

(* Mutation: the file is closed although a page could not be flushed. *)
FlushDoneAnyway(t, l, fr, fs, aw) ==
    \/ /\ l.op = "RETIRE_FLUSH"
       /\ CloseFile(t, l, fr, fs)
    \/ /\ l.op # "RETIRE_FLUSH"
       /\ frames' = fr
       /\ files' = fs
       /\ asleep' = aw
       /\ Return(t, IF l.failed THEN "error" ELSE "ok")
       /\ UNCHANGED <<free_list, page_table>>

(* The flush loop is done: the operation that ran it returns, or goes on to close the file. *)
FlushDone(t, l, fr, fs, aw) ==
    \/ /\ l.op = "RETIRE_FLUSH"
       /\ ~l.failed
       /\ CloseFile(t, l, fr, fs)
    \/ /\ l.op # "RETIRE_FLUSH" \/ l.failed
       /\ frames' = fr
       /\ files' = fs
       /\ asleep' = aw
       /\ Return(t, IF l.failed THEN "error" ELSE "ok")
       /\ UNCHANGED <<free_list, page_table>>

(* FlushMatching and FlushPageLocked up to the next unlock: pass over the pages of l.todo, *)
(* in PageId order, that need nothing; join the writeback of the first one that does, or   *)
(* reserve one.                                                                            *)
FlushPages(t, l, fr, fs, aw) ==
    LET live == {p \in l.todo : Unflushed(fr, p)} IN
    \/ /\ live = {}
       /\ FlushDone(t, l, fr, fs, aw)
    \/ \E p \in live :
       LET f == page_table[p].frame
           rest == [l EXCEPT !.todo = {q \in l.todo : PageLeq(p, q)}, !.target = p]
           busy == page_table[p].state = "EVICTING" \/ fr[f].io # "NONE"
       IN /\ \A q \in live : PageLeq(p, q)
          /\ \/ /\ busy
                /\ frames' = fr
                /\ asleep' = aw \cup {t}
                /\ Goto(t, "flush")
                /\ local' = [local EXCEPT ![t] = rest]
             \/ /\ ~busy
                /\ frames' = [fr EXCEPT ![f].io = "WRITEBACK_IN_PROGRESS"]
                /\ asleep' = aw
                /\ Goto(t, "copy")
                /\ local' = [local EXCEPT ![t] = [rest EXCEPT !.frame = f,
                                                              !.epoch = fr[f].epoch]]
          /\ files' = fs
          /\ UNCHANGED <<free_list, page_table>>

(* The dirty resident pages FlushMatching collects; d is a file or NoFrame for all files. *)
DirtyResident(d) ==
    {p \in PageId : /\ d = NoFrame \/ p.file = d
                    /\ page_table[p].state = "RESIDENT"
                    /\ frames[page_table[p].frame].dirty}

(* FlushPage, FlushFile and FlushAll. *)
Flush(t) ==
    /\ At(t, "start_flush")
    /\ LET l == local[t] IN
          \/ /\ l.op = "FLUSH_PAGE"
             /\ FlushPages(t, [l EXCEPT !.todo = {l.page}], frames, files, asleep)
          \/ /\ l.op = "FLUSH_FILE"
             /\ files[l.file].state = "CLOSED"
             /\ Return(t, "error")
             /\ UNCHANGED <<poolVars, asleep>>
          \/ /\ l.op = "FLUSH_FILE"
             /\ files[l.file].state # "CLOSED"
             /\ FlushPages(t, [l EXCEPT !.todo = DirtyResident(l.file)], frames, files, asleep)
          \/ /\ l.op = "FLUSH_ALL"
             /\ FlushPages(t, [l EXCEPT !.todo = DirtyResident(NoFrame)], frames, files, asleep)
    /\ UNCHANGED <<quiescing, diskVars, calls>>

(* FlushPageLocked, woken while it waited for somebody else's writeback or eviction. *)
FlushWake(t) ==
    /\ At(t, "flush")
    /\ FlushPages(t, local[t], frames, files, asleep)
    /\ UNCHANGED <<quiescing, diskVars, calls>>

(* Mutation: a mutation published since the copy is not noticed. *)
ImageIsAnyGeneration(l) ==
    l.ok /\ frames[l.frame].page = l.target /\ frames[l.frame].epoch = l.epoch

(* Mutation: the outcome of the write and of fdatasync is not looked at. *)
ImageIsCurrentIfLost(l) ==
    /\ frames[l.frame].page = l.target
    /\ frames[l.frame].epoch = l.epoch
    /\ frames[l.frame].gen = l.gen

(* The frame still holds the residency and the generation that were written. *)
ImageIsCurrent(l) ==
    /\ l.ok
    /\ frames[l.frame].page = l.target
    /\ frames[l.frame].epoch = l.epoch
    /\ frames[l.frame].gen = l.gen

(* Mutation: a failed writeback is tried again. *)
NothingGivenUp(l) == {}

(* A page whose writeback failed: FlushMatching notes the error and goes on. *)
GivenUp(l) == IF l.ok THEN {} ELSE {l.target}

(* WritebackResident's reconciliation: clean only if the residency and the generation are *)
(* those of the image.                                                                    *)
Reconcile(t) ==
    /\ At(t, "wrote")
    /\ local[t].op \notin {"FETCH_READ", "FETCH_WRITE", "NEW_PAGE"}
    /\ LET l == local[t]
           f == l.frame
           fr == [frames EXCEPT ![f] = [@ EXCEPT !.io = "NONE",
                                                 !.dirty = frames[f].dirty /\ ~ImageIsCurrent(l)]]
           rest == [l EXCEPT !.todo = l.todo \ GivenUp(l),
                             !.failed = l.failed \/ ~l.ok, !.ok = TRUE,
                             !.frame = NoFrame, !.img = 0, !.gen = 0, !.epoch = 0]
       IN FlushPages(t, rest, fr, files, {})
    /\ UNCHANGED <<quiescing, diskVars, calls>>

-----------------------------------------------------------------------------
(* Retirement, shutdown and registration.                                  *)

(* The predicate RetireFile waits for. *)
Drained(d) ==
    /\ ~files[d].creating
    /\ \A p \in PageId :
          p.file = d /\ page_table[p].state # "ABSENT" =>
             /\ page_table[p].state = "RESIDENT"
             /\ frames[page_table[p].frame].pin = 0
             /\ frames[page_table[p].frame].io = "NONE"

(* RetireFile from its wait on: sleep until the file is drained, then flush or discard. *)
Drain(t, fs, aw) ==
    LET l == local[t] IN
    \/ /\ ~Drained(l.file)
       /\ asleep' = aw \cup {t}
       /\ files' = fs
       /\ Goto(t, "drain")
       /\ UNCHANGED <<frames, free_list, page_table, local>>
    \/ /\ Drained(l.file)
       /\ l.op = "RETIRE_FLUSH"
       /\ FlushPages(t, [l EXCEPT !.todo = DirtyResident(l.file)], frames, fs, aw)
    \/ /\ Drained(l.file)
       /\ l.op = "RETIRE_DISCARD"
       /\ CloseFile(t, l, frames, fs)

(* RetireFile: the gate. *)
Retire(t) ==
    /\ At(t, "retire")
    /\ LET d == local[t].file IN
       \/ /\ files[d].state = "CLOSED"
          /\ Return(t, "error")
          /\ UNCHANGED <<poolVars, asleep>>
       \/ /\ files[d].state = "ACTIVE"
          /\ Drain(t, [files EXCEPT ![d].state = "RETIRING"], {})
       \/ /\ files[d].state = "RETIRING"
          /\ Drain(t, files, asleep)
    /\ UNCHANGED <<quiescing, diskVars, calls>>

(* The wait's predicate reads files_.at(file_id), which throws once the file is closed. *)
RetireWake(t) ==
    /\ At(t, "drain")
    /\ \/ /\ files[local[t].file].state = "CLOSED"
          /\ Goto(t, "threw")
          /\ UNCHANGED <<poolVars, asleep, local>>
       \/ /\ files[local[t].file].state # "CLOSED"
          /\ Drain(t, files, asleep)
    /\ UNCHANGED <<quiescing, diskVars, calls>>

(* Mutation: guards do not hold up the shutdown. *)
PoolIdleIfPinned ==
    /\ \A f \in Frames : frames[f].io = "NONE"
    /\ \A p \in PageId : page_table[p].state \in {"ABSENT", "RESIDENT"}
    /\ \A d \in Files : ~files[d].creating

(* The predicate Shutdown waits for. *)
PoolIdle ==
    /\ \A f \in Frames : frames[f].pin = 0 /\ frames[f].io = "NONE"
    /\ \A p \in PageId : page_table[p].state \in {"ABSENT", "RESIDENT"}
    /\ \A d \in Files : ~files[d].creating

(* Shutdown from its wait on. *)
AwaitIdle(t, aw) ==
    \/ /\ ~PoolIdle
       /\ asleep' = aw \cup {t}
       /\ Goto(t, "shutdown")
       /\ UNCHANGED <<poolVars, local>>
    \/ /\ PoolIdle
       /\ FlushPages(t, [local[t] EXCEPT !.todo = DirtyResident(NoFrame)], frames, files, aw)

Shutdown(t) ==
    /\ \/ At(t, "quiesce") /\ quiescing' = TRUE /\ AwaitIdle(t, {})
       \/ At(t, "shutdown") /\ AwaitIdle(t, asleep) /\ UNCHANGED quiescing
    /\ UNCHANGED <<diskVars, calls>>

(* RegisterFile reads the file's page count before it takes the mutex ... *)
ReadPageCount(t) ==
    /\ At(t, "register")
    /\ \E ok \in MayFail("count") :
          \/ /\ ok
             /\ local' = [local EXCEPT ![t].count = physical[local[t].file]]
             /\ Goto(t, "emplace")
          \/ ~ok /\ Return(t, "error")
    /\ UNCHANGED <<poolVars, quiescing, asleep, diskVars, calls>>

(* ... and publishes it as the bound afterwards. *)
RegisterFile(t) ==
    /\ At(t, "emplace")
    /\ LET d == local[t].file
           free == ~quiescing /\ files[d].state = "CLOSED"
       IN \/ /\ free
             /\ files' = [files EXCEPT ![d] = [state |-> "ACTIVE", creating |-> FALSE,
                                               published |-> local[t].count]]
             /\ Return(t, "ok")
          \/ /\ ~free
             /\ Return(t, "error")
             /\ UNCHANGED files
    /\ UNCHANGED <<frames, free_list, page_table, quiescing, asleep, diskVars, calls>>

-----------------------------------------------------------------------------
(* The specification.                                                      *)

Step(t) ==
    \/ FetchRefused(t) \/ PinResident(t) \/ AwaitEviction(t) \/ JoinLoad(t) \/ JoinWake(t)
    \/ LoadPage(t) \/ ReadPage(t) \/ FinishLoad(t) \/ FinishEviction(t)
    \/ Latch(t) \/ Edit(t) \/ MarkDirty(t) \/ ReleaseLatch(t) \/ Unpin(t)
    \/ NewPage(t) \/ ReserveNewPageNo(t) \/ BindNewPage(t) \/ FinishNewPage(t)
    \/ CopyImage(t) \/ WriteImage(t) \/ SyncFile(t)
    \/ Flush(t) \/ FlushWake(t) \/ Reconcile(t)
    \/ Retire(t) \/ RetireWake(t) \/ Shutdown(t) \/ ReadPageCount(t) \/ RegisterFile(t)

(* Every call has been made and has ended. *)
Terminated ==
    /\ \A t \in Threads : pc[t] \in {"idle", "threw"}
    /\ calls = MaxCalls
    /\ UNCHANGED vars

Next ==
    \/ \E t \in Threads : Step(t)
    \/ \E t \in Threads, op \in Operations, p \in PageId : Call(t, op, p)
    \/ Terminated

Spec == Init /\ [][Next]_vars

(* A thread that can run is eventually scheduled, gets the mutex or the latch it waits for *)
(* when nobody holds it, and gives back its guards. Clients need not call anything.        *)
FairSpec == Spec /\ \A t \in Threads : WF_vars(Step(t))
=============================================================================
