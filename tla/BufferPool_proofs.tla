------------------------- MODULE BufferPool_proofs --------------------------
(***************************************************************************)
(* Theorems about the buffer pool that rest on who owns what               *)
(* (PoolOwnership_proofs), for any number of threads, frames, files and    *)
(* pages, and whatever I/O fails.                                          *)
(*                                                                         *)
(* First, waiting: no wakeup is lost, and nothing passes the gate of a     *)
(* retirement.                                                             *)
(*                                                                         *)
(* Then the contents of pages: in the frames, in the images on their way   *)
(* to the disk, in the file and in stable storage. Contents says how these *)
(* agree, Effect what a step may do to them, and StepEffect that every     *)
(* step has such an effect. The rest is argued about effects and no longer *)
(* about actions: that the disk stays behind the pool (DiskBehind), that a *)
(* step is a step of PageStore, and what FlushPage and Shutdown have       *)
(* achieved when they return.                                              *)
(***************************************************************************)
EXTENDS PoolOwnership_proofs

-----------------------------------------------------------------------------
(* What keeps a sleeper asleep.                                             *)

(* A resident page that somebody writes back. *)
Writing(p) == page_table[p].state = "RESIDENT" /\ frames[page_table[p].frame].io # "NONE"

(* A page in use: a retirement of its file has to wait for it. *)
InUse(p) ==
    /\ page_table[p].state # "ABSENT"
    /\ ~ /\ page_table[p].state = "RESIDENT"
         /\ frames[page_table[p].frame].pin = 0
         /\ frames[page_table[p].frame].io = "NONE"

FrameInUse(f) == frames[f].pin # 0 \/ frames[f].io # "NONE"

(* A file keeps its entry and a turn that is taken in it, or is opened. *)
FileLingers(d) ==
    /\ \/ files[d].state = "CLOSED"
       \/ files'[d].state = files[d].state /\ files'[d].published = files[d].published
    /\ files[d].creating => files'[d].creating

(* The step ends nothing a thread may wait for. *)
Lingers ==
    /\ quiescing' = quiescing
    /\ \A d \in Files : FileLingers(d)
    /\ \A p \in PageId : /\ page_table[p].state = "EVICTING" => page_table'[p].state = "EVICTING"
                         /\ Writing(p) => Writing(p)'
                         /\ InUse(p) => InUse(p)'
    /\ ~PoolIdle => ~PoolIdle'

(* A sleeper has a reason, and knows the page whose writeback it waits for. *)
Sleeps(t) == MustWait(t) /\ (pc[t] = "flush" => local[t].target \in PageId)

SleepersWait == \A t \in asleep : Sleeps(t)

(* A step of t either wakes everybody else or ends nothing; t itself may fall asleep. *)
Heeds(t) ==
    /\ asleep' \subseteq asleep \cup {t}
    /\ asleep' \subseteq {t} \/ (Alone(t) /\ Lingers)
    /\ t \in asleep' => Sleeps(t)'

(* The call of a thread that waits is about a file, and about a page where it waits for one. *)
LEMMA WaiterFacts ==
    ASSUME TInv, NEW t \in Threads
    PROVE  /\ pc[t] = "pin" => local[t].page \in PageId /\ local[t].page.file \in Files
           /\ pc[t] \in {"turn", "drain"} => local[t].file \in Files
  BY PageIdFields DEF TInv, ControlOK, ThreadOK

LEMMA WaitersKept ==
    ASSUME TInv, TInv', SleepersWait, NEW t \in Threads, Heeds(t)
    PROVE  SleepersWait'
  <1> SUFFICES ASSUME NEW u \in asleep', u # t PROVE Sleeps(u)'
    BY DEF Heeds, SleepersWait
  <1>1. /\ Lingers /\ MustWait(u) /\ u \in Threads /\ pc'[u] = pc[u] /\ local'[u] = local[u]
        /\ pc[u] = "flush" => local[u].target \in PageId
    BY DEF Heeds, SleepersWait, Sleeps, Alone, TInv, RestOK
  <1>2. CASE pc[u] = "pin"
    <2>1. local[u].page \in PageId /\ local[u].page.file \in Files
      BY <1>1, <1>2, WaiterFacts
    <2>2. Fetchable(local[u].page) /\ page_table[local[u].page].state = "EVICTING"
      BY <1>1, <1>2 DEF MustWait
    <2>3. Fetchable(local[u].page)' /\ page_table'[local[u].page].state = "EVICTING"
      BY <1>1, <2>1, <2>2 DEF Fetchable, Lingers, FileLingers
    <2> QED BY <1>1, <1>2, <2>3 DEF Sleeps, MustWait
  <1>3. CASE pc[u] = "join"
    BY <1>1, <1>3 DEF Sleeps, MustWait
  <1>4. CASE pc[u] = "turn"
    <2>1. local[u].file \in Files
      BY <1>1, <1>4, WaiterFacts
    <2>2. ~quiescing /\ files[local[u].file].state = "ACTIVE" /\ files[local[u].file].creating
      BY <1>1, <1>4 DEF MustWait
    <2>3. ~quiescing' /\ files'[local[u].file].state = "ACTIVE" /\ files'[local[u].file].creating
      BY <1>1, <2>1, <2>2 DEF Lingers, FileLingers
    <2> QED BY <1>1, <1>4, <2>3 DEF Sleeps, MustWait
  <1>5. CASE pc[u] = "drain"
    <2>1. local[u].file \in Files
      BY <1>1, <1>5, WaiterFacts
    <2>2. files[local[u].file].state # "CLOSED" /\ ~Drained(local[u].file)
      BY <1>1, <1>5 DEF MustWait
    <2>3. files'[local[u].file].state # "CLOSED"
      BY <1>1, <2>1, <2>2 DEF Lingers, FileLingers
    <2>4. ~Drained(local[u].file)'
      <3>1. CASE files[local[u].file].creating
        BY <1>1, <2>1, <3>1 DEF Lingers, FileLingers, Drained
      <3>2. CASE \E p \in PageId : p.file = local[u].file /\ InUse(p)
        <4>1. PICK p \in PageId : p.file = local[u].file /\ InUse(p)'
          BY <1>1, <3>2 DEF Lingers
        <4> QED BY <1>1, <4>1 DEF Drained, InUse
      <3> QED BY <2>2, <3>1, <3>2 DEF Drained, InUse
    <2> QED BY <1>1, <1>5, <2>3, <2>4 DEF Sleeps, MustWait
  <1>6. CASE pc[u] = "shutdown"
    BY <1>1, <1>6 DEF Sleeps, MustWait, Lingers
  <1>7. CASE pc[u] = "flush"
    <2> DEFINE p == local[u].target
    <2>1. page_table[p].state = "EVICTING" \/ Writing(p)
      BY <1>1, <1>7 DEF MustWait, Writing
    <2>2. p \in PageId
      BY <1>1, <1>7
    <2>3. page_table'[p].state = "EVICTING" \/ Writing(p)'
      BY <1>1, <2>1, <2>2 DEF Lingers
    <2> QED BY <1>1, <1>7, <2>3 DEF Sleeps, MustWait, Writing
  <1> QED BY <1>1, <1>2, <1>3, <1>4, <1>5, <1>6, <1>7 DEF Sleeps, MustWait

-----------------------------------------------------------------------------
(* Steps that end nothing.                                                  *)

(* Entries in use stay, and pins and I/O under way do not go down to nothing. *)
LEMMA FramesLinger ==
    ASSUME TInv, quiescing' = quiescing, \A d \in Files : FileLingers(d),
           \A p \in PageId : InUse(p) => /\ page_table'[p].state = page_table[p].state
                                         /\ page_table'[p].frame = page_table[p].frame,
           \A f \in Frames : /\ frames[f].pin # 0 => frames'[f].pin # 0
                             /\ frames[f].io # "NONE" => frames'[f].io # "NONE"
    PROVE  Lingers
  <1>1. \A p \in PageId : page_table[p].frame \in Frames
    BY DEF TInv, PoolOK, Entry
  <1>2. ASSUME NEW p \in PageId
        PROVE  /\ page_table[p].state = "EVICTING" => page_table'[p].state = "EVICTING"
               /\ (Writing(p) => Writing(p)') /\ (InUse(p) => InUse(p)')
    BY <1>1 DEF Writing, InUse
  <1>3. ~PoolIdle => ~PoolIdle'
    <2>1. ASSUME NEW p \in PageId, page_table[p].state \notin {"ABSENT", "RESIDENT"}
          PROVE  page_table'[p].state \notin {"ABSENT", "RESIDENT"}
      BY <2>1 DEF InUse
    <2> QED BY <2>1 DEF PoolIdle, FileLingers
  <1> QED BY <1>2, <1>3 DEF Lingers

LEMMA PoolLingers ==
    ASSUME TInv, UNCHANGED poolVars, quiescing' = quiescing
    PROVE  Lingers
  <1>1. /\ frames' = frames /\ page_table' = page_table
        /\ \A d \in Files : FileLingers(d)
    BY DEF poolVars, FileLingers
  <1> QED BY <1>1, FramesLinger

(* A thread that is awake stays awake. *)
LEMMA AwakeHeeds ==
    ASSUME NEW t \in Threads, t \notin asleep, asleep' = asleep, Alone(t), Lingers
    PROVE  Heeds(t)
  BY DEF Heeds

LEMMA AsleepHeeds ==
    ASSUME NEW t \in Threads, asleep' = asleep \cup {t}, Alone(t), Lingers, Sleeps(t)'
    PROVE  Heeds(t)
  BY DEF Heeds

LEMMA NotifiedHeeds ==
    ASSUME NEW t \in Threads, asleep' = {}
    PROVE  Heeds(t)
  <1>1. asleep' \subseteq asleep \cup {t} /\ asleep' \subseteq {t} /\ t \notin asleep'
    OBVIOUS
  <1> QED BY <1>1 DEF Heeds

LEMMA ReturnHeeds ==
    ASSUME TInv, NEW t \in Threads, t \notin asleep, asleep' = asleep, NEW res, Return(t, res),
           Lingers
    PROVE  Heeds(t)
  BY Returns, AwakeHeeds

LEMMA MoveHeeds ==
    ASSUME TInv, NEW t \in Threads, t \notin asleep, asleep' = asleep, NEW l, NEW r, Lingers,
           pc' = [pc EXCEPT ![t] = l], local' = [local EXCEPT ![t] = r]
    PROVE  Heeds(t)
  BY OnlyMoves, AwakeHeeds

LEMMA StayHeeds ==
    ASSUME TInv, NEW t \in Threads, t \notin asleep, asleep' = asleep, NEW l, Lingers,
           pc' = [pc EXCEPT ![t] = l], UNCHANGED local
    PROVE  Heeds(t)
  BY Moves, AwakeHeeds DEF Goto

-----------------------------------------------------------------------------
(* Fetches, guards and I/O.                                                 *)

LEMMA FetchHeeds ==
    ASSUME TInv, TInv', NEW t \in Threads,
           FetchRefused(t) \/ PinResident(t) \/ AwaitEviction(t) \/ JoinLoad(t) \/ JoinWake(t)
    PROVE  Heeds(t)
  <1>0. t \notin asleep
    BY DEF FetchRefused, PinResident, AwaitEviction, JoinLoad, JoinWake, At
  <1>1. CASE FetchRefused(t)
    BY <1>0, <1>1, PoolLingers, ReturnHeeds DEF FetchRefused
  <1>2. CASE PinResident(t)
    <2>1. \A f \in Frames : /\ frames[f].pin # 0 => frames'[f].pin # 0
                            /\ frames'[f].io = frames[f].io
      <3>1. PICK g : frames' = [frames EXCEPT ![g].pin = @ + 1]
        BY <1>2 DEF PinResident
      <3> QED BY <3>1 DEF TInv, PoolOK, Frame
    <2>2. /\ page_table' = page_table /\ quiescing' = quiescing /\ asleep' = asleep
          /\ \A d \in Files : FileLingers(d)
      BY <1>2 DEF PinResident, FileLingers
    <2>3. Lingers
      BY <2>1, <2>2, FramesLinger
    <2> QED BY <1>0, <1>2, <2>2, <2>3, MoveHeeds DEF PinResident, Goto
  <1>3. CASE AwaitEviction(t)
    <2>1. pc[t] = "pin" /\ Fetchable(local[t].page) /\ page_table[local[t].page].state = "EVICTING"
      BY <1>3 DEF AwaitEviction, At
    <2>2. UNCHANGED <<poolVars, quiescing, pc, local>> /\ asleep' = asleep \cup {t}
      BY <1>3 DEF AwaitEviction
    <2>3. Sleeps(t)'
      BY <2>1, <2>2 DEF Sleeps, MustWait, Fetchable, poolVars
    <2>4. Alone(t) /\ Lingers
      BY <2>2, PoolLingers DEF Alone
    <2> QED BY <2>2, <2>3, <2>4, AsleepHeeds
  <1>4. CASE JoinLoad(t)
    <2> DEFINE r == [local[t] EXCEPT !.load = "PENDING"]
    <2>1. r.load = "PENDING"
      BY LocalFacts DEF Local
    <2>2. local' = [local EXCEPT ![t] = r] /\ pc' = [pc EXCEPT ![t] = "join"]
      BY <1>4 DEF JoinLoad, Goto
    <2> HIDE DEF r
    <2>3. Alone(t) /\ pc'[t] = "join" /\ local'[t].load = "PENDING"
      BY <2>1, <2>2, OnlyMoves
    <2>4. /\ UNCHANGED <<frames, files, quiescing>> /\ asleep' = asleep \cup {t}
          /\ page_table' = [page_table EXCEPT ![local[t].page].claims = @ + 1]
      BY <1>4 DEF JoinLoad
    <2>5. \A p \in PageId : /\ page_table'[p].state = page_table[p].state
                            /\ page_table'[p].frame = page_table[p].frame
      BY <2>4 DEF TInv, PoolOK, Entry
    <2>6. \A d \in Files : FileLingers(d)
      BY <2>4 DEF FileLingers
    <2>7. Lingers
      BY <2>4, <2>5, <2>6, FramesLinger
    <2>8. Sleeps(t)'
      BY <2>3 DEF Sleeps, MustWait
    <2> QED BY <2>3, <2>4, <2>7, <2>8, AsleepHeeds
  <1>5. CASE JoinWake(t)
    <2>1. Lingers
      BY <1>5, PoolLingers DEF JoinWake
    <2>2. CASE local[t].load = "PENDING" /\ asleep' = asleep \cup {t} /\ UNCHANGED <<pc, local>>
      <3>1. Alone(t) /\ Sleeps(t)'
        BY <1>5, <2>2 DEF Alone, Sleeps, MustWait, JoinWake, At
      <3> QED BY <2>1, <2>2, <3>1, AsleepHeeds
    <2>3. CASE Return(t, "error") /\ asleep' = asleep
      BY <1>0, <2>1, <2>3, ReturnHeeds
    <2>4. CASE /\ Goto(t, "latch") /\ asleep' = asleep
               /\ local' = [local EXCEPT ![t] = [@ EXCEPT !.frame = local[t].load, !.load = "NONE"]]
      BY <1>0, <2>1, <2>4, MoveHeeds DEF Goto
    <2> QED BY <1>5, <2>2, <2>3, <2>4 DEF JoinWake
  <1> QED BY <1>1, <1>2, <1>3, <1>4, <1>5

LEMMA GuardHeeds ==
    ASSUME TInv, NEW t \in Threads,
           Latch(t) \/ Edit(t) \/ MarkDirty(t) \/ ReleaseLatch(t) \/ Unpin(t)
    PROVE  Heeds(t)
  <1>0. t \notin asleep
    BY DEF Latch, Edit, MarkDirty, ReleaseLatch, Unpin, At
  <1>1. CASE Latch(t) \/ ReleaseLatch(t)
    <2>1. Lingers /\ asleep' = asleep
      BY <1>1, PoolLingers DEF Latch, ReleaseLatch
    <2> QED BY <1>0, <1>1, <2>1, StayHeeds DEF Latch, ReleaseLatch, Goto
  <1>2. CASE Edit(t) \/ MarkDirty(t)
    <2>1. \A f \in Frames : frames'[f].pin = frames[f].pin /\ frames'[f].io = frames[f].io
      <3>1. PICK g : \/ frames' = [frames EXCEPT ![g].ver = @ + 1]
                     \/ frames' = [frames EXCEPT ![g] = [@ EXCEPT !.gen = frames[g].gen + 1,
                                                                 !.dirty = TRUE]]
        BY <1>2 DEF Edit, MarkDirty
      <3>2. CASE frames' = [frames EXCEPT ![g].ver = @ + 1]
        BY <3>2 DEF TInv, PoolOK, Frame
      <3>3. CASE frames' = [frames EXCEPT ![g] = [@ EXCEPT !.gen = frames[g].gen + 1,
                                                          !.dirty = TRUE]]
        BY <3>3 DEF TInv, PoolOK, Frame
      <3> QED BY <3>1, <3>2, <3>3
    <2>2. /\ page_table' = page_table /\ quiescing' = quiescing /\ asleep' = asleep
          /\ \A d \in Files : FileLingers(d)
      BY <1>2 DEF Edit, MarkDirty, FileLingers
    <2>3. Lingers
      BY <2>1, <2>2, FramesLinger
    <2> QED BY <1>0, <1>2, <2>2, <2>3, StayHeeds DEF Edit, MarkDirty, Goto
  <1>3. CASE Unpin(t)
    <2> DEFINE f == local[t].frame
    <2>1. CASE frames[f].pin = 1
      BY <1>3, <2>1, NotifiedHeeds DEF Unpin
    <2>2. CASE frames[f].pin # 1
      <3>1. asleep' = asleep /\ page_table' = page_table /\ quiescing' = quiescing
        BY <1>3, <2>2 DEF Unpin
      <3>2. \A g \in Frames : /\ frames[g].pin # 0 => frames'[g].pin # 0
                              /\ frames'[g].io = frames[g].io
        BY <1>3, <2>2 DEF Unpin, TInv, PoolOK, Frame
      <3>3. \A d \in Files : FileLingers(d)
        BY <1>3 DEF Unpin, FileLingers
      <3>4. Lingers
        BY <3>1, <3>2, <3>3, FramesLinger
      <3> QED BY <1>0, <1>3, <3>1, <3>4, ReturnHeeds DEF Unpin
    <2> QED BY <2>1, <2>2
  <1> QED BY <1>1, <1>2, <1>3

LEMMA IoHeeds ==
    ASSUME TInv, NEW t \in Threads,
           \/ ReadPage(t) \/ ReserveNewPageNo(t) \/ CopyImage(t) \/ WriteImage(t) \/ SyncFile(t)
           \/ ReadPageCount(t)
    PROVE  Heeds(t)
  <1>0. t \notin asleep /\ asleep' = asleep
    BY DEF ReadPage, ReserveNewPageNo, CopyImage, WriteImage, SyncFile, ReadPageCount, At
  <1>1. Lingers
    <2>1. CASE UNCHANGED <<poolVars, quiescing>>
      BY <2>1, PoolLingers
    <2>2. CASE ReadPage(t)
      <3>1. \A f \in Frames : frames'[f].pin = frames[f].pin /\ frames'[f].io = frames[f].io
        BY <2>2 DEF ReadPage, TInv, PoolOK, Frame
      <3>2. /\ page_table' = page_table /\ quiescing' = quiescing
            /\ \A d \in Files : FileLingers(d)
        BY <2>2 DEF ReadPage, FileLingers
      <3> QED BY <3>1, <3>2, FramesLinger
    <2> QED BY <2>1, <2>2 DEF ReserveNewPageNo, CopyImage, WriteImage, SyncFile, ReadPageCount
  <1>2. ASSUME NEW l, NEW r, Goto(t, l), local' = [local EXCEPT ![t] = r] PROVE Heeds(t)
    BY <1>0, <1>1, <1>2, MoveHeeds DEF Goto
  <1>3. CASE ReadPage(t)
    BY <1>2, <1>3 DEF ReadPage
  <1>4. CASE ReserveNewPageNo(t)
    BY <1>2, <1>4 DEF ReserveNewPageNo
  <1>5. CASE CopyImage(t)
    BY <1>2, <1>5 DEF CopyImage
  <1>6. CASE WriteImage(t)
    <2>1. CASE Goto(t, "sync") /\ UNCHANGED local
      BY <1>0, <1>1, <2>1, StayHeeds DEF Goto
    <2>2. CASE Goto(t, "wrote") /\ local' = [local EXCEPT ![t].ok = FALSE]
      BY <1>2, <2>2
    <2> QED BY <1>6, <2>1, <2>2 DEF WriteImage
  <1>7. CASE SyncFile(t)
    BY <1>2, <1>7 DEF SyncFile
  <1>8. CASE ReadPageCount(t)
    <2>1. CASE Return(t, "error")
      BY <1>0, <1>1, <2>1, ReturnHeeds
    <2> QED BY <1>2, <1>8, <2>1 DEF ReadPageCount
  <1> QED BY <1>3, <1>4, <1>5, <1>6, <1>7, <1>8

-----------------------------------------------------------------------------
(* Requests for a frame, and new pages.                                     *)

(* What the caller of AcquireFrame has done to the page table and the registry. *)
Prepared(t, pt, fs) ==
    /\ pt \in [PageId -> Entry] /\ fs \in [Files -> FileEntry]
    /\ \A p \in PageId : page_table[p].state # "ABSENT" => pt[p] = page_table[p]
    /\ \A d \in Files : /\ fs[d].state = files[d].state /\ fs[d].published = files[d].published
                        /\ files[d].creating => fs[d].creating
    /\ local[t].op # "NEW_PAGE" => page_table[local[t].page].state = "ABSENT"

LEMMA AcquireHeeds ==
    ASSUME TInv, Structure, Pins, NEW t \in Threads, t \notin asleep, NEW pt, NEW fs,
           Prepared(t, pt, fs), AcquireFrame(t, pt, fs), quiescing' = quiescing
    PROVE  Heeds(t)
  <1>1. files' = fs => \A d \in Files : FileLingers(d)
    BY DEF Prepared, FileLingers
  <1>2. ASSUME NEW f \in free_list, Granted(t, f, frames, pt), files' = fs, asleep' = asleep
        PROVE  Heeds(t)
    <2>1. f \in Frames
      BY <1>2, FreeFacts
    <2>2. CASE local[t].op = "NEW_PAGE"
      <3>1. frames' = frames /\ page_table' = pt
        BY <1>2, <2>2 DEF Granted
      <3>2. Lingers
        BY <1>1, <1>2, <3>1, FramesLinger DEF Prepared, InUse
      <3>3. PICK r : local' = [local EXCEPT ![t] = r] /\ pc' = [pc EXCEPT ![t] = "extend"]
        BY <1>2, <2>2 DEF Granted, Goto
      <3> QED BY <1>2, <3>2, <3>3, MoveHeeds
    <2>3. CASE local[t].op # "NEW_PAGE"
      <3> DEFINE p == local[t].page
      <3>1. /\ frames' = Bind(frames, f, p, "READ_IN_PROGRESS")
            /\ page_table' = [pt EXCEPT ![p] = [@ EXCEPT !.state = "LOADING", !.frame = f]]
        BY <1>2, <2>3 DEF Granted
      <3>2. \A g \in Frames : /\ frames'[g].pin = frames[g].pin
                              /\ frames[g].io # "NONE" => frames'[g].io # "NONE"
        BY <3>1 DEF Bind, TInv, PoolOK, Frame
      <3>3. \A q \in PageId : InUse(q) => page_table'[q] = page_table[q]
        BY <2>3, <3>1 DEF Prepared, InUse
      <3>4. Lingers
        BY <1>1, <1>2, <3>2, <3>3, FramesLinger
      <3>5. PICK r : local' = [local EXCEPT ![t] = r] /\ pc' = [pc EXCEPT ![t] = "read"]
        BY <1>2, <2>3 DEF Granted, Goto
      <3> QED BY <1>2, <3>4, <3>5, MoveHeeds
    <2> QED BY <2>2, <2>3
  <1>3. ASSUME NEW f \in Frames, IsVictimEligible(f), files' = fs, asleep' = asleep,
               frames' = [frames EXCEPT ![f] = [@ EXCEPT !.state = "EVICTING",
                                                         !.io = "WRITEBACK_IN_PROGRESS"]],
               page_table' = [pt EXCEPT ![frames[f].page].state = "EVICTING"],
               NEW r, local' = [local EXCEPT ![t] = r], Goto(t, "write")
        PROVE  Heeds(t)
    <2>1. PICK v \in PageId : v = frames[f].page
      BY <1>3, VictimFacts
    <2>2. Maps(v, "RESIDENT", f) /\ frames[f].pin = 0 /\ frames[f].io = "NONE"
      BY <1>3, <2>1, VictimFacts DEF IsVictimEligible
    <2>3. ~InUse(v)
      BY <2>2 DEF Maps, InUse
    <2>4. \A q \in PageId : InUse(q) => page_table'[q] = page_table[q]
      <3>1. page_table' = [pt EXCEPT ![v].state = "EVICTING"]
        BY <1>3, <2>1
      <3> QED BY <2>3, <3>1 DEF Prepared, InUse
    <2>5. \A g \in Frames : /\ frames'[g].pin = frames[g].pin
                            /\ frames[g].io # "NONE" => frames'[g].io # "NONE"
      BY <1>3 DEF TInv, PoolOK, Frame
    <2>6. Lingers
      BY <1>1, <1>3, <2>4, <2>5, FramesLinger
    <2> QED BY <1>3, <2>6, MoveHeeds DEF Goto
  <1>4. CASE asleep' = {}
    BY <1>4, NotifiedHeeds
  <1> QED BY <1>2, <1>3, <1>4 DEF AcquireFrame, Refused, NotifyAll

LEMMA LoadPageHeeds ==
    ASSUME TInv, Structure, Pins, NEW t \in Threads, LoadPage(t)
    PROVE  Heeds(t)
  <1> DEFINE p == local[t].page
             pt == [page_table EXCEPT ![p] = Intent]
  <1>1. /\ t \notin asleep /\ pc[t] = "pin" /\ page_table[p].state = "ABSENT"
        /\ AcquireFrame(t, pt, files) /\ quiescing' = quiescing
    BY DEF LoadPage, At
  <1>2. Prepared(t, pt, files)
    BY <1>1, AbsentType DEF Prepared, TInv, PoolOK
  <1> HIDE DEF pt
  <1> QED BY <1>1, <1>2, AcquireHeeds

LEMMA NewPageHeeds ==
    ASSUME TInv, TInv', Structure, Pins, NEW t \in Threads, NewPage(t)
    PROVE  Heeds(t)
  <1> DEFINE d == local[t].file
             fs == [files EXCEPT ![d].creating = TRUE]
  <1>1. /\ t \notin asleep /\ pc[t] = "turn" /\ quiescing' = quiescing
        /\ local[t].op = "NEW_PAGE" /\ d \in Files
    BY DEF NewPage, At, TInv, ControlOK, ThreadOK
  <1>2. CASE Return(t, "error") /\ UNCHANGED <<poolVars, asleep>>
    BY <1>1, <1>2, PoolLingers, ReturnHeeds
  <1>3. CASE /\ ~quiescing /\ files[d].state = "ACTIVE" /\ TurnTaken(d)
             /\ asleep' = asleep \cup {t} /\ UNCHANGED <<poolVars, pc, local>>
    <2>1. Alone(t) /\ Lingers
      BY <1>1, <1>3, PoolLingers DEF Alone
    <2>2. Sleeps(t)'
      BY <1>1, <1>3 DEF Sleeps, MustWait, TurnTaken, poolVars
    <2> QED BY <1>3, <2>1, <2>2, AsleepHeeds
  <1>4. CASE AcquireFrame(t, page_table, fs)
    <2>1. Prepared(t, page_table, fs)
      BY <1>1 DEF Prepared, TInv, PoolOK, FileEntry
    <2> HIDE DEF fs
    <2> QED BY <1>1, <1>4, <2>1, AcquireHeeds
  <1> QED BY <1>2, <1>3, <1>4 DEF NewPage

(* A frame that is held is bound to its new page: the turn is still taken. *)
LEMMA BindNewPageHeeds ==
    ASSUME TInv, TInv', Structure, NEW t \in Threads, BindNewPage(t)
    PROVE  Heeds(t)
  <1> DEFINE f == local[t].frame
             d == local[t].file
             p == [file |-> d, no |-> local[t].count]
  <1>1. /\ t \notin asleep /\ pc[t] = "extended" /\ Holds(t) /\ Creates(t) /\ Busy(t)
        /\ quiescing' = quiescing
    BY DEF BindNewPage, At, Holds, Creates, Busy
  <1>2. f \in Frames /\ d \in Files /\ frames[f].state = "FREE" /\ files[d].creating
    BY <1>1, LocalFacts, OwnedFrame DEF Structure, ThreadsOwn, ThreadOwns
  <1>3. CASE asleep' = {}
    BY <1>3, NotifiedHeeds
  <1>4. ASSUME frames' = Bind(frames, f, p, "NONE"), local[t].count = files[d].published,
               page_table' = [page_table EXCEPT ![p] =
                                [state |-> "LOADING", frame |-> f, claims |-> 0]],
               UNCHANGED <<files, asleep>>, Goto(t, "build"),
               local' = [local EXCEPT ![t] = [@ EXCEPT !.page = p, !.count = 0]]
        PROVE  Heeds(t)
    <2>1. \A g \in Frames \ {f} : frames'[g] = frames[g]
      BY <1>4 DEF Bind
    <2>2. \A q \in PageId \ {p} : page_table'[q] = page_table[q]
      BY <1>4 DEF TInv, PoolOK
    <2>3. p \in PageId => page_table'[p].state = "LOADING"
      BY <1>4 DEF TInv, PoolOK
    <2>4. p \in PageId => page_table[p].state = "ABSENT"
      <3>1. SUFFICES ASSUME p \in PageId, Below(p), page_table[p].state # "ABSENT" PROVE FALSE
        BY DEF Structure, MappedBelow
      <3>2. p.no = files[d].published /\ p.file = d /\ p.no \in Nat
        BY <1>4, <3>1, PageIdFields
      <3>3. PICK u \in Threads : Builds(u) /\ local[u].page = p
        BY <3>1, <3>2 DEF Below
      <3>4. local[u].file = d /\ Creates(u) /\ u # t
        BY <1>1, <3>2, <3>3 DEF Builds, Creates, Structure, ThreadsOwn, ThreadOwns
      <3> QED BY <1>1, <3>4 DEF Structure, ThreadsApart
    <2>5. \A q \in PageId : page_table[q].state \in {"RESIDENT", "EVICTING"} =>
             q # p /\ page_table[q].frame \in Frames \ {f}
      BY <1>2, <2>4, MappedFrame DEF Maps, TInv, PoolOK, Entry
    <2>6. ASSUME NEW q \in PageId
          PROVE  /\ page_table[q].state = "EVICTING" => page_table'[q].state = "EVICTING"
                 /\ (Writing(q) => Writing(q)') /\ (InUse(q) => InUse(q)')
      BY <2>1, <2>2, <2>3, <2>5 DEF Writing, InUse
    <2>7. ~PoolIdle'
      BY <1>2, <1>4 DEF PoolIdle
    <2>8. Lingers
      BY <1>1, <1>4, <2>6, <2>7 DEF Lingers, FileLingers
    <2>9. Alone(t)
      BY <1>4 DEF Alone, Goto
    <2> QED BY <1>1, <1>4, <2>8, <2>9, AwakeHeeds
  <1> QED BY <1>3, <1>4 DEF BindNewPage, NotifyAll

LEMMA RequestHeeds ==
    ASSUME TInv, TInv', Structure, Pins, NEW t \in Threads,
           \/ LoadPage(t) \/ FinishLoad(t) \/ FinishEviction(t)
           \/ NewPage(t) \/ BindNewPage(t) \/ FinishNewPage(t)
    PROVE  Heeds(t)
  BY LoadPageHeeds, NewPageHeeds, BindNewPageHeeds, NotifiedHeeds
     DEF FinishLoad, FinishEviction, FinishNewPage, Refused, NotifyAll

-----------------------------------------------------------------------------
(* Flushes, retirements, shutdown and registration.                         *)

(* The caller has woken everybody, or has changed nothing. *)
Considerate(t, fr, fs, aw) ==
    \/ aw = {}
    \/ fr = frames /\ fs = files /\ aw = asleep /\ t \notin asleep /\ quiescing' = quiescing

LEMMA FlushPagesHeeds ==
    ASSUME TInv, NEW t \in Threads, NEW l \in Local, NEW fr, NEW fs, NEW aw,
           Considerate(t, fr, fs, aw), FlushPages(t, l, fr, fs, aw)
    PROVE  Heeds(t)
  <1>1. CASE asleep' = {}
    BY <1>1, NotifiedHeeds
  <1>2. ASSUME frames' = fr, files' = fs, asleep' = aw, UNCHANGED page_table,
               NEW x, Return(t, x)
        PROVE  Heeds(t)
    <2>1. CASE aw = {}
      BY <1>1, <1>2, <2>1
    <2>2. CASE aw # {}
      <3>1. \A d \in Files : FileLingers(d)
        BY <1>2, <2>2 DEF Considerate, FileLingers
      <3>2. Lingers
        BY <1>2, <2>2, <3>1, FramesLinger DEF Considerate
      <3> QED BY <1>2, <2>2, <3>2, ReturnHeeds DEF Considerate
    <2> QED BY <2>1, <2>2
  <1>3. ASSUME NEW p \in PageId, Unflushed(fr, p),
               page_table[p].state = "EVICTING" \/ fr[page_table[p].frame].io # "NONE",
               frames' = fr, files' = fs, asleep' = aw \cup {t}, Goto(t, "flush"),
               local' = [local EXCEPT ![t] = [l EXCEPT !.todo = {q \in l.todo : PageLeq(p, q)},
                                                       !.target = p]],
               UNCHANGED page_table
        PROVE  Heeds(t)
    <2> DEFINE r == [l EXCEPT !.todo = {q \in l.todo : PageLeq(p, q)}, !.target = p]
    <2>1. r.target = p
      BY DEF Local
    <2>2. local' = [local EXCEPT ![t] = r] /\ pc' = [pc EXCEPT ![t] = "flush"]
      BY <1>3 DEF Goto
    <2> HIDE DEF r
    <2>3. Alone(t) /\ pc'[t] = "flush" /\ local'[t].target = p
      BY <2>1, <2>2, OnlyMoves
    <2>4. Sleeps(t)'
      BY <1>3, <2>3 DEF Sleeps, MustWait, Unflushed
    <2>5. CASE aw = {}
      BY <1>3, <2>4, <2>5 DEF Heeds
    <2>6. CASE aw # {}
      <3>1. \A d \in Files : FileLingers(d)
        BY <1>3, <2>6 DEF Considerate, FileLingers
      <3>2. Lingers
        BY <1>3, <2>6, <3>1, FramesLinger DEF Considerate
      <3> QED BY <1>3, <2>3, <2>4, <2>6, <3>2, AsleepHeeds DEF Considerate
    <2> QED BY <2>5, <2>6
  <1>4. ASSUME NEW f, frames' = [fr EXCEPT ![f].io = "WRITEBACK_IN_PROGRESS"], files' = fs,
               asleep' = aw, Goto(t, "copy"), NEW r, local' = [local EXCEPT ![t] = r],
               UNCHANGED page_table
        PROVE  Heeds(t)
    <2>1. CASE aw = {}
      BY <1>1, <1>4, <2>1
    <2>2. CASE aw # {}
      <3>1. \A d \in Files : FileLingers(d)
        BY <1>4, <2>2 DEF Considerate, FileLingers
      <3>2. frames' = [frames EXCEPT ![f].io = "WRITEBACK_IN_PROGRESS"]
        BY <1>4, <2>2 DEF Considerate
      <3>3. \A g \in Frames : /\ frames'[g].pin = frames[g].pin
                              /\ frames[g].io # "NONE" => frames'[g].io # "NONE"
        BY <3>2 DEF TInv, PoolOK, Frame
      <3>4. Lingers
        BY <1>4, <2>2, <3>1, <3>3, FramesLinger DEF Considerate
      <3> QED BY <1>4, <2>2, <3>4, MoveHeeds DEF Considerate, Goto
    <2> QED BY <2>1, <2>2
  <1>5. CASE FlushDone(t, l, fr, fs, aw)
    BY <1>1, <1>2, <1>5 DEF FlushDone, CloseFile, NotifyAll
  <1>6. l.todo \subseteq PageId
    BY DEF Local
  <1> QED BY <1>3, <1>4, <1>5, <1>6, ZenonT(30) DEF FlushPages

(* The loop started with the pages s. *)
LEMMA TodoHeeds ==
    ASSUME TInv, NEW t \in Threads, pc[t] # "idle", NEW s \in SUBSET PageId, NEW fs, NEW aw,
           Considerate(t, frames, fs, aw),
           FlushPages(t, [local[t] EXCEPT !.todo = s], frames, fs, aw)
    PROVE  Heeds(t)
  <1> DEFINE l == [local[t] EXCEPT !.todo = s]
  <1>1. l \in Local
    BY InCall, TodoType DEF FlushLocal
  <1>2. FlushPages(t, l, frames, fs, aw)
    OBVIOUS
  <1> HIDE DEF l
  <1> QED BY <1>1, <1>2, FlushPagesHeeds

LEMMA FlushHeeds ==
    ASSUME TInv, NEW t \in Threads, Flush(t) \/ FlushWake(t) \/ Reconcile(t)
    PROVE  Heeds(t)
  <1>0. pc[t] # "idle" /\ t \notin asleep /\ quiescing' = quiescing /\ local[t] \in Local
    BY LocalFacts DEF Flush, FlushWake, Reconcile, At
  <1>1. Considerate(t, frames, files, asleep)
    BY <1>0 DEF Considerate
  <1>2. \A d : DirtyResident(d) \in SUBSET PageId
    BY DEF DirtyResident
  <1>3. CASE Flush(t)
    <2>1. CASE Return(t, "error") /\ UNCHANGED <<poolVars, asleep>>
      BY <1>0, <2>1, PoolLingers, ReturnHeeds
    <2>2. CASE /\ local[t].op = "FLUSH_PAGE"
               /\ FlushPages(t, [local[t] EXCEPT !.todo = {local[t].page}], frames, files, asleep)
      <3>1. {local[t].page} \in SUBSET PageId
        BY <1>0, <2>2, InCall DEF FlushLocal
      <3> QED BY <1>0, <1>1, <2>2, <3>1, TodoHeeds
    <2>3. ASSUME NEW d, FlushPages(t, [local[t] EXCEPT !.todo = DirtyResident(d)],
                                   frames, files, asleep)
          PROVE  Heeds(t)
      <3> DEFINE s == DirtyResident(d)
      <3>1. s \in SUBSET PageId /\ FlushPages(t, [local[t] EXCEPT !.todo = s], frames, files, asleep)
        BY <1>2, <2>3
      <3> HIDE DEF s
      <3> QED BY <1>0, <1>1, <3>1, TodoHeeds
    <2> QED BY <1>3, <2>1, <2>2, <2>3 DEF Flush
  <1>4. CASE FlushWake(t)
    BY <1>0, <1>1, <1>4, FlushPagesHeeds DEF FlushWake
  <1>5. CASE Reconcile(t)
    <2> DEFINE l == local[t]
               fr == [frames EXCEPT ![l.frame] =
                        [@ EXCEPT !.io = "NONE",
                                  !.dirty = frames[l.frame].dirty /\ ~ImageIsCurrent(l)]]
               td == l.todo \ GivenUp(l)
               fl == l.failed \/ ~l.ok
               rest == [l EXCEPT !.todo = td, !.failed = fl, !.ok = TRUE,
                                 !.frame = NoFrame, !.img = 0, !.gen = 0, !.epoch = 0]
    <2>1. FlushPages(t, rest, fr, files, {})
      BY <1>5 DEF Reconcile
    <2>2. td \in SUBSET PageId /\ fl \in BOOLEAN /\ 0 \in Nat /\ 0 \in Int
      BY <1>0 DEF Local
    <2> HIDE DEF td, fl
    <2>3. rest \in Local
      BY <1>0, <2>2, Zenon DEF Local, Version
    <2>4. Considerate(t, fr, files, {})
      BY DEF Considerate
    <2> HIDE DEF fr, rest
    <2> QED BY <2>1, <2>3, <2>4, FlushPagesHeeds
  <1> QED BY <1>3, <1>4, <1>5

LEMMA DrainHeeds ==
    ASSUME TInv, NEW t \in Threads, pc[t] # "idle", NEW fs \in [Files -> FileEntry], NEW aw,
           fs[local[t].file].state # "CLOSED", Considerate(t, frames, fs, aw), Drain(t, fs, aw),
           \A d \in Files : fs[d].creating = files[d].creating
    PROVE  Heeds(t)
  <1>0. local[t].file \in Files
    BY InCall DEF FlushLocal
  <1>1. CASE /\ ~Drained(local[t].file) /\ asleep' = aw \cup {t} /\ files' = fs /\ Goto(t, "drain")
             /\ UNCHANGED <<frames, free_list, page_table, local>>
    <2>1. Alone(t) /\ pc'[t] = "drain" /\ local'[t] = local[t]
      BY <1>1, Moves
    <2>2. ~Drained(local[t].file)'
      BY <1>0, <1>1, <2>1 DEF Drained
    <2>3. Sleeps(t)'
      BY <1>1, <2>1, <2>2 DEF Sleeps, MustWait
    <2>4. CASE aw = {}
      BY <1>1, <2>3, <2>4 DEF Heeds
    <2>5. CASE aw # {}
      <3>1. Lingers
        BY <1>1, <2>5, PoolLingers DEF Considerate, poolVars
      <3> QED BY <1>1, <2>1, <2>3, <2>5, <3>1, AsleepHeeds DEF Considerate
    <2> QED BY <2>4, <2>5
  <1>2. CASE FlushPages(t, [local[t] EXCEPT !.todo = DirtyResident(local[t].file)],
                        frames, fs, aw)
    <2> DEFINE s == DirtyResident(local[t].file)
    <2>1. s \in SUBSET PageId
      BY DEF DirtyResident
    <2>2. FlushPages(t, [local[t] EXCEPT !.todo = s], frames, fs, aw)
      BY <1>2
    <2> HIDE DEF s
    <2> QED BY <2>1, <2>2, TodoHeeds
  <1>3. CASE CloseFile(t, local[t], frames, fs)
    BY <1>3, NotifiedHeeds DEF CloseFile, NotifyAll
  <1> QED BY <1>1, <1>2, <1>3 DEF Drain

LEMMA RetireHeeds ==
    ASSUME TInv, NEW t \in Threads, Retire(t) \/ RetireWake(t)
    PROVE  Heeds(t)
  <1>0. /\ pc[t] # "idle" /\ t \notin asleep /\ quiescing' = quiescing
        /\ files \in [Files -> FileEntry] /\ local[t].file \in Files
    BY InCall DEF Retire, RetireWake, At, TInv, PoolOK, FlushLocal
  <1>1. Considerate(t, frames, files, asleep)
    BY <1>0 DEF Considerate
  <1>2. CASE Return(t, "error") /\ UNCHANGED <<poolVars, asleep>>
    BY <1>0, <1>2, PoolLingers, ReturnHeeds
  <1>3. CASE Goto(t, "threw") /\ UNCHANGED <<poolVars, asleep, local>>
    BY <1>0, <1>3, PoolLingers, StayHeeds DEF Goto
  <1>4. CASE files[local[t].file].state # "CLOSED" /\ Drain(t, files, asleep)
    BY <1>0, <1>1, <1>4, DrainHeeds
  <1>5. CASE Drain(t, [files EXCEPT ![local[t].file].state = "RETIRING"], {})
    <2> DEFINE fs == [files EXCEPT ![local[t].file].state = "RETIRING"]
    <2>1. /\ fs \in [Files -> FileEntry] /\ fs[local[t].file].state = "RETIRING"
          /\ \A d \in Files : fs[d].creating = files[d].creating
      BY <1>0 DEF FileEntry
    <2>2. Considerate(t, frames, fs, {})
      BY DEF Considerate
    <2>3. Drain(t, fs, {})
      BY <1>5
    <2> HIDE DEF fs
    <2> QED BY <1>0, <2>1, <2>2, <2>3, DrainHeeds
  <1> QED BY <1>2, <1>3, <1>4, <1>5 DEF Retire, RetireWake

LEMMA ShutdownHeeds ==
    ASSUME TInv, NEW t \in Threads, Shutdown(t)
    PROVE  Heeds(t)
  <1>1. PICK aw : AwaitIdle(t, aw) /\ (aw = {} \/ (aw = asleep /\ quiescing' = quiescing))
    BY DEF Shutdown
  <1>2. t \notin asleep /\ pc[t] # "idle"
    BY DEF Shutdown, At
  <1>3. Considerate(t, frames, files, aw)
    BY <1>1, <1>2 DEF Considerate
  <1>4. CASE /\ ~PoolIdle /\ asleep' = aw \cup {t} /\ Goto(t, "shutdown")
             /\ UNCHANGED <<poolVars, local>>
    <2>1. Alone(t) /\ pc'[t] = "shutdown"
      BY <1>4, Moves
    <2>2. Sleeps(t)'
      BY <1>4, <2>1 DEF Sleeps, MustWait, PoolIdle, poolVars
    <2>3. CASE aw = {}
      BY <1>4, <2>2, <2>3 DEF Heeds
    <2>4. CASE aw # {}
      BY <1>1, <1>4, <2>1, <2>2, <2>4, PoolLingers, AsleepHeeds
    <2> QED BY <2>3, <2>4
  <1>5. CASE FlushPages(t, [local[t] EXCEPT !.todo = DirtyResident(NoFrame)], frames, files, aw)
    <2> DEFINE s == DirtyResident(NoFrame)
    <2>1. s \in SUBSET PageId
      BY DEF DirtyResident
    <2>2. FlushPages(t, [local[t] EXCEPT !.todo = s], frames, files, aw)
      BY <1>5
    <2> HIDE DEF s
    <2> QED BY <1>2, <1>3, <2>1, <2>2, TodoHeeds
  <1> QED BY <1>1, <1>4, <1>5 DEF AwaitIdle

(* RegisterFile wakes nobody: nobody waits for a file that is not registered. *)
LEMMA RegisterHeeds ==
    ASSUME TInv, ClosedOwnsNothing, NEW t \in Threads, RegisterFile(t)
    PROVE  Heeds(t)
  <1>0. t \notin asleep /\ asleep' = asleep /\ UNCHANGED <<frames, page_table, quiescing>>
    BY DEF RegisterFile, At
  <1>1. \A d \in Files : FileLingers(d)
    <2>1. CASE UNCHANGED files
      BY <2>1 DEF FileLingers
    <2>2. ASSUME NEW r, files[local[t].file].state = "CLOSED",
                 files' = [files EXCEPT ![local[t].file] = r]
          PROVE  \A d \in Files : FileLingers(d)
      BY <2>2 DEF FileLingers, TInv, PoolOK, ClosedOwnsNothing
    <2> QED BY <2>1, <2>2 DEF RegisterFile
  <1>2. Lingers
    BY <1>0, <1>1, FramesLinger
  <1> QED BY <1>0, <1>2, ReturnHeeds DEF RegisterFile

LEMMA CallHeeds ==
    ASSUME TInv, NEW t \in Threads, NEW op \in Operations, NEW p \in PageId, Call(t, op, p)
    PROVE  Heeds(t)
  <1>1. t \notin asleep /\ asleep' = asleep /\ UNCHANGED <<poolVars, quiescing>>
    BY DEF Call, At
  <1>2. PICK l, r : pc' = [pc EXCEPT ![t] = l] /\ local' = [local EXCEPT ![t] = r]
    BY DEF Call, Goto
  <1> QED BY <1>1, <1>2, PoolLingers, MoveHeeds

-----------------------------------------------------------------------------
(* The theorem.                                                             *)

WaitInv == PoolInv /\ SleepersWait

LEMMA NextWait ==
    ASSUME CoordinatedClients, WaitInv, [Next]_vars
    PROVE  WaitInv'
  <1>1. PoolInv /\ PoolInv' /\ SleepersWait
    BY NextPool DEF WaitInv
  <1>2. TInv /\ TInv' /\ Structure /\ Pins /\ ClosedOwnsNothing
    BY <1>1 DEF PoolInv, OwnershipInv, Structure
  <1>3. ASSUME NEW t \in Threads, Step(t) PROVE SleepersWait'
    BY <1>1, <1>2, <1>3, WaitersKept, FetchHeeds, GuardHeeds, IoHeeds, RequestHeeds, FlushHeeds,
       RetireHeeds, ShutdownHeeds, RegisterHeeds DEF Step
  <1>4. ASSUME NEW t \in Threads, NEW op \in Operations, NEW p \in PageId, Call(t, op, p)
        PROVE  SleepersWait'
    BY <1>1, <1>2, <1>4, WaitersKept, CallHeeds
  <1>5. CASE UNCHANGED vars
    <2>1. PoolIdle' = PoolIdle /\ \A d : Drained(d)' = Drained(d)
      BY <1>5 DEF PoolIdle, Drained, vars
    <2>2. \A p : Fetchable(p)' = Fetchable(p)
      BY <1>5 DEF Fetchable, vars
    <2>3. ASSUME NEW t, Sleeps(t) PROVE Sleeps(t)'
      <3>1. MustWait(t)'
        BY <1>5, <2>1, <2>2, <2>3 DEF Sleeps, MustWait, vars
      <3> QED BY <1>5, <2>3, <3>1 DEF Sleeps, vars
    <2>4. asleep' = asleep
      BY <1>5 DEF vars
    <2> QED BY <1>1, <2>3, <2>4 DEF SleepersWait, WaitInv
  <1> QED BY <1>1, <1>3, <1>4, <1>5 DEF Next, Terminated, WaitInv

(* Every change of state that ends a wait on state_changed_ notifies it, whatever threads    *)
(* wait for and whatever fails: a thread that sleeps has a condition that still holds.       *)
THEOREM NoWakeupIsLost ==
    ASSUME CoordinatedClients
    PROVE  Spec => []NoLostWakeup
  <1>1. Init => WaitInv
    BY InitPool DEF WaitInv, SleepersWait, Init
  <1>2. WaitInv /\ [Next]_vars => WaitInv'
    BY NextWait
  <1>3. WaitInv => NoLostWakeup
    BY DEF WaitInv, SleepersWait, Sleeps, NoLostWakeup
  <1> QED BY <1>1, <1>2, <1>3, PTL DEF Spec

-----------------------------------------------------------------------------
(* The gate of a retirement.                                                *)

(* Thread u gains no pin on a frame of a page whose file is behind the gate. *)
GainsNoPin(u) ==
    \A f \in Frames :
       HoldsPin(u, f)' => \/ HoldsPin(u, f)
                          \/ frames[f].page \notin PageId
                          \/ files[frames[f].page.file].state = "ACTIVE"

(* No page of a file behind the gate comes into the pool. *)
GainsNoPage ==
    \A p \in PageId : InMemory(p)' => InMemory(p) \/ files[p.file].state = "ACTIVE"

GateKept == GainsNoPage /\ \A u \in Threads : GainsNoPin(u)

LEMMA OthersGainNoPin ==
    ASSUME NEW t \in Threads, Alone(t), GainsNoPin(t)
    PROVE  \A u \in Threads : GainsNoPin(u)
  BY DEF Alone, GainsNoPin, HoldsPin

(* At a label without a pin. *)
LEMMA NoPinGained ==
    ASSUME NEW t \in Threads, Alone(t),
           pc'[t] \notin {"latch", "reading", "writing", "edited", "unpin", "join"}
    PROVE  \A u \in Threads : GainsNoPin(u)
  <1>1. GainsNoPin(t)
    BY DEF GainsNoPin, HoldsPin
  <1> QED BY <1>1, OthersGainNoPin

(* With the pin it had. *)
LEMMA SamePinGained ==
    ASSUME NEW t \in Threads, Alone(t), local'[t] = local[t], pc[t] \in GuardLabels,
           pc'[t] \in GuardLabels
    PROVE  \A u \in Threads : GainsNoPin(u)
  <1>1. GainsNoPin(t)
    BY DEF GainsNoPin, HoldsPin, GuardLabels
  <1> QED BY <1>1, OthersGainNoPin

(* The fetches that joined a load are told of its failure. *)
LEMMA FailureGainsNoPin ==
    ASSUME TInv, NEW t \in Threads, NEW p \in PageId, NEW r, Goto(t, "idle"),
           local' = [Resolve(p, "FAILED") EXCEPT ![t] = r]
    PROVE  \A u \in Threads : GainsNoPin(u)
  <1>1. pc'[t] = "idle" /\ \A u \in Threads \ {t} : pc'[u] = pc[u]
    BY DEF Goto, TInv, ControlOK
  <1>2. \A u \in Threads \ {t} : local'[u] = Resolve(p, "FAILED")[u]
    BY DEF Resolve
  <1>3. \A u \in Threads \ {t} : /\ pc'[u] = pc[u] /\ SameCall(local[u], local'[u])
                                 /\ local'[u].load = IF Joins(u, p) THEN "FAILED" ELSE local[u].load
    BY <1>1, <1>2, Resolves
  <1>4. \A f \in Frames : f # "FAILED"
    BY ConstantsAssumption
  <1>5. ASSUME NEW u \in Threads \ {t} PROVE GainsNoPin(u)
    BY <1>3, <1>4 DEF GainsNoPin, HoldsPin, SameCall, Joins
  <1>6. GainsNoPin(t)
    BY <1>1 DEF GainsNoPin, HoldsPin
  <1> QED BY <1>5, <1>6

(* The table is that of before, or has lost pages. *)
LEMMA TableGainsNoPage ==
    ASSUME \A p \in PageId : page_table'[p].state \in {"ABSENT", "LOAD_INTENT", "LOADING"}
                             \/ page_table'[p].state = page_table[p].state
                             \/ InMemory(p)
    PROVE  GainsNoPage
  BY DEF GainsNoPage, InMemory

LEMMA FetchKeepsGate ==
    ASSUME TInv, Structure, NEW t \in Threads,
           FetchRefused(t) \/ PinResident(t) \/ AwaitEviction(t) \/ JoinLoad(t) \/ JoinWake(t)
    PROVE  GateKept
  <1>1. CASE \E res : Return(t, res) /\ UNCHANGED page_table
    BY <1>1, Returns, NoPinGained, TableGainsNoPage DEF GateKept
  <1>2. CASE PinResident(t)
    <2> DEFINE p == local[t].page
               f == page_table[p].frame
               r == [local[t] EXCEPT !.frame = f]
    <2>1. /\ p \in PageId /\ files[p.file].state = "ACTIVE" /\ page_table[p].state = "RESIDENT"
          /\ page_table' = page_table
      BY <1>2, LocalFacts DEF PinResident, At, Fetchable
    <2>2. frames[f].page = p /\ r.frame = f
      <3>1. frames[f].page = p
        BY <2>1 DEF Structure, EntriesBound, EntryBound
      <3>2. r.frame = f
        BY LocalFacts DEF Local
      <3> QED BY <3>1, <3>2
    <2>3. Alone(t) /\ pc'[t] = "latch" /\ local'[t] = r
      BY <1>2, OnlyMoves DEF PinResident, Goto
    <2> HIDE DEF r
    <2>4. GainsNoPin(t)
      BY <2>1, <2>2, <2>3 DEF GainsNoPin, HoldsPin
    <2> QED BY <2>1, <2>3, <2>4, OthersGainNoPin, TableGainsNoPage DEF GateKept
  <1>3. CASE AwaitEviction(t) \/ (JoinWake(t) /\ UNCHANGED <<pc, local>>)
    <2>1. UNCHANGED <<pc, local, page_table>>
      BY <1>3 DEF AwaitEviction, JoinWake, poolVars
    <2> QED BY <2>1, TableGainsNoPage DEF GateKept, GainsNoPin, HoldsPin
  <1>4. CASE JoinLoad(t)
    <2> DEFINE r == [local[t] EXCEPT !.load = "PENDING"]
    <2>1. r.load = "PENDING"
      BY LocalFacts DEF Local
    <2>2. Alone(t) /\ pc'[t] = "join" /\ local'[t] = r
      BY <1>4, OnlyMoves DEF JoinLoad, Goto
    <2> HIDE DEF r
    <2>3. GainsNoPin(t)
      BY <2>1, <2>2, ConstantsAssumption DEF GainsNoPin, HoldsPin
    <2>4. \A p \in PageId : page_table'[p].state = page_table[p].state
      BY <1>4 DEF JoinLoad, TInv, PoolOK, Entry
    <2> QED BY <2>2, <2>3, <2>4, OthersGainNoPin, TableGainsNoPage DEF GateKept
  <1>5. CASE JoinWake(t)
    <2>1. CASE /\ Goto(t, "latch") /\ UNCHANGED page_table
               /\ local' = [local EXCEPT ![t] = [@ EXCEPT !.frame = local[t].load, !.load = "NONE"]]
      <3> DEFINE r == [local[t] EXCEPT !.frame = local[t].load, !.load = "NONE"]
      <3>1. r.frame = local[t].load
        BY LocalFacts DEF Local
      <3>2. Alone(t) /\ pc'[t] = "latch" /\ local'[t] = r
        BY <2>1, OnlyMoves DEF Goto
      <3> HIDE DEF r
      <3>3. GainsNoPin(t)
        BY <1>5, <3>1, <3>2 DEF GainsNoPin, HoldsPin, JoinWake, At
      <3> QED BY <2>1, <3>2, <3>3, OthersGainNoPin, TableGainsNoPage DEF GateKept
    <2> QED BY <1>1, <1>3, <1>5, <2>1 DEF JoinWake, poolVars
  <1> QED BY <1>1, <1>2, <1>3, <1>4, <1>5 DEF FetchRefused, poolVars

LEMMA GuardKeepsGate ==
    ASSUME TInv, NEW t \in Threads,
           Latch(t) \/ Edit(t) \/ MarkDirty(t) \/ ReleaseLatch(t) \/ Unpin(t)
    PROVE  GateKept
  <1>1. UNCHANGED page_table
    BY DEF Latch, Edit, MarkDirty, ReleaseLatch, Unpin, poolVars
  <1>2. CASE Unpin(t)
    BY <1>1, <1>2, Returns, NoPinGained, TableGainsNoPage DEF GateKept, Unpin
  <1>3. CASE Latch(t) \/ Edit(t) \/ MarkDirty(t) \/ ReleaseLatch(t)
    <2>1. Alone(t) /\ local'[t] = local[t] /\ pc[t] \in GuardLabels /\ pc'[t] \in GuardLabels
      BY <1>3, Moves DEF Latch, Edit, MarkDirty, ReleaseLatch, At, GuardLabels
    <2> QED BY <1>1, <2>1, SamePinGained, TableGainsNoPage DEF GateKept
  <1> QED BY <1>2, <1>3

LEMMA IoKeepsGate ==
    ASSUME TInv, NEW t \in Threads,
           \/ ReadPage(t) \/ ReserveNewPageNo(t) \/ CopyImage(t) \/ WriteImage(t) \/ SyncFile(t)
           \/ ReadPageCount(t) \/ RegisterFile(t)
    PROVE  GateKept
  <1>1. UNCHANGED page_table
    BY DEF ReadPage, ReserveNewPageNo, CopyImage, WriteImage, SyncFile, ReadPageCount, RegisterFile,
           poolVars
  <1>2. ASSUME NEW l \in {"loaded", "extended", "write", "sync", "wrote", "emplace"}, Goto(t, l),
               (\E r : local' = [local EXCEPT ![t] = r]) \/ UNCHANGED local
        PROVE  GateKept
    <2>1. Alone(t) /\ pc'[t] = l
      <3>1. CASE UNCHANGED local
        BY <1>2, <3>1, Moves
      <3>2. CASE \E r : local' = [local EXCEPT ![t] = r]
        BY <1>2, <3>2, OnlyMoves DEF Goto
      <3> QED BY <1>2, <3>1, <3>2
    <2> QED BY <1>1, <2>1, NoPinGained, TableGainsNoPage DEF GateKept
  <1>3. CASE \E res : Return(t, res)
    BY <1>1, <1>3, Returns, NoPinGained, TableGainsNoPage DEF GateKept
  <1>4. CASE ReadPage(t)
    BY <1>2, <1>4 DEF ReadPage
  <1>5. CASE ReserveNewPageNo(t)
    BY <1>2, <1>5 DEF ReserveNewPageNo
  <1>6. CASE CopyImage(t)
    BY <1>2, <1>6 DEF CopyImage
  <1>7. CASE WriteImage(t)
    BY <1>2, <1>7 DEF WriteImage
  <1>8. CASE SyncFile(t)
    BY <1>2, <1>8 DEF SyncFile
  <1>9. CASE ReadPageCount(t)
    BY <1>2, <1>3, <1>9 DEF ReadPageCount
  <1>10. CASE RegisterFile(t)
    BY <1>3, <1>10 DEF RegisterFile
  <1> QED BY <1>4, <1>5, <1>6, <1>7, <1>8, <1>9, <1>10

LEMMA GrantKeepsGate ==
    ASSUME TInv, NEW t \in Threads, NEW f \in Frames, NEW fr, NEW pt \in [PageId -> Entry],
           \A p \in PageId : pt[p].state \in {"ABSENT", "LOAD_INTENT"}
                             \/ pt[p].state = page_table[p].state,
           Granted(t, f, fr, pt)
    PROVE  GateKept
  <1>1. PICK l \in {"extend", "read"} : Goto(t, l) /\ \E r : local' = [local EXCEPT ![t] = r]
    BY DEF Granted
  <1>2. Alone(t) /\ pc'[t] = l
    BY <1>1, OnlyMoves DEF Goto
  <1>3. \A p \in PageId : page_table'[p].state \in {"ABSENT", "LOAD_INTENT", "LOADING"}
                          \/ page_table'[p].state = page_table[p].state
    <2>1. CASE page_table' = pt
      BY <2>1
    <2>2. CASE page_table' = [pt EXCEPT ![local[t].page] = [@ EXCEPT !.state = "LOADING",
                                                                    !.frame = f]]
      BY <2>2 DEF Entry
    <2> QED BY <2>1, <2>2 DEF Granted
  <1> QED BY <1>2, <1>3, NoPinGained, TableGainsNoPage DEF GateKept

LEMMA RefusalKeepsGate ==
    ASSUME TInv, NEW t \in Threads, NEW fs, NEW pt \in [PageId -> Entry],
           \A p \in PageId : pt[p].state \in {"ABSENT", "LOAD_INTENT"}
                             \/ pt[p].state = page_table[p].state \/ InMemory(p),
           local[t].op # "NEW_PAGE" => local[t].page \in PageId,
           Refused(t, pt, fs)
    PROVE  GateKept
  <1>1. CASE local[t].op = "NEW_PAGE"
    <2>1. Alone(t) /\ pc'[t] = "idle" /\ page_table' = pt
      BY <1>1, OnlyMoves DEF Refused, Goto
    <2> QED BY <2>1, NoPinGained, TableGainsNoPage DEF GateKept
  <1>2. CASE local[t].op # "NEW_PAGE"
    <2>1. \A u \in Threads : GainsNoPin(u)
      BY <1>2, FailureGainsNoPin DEF Refused
    <2>2. page_table' = [pt EXCEPT ![local[t].page] = Absent]
      BY <1>2 DEF Refused
    <2>3. \A p \in PageId : page_table'[p].state \in {"ABSENT", "LOAD_INTENT", "LOADING"}
                            \/ page_table'[p].state = page_table[p].state \/ InMemory(p)
      BY <2>2 DEF Absent
    <2> QED BY <2>1, <2>3, TableGainsNoPage DEF GateKept
  <1> QED BY <1>1, <1>2

LEMMA AcquireKeepsGate ==
    ASSUME TInv, Structure, NEW t \in Threads, NEW fs, NEW pt \in [PageId -> Entry],
           \A p \in PageId : pt[p] = Intent \/ pt[p] = page_table[p],
           local[t].op # "NEW_PAGE" => local[t].page \in PageId,
           AcquireFrame(t, pt, fs)
    PROVE  GateKept
  <1>0. \A p \in PageId : pt[p].state = "LOAD_INTENT" \/ pt[p].state = page_table[p].state
    BY DEF Intent
  <1>1. ASSUME NEW f \in free_list, Granted(t, f, frames, pt) PROVE GateKept
    BY <1>0, <1>1, GrantKeepsGate DEF TInv, PoolOK
  <1>2. ASSUME NEW f \in Frames, IsVictimEligible(f),
               Granted(t, f, ResetFrame(frames, f), [pt EXCEPT ![frames[f].page] = Absent])
        PROVE  GateKept
    <2> DEFINE pv == [pt EXCEPT ![frames[f].page] = Absent]
    <2>1. pv \in [PageId -> Entry]
      BY AbsentType
    <2>2. \A p \in PageId : pv[p].state \in {"ABSENT", "LOAD_INTENT"}
                            \/ pv[p].state = page_table[p].state
      BY <1>0 DEF Absent
    <2>3. Granted(t, f, ResetFrame(frames, f), pv)
      BY <1>2
    <2> HIDE DEF pv
    <2> QED BY <2>1, <2>2, <2>3, GrantKeepsGate
  <1>3. ASSUME NEW f \in Frames, IsVictimEligible(f), Goto(t, "write"),
               page_table' = [pt EXCEPT ![frames[f].page].state = "EVICTING"],
               NEW r, local' = [local EXCEPT ![t] = r]
        PROVE  GateKept
    <2>1. PICK v \in PageId : v = frames[f].page /\ page_table[v].state = "RESIDENT"
      BY <1>3, VictimFacts DEF Maps
    <2>2. page_table' = [pt EXCEPT ![v].state = "EVICTING"]
      BY <1>3, <2>1
    <2>3. \A p \in PageId : \/ page_table'[p].state = "LOAD_INTENT"
                            \/ page_table'[p].state = page_table[p].state \/ InMemory(p)
      BY <1>0, <2>1, <2>2 DEF InMemory
    <2>4. Alone(t) /\ pc'[t] = "write"
      BY <1>3, OnlyMoves DEF Goto
    <2> QED BY <2>3, <2>4, NoPinGained, TableGainsNoPage DEF GateKept
  <1>4. CASE Refused(t, pt, fs)
    BY <1>0, <1>4, RefusalKeepsGate
  <1> QED BY <1>1, <1>2, <1>3, <1>4, ZenonT(30) DEF AcquireFrame

LEMMA RequestKeepsGate ==
    ASSUME TInv, Structure, NEW t \in Threads, LoadPage(t) \/ FinishEviction(t) \/ NewPage(t)
    PROVE  GateKept
  <1>0. page_table \in [PageId -> Entry]
    BY DEF TInv, PoolOK
  <1>1. CASE LoadPage(t)
    <2> DEFINE pt == [page_table EXCEPT ![local[t].page] = Intent]
    <2>1. /\ pt \in [PageId -> Entry] /\ AcquireFrame(t, pt, files) /\ local[t].page \in PageId
          /\ \A p \in PageId : pt[p] = Intent \/ pt[p] = page_table[p]
      BY <1>0, <1>1, AbsentType, LocalFacts DEF LoadPage, At
    <2> HIDE DEF pt
    <2> QED BY <2>1, AcquireKeepsGate
  <1>2. CASE NewPage(t)
    <2>1. CASE Return(t, "error") /\ UNCHANGED page_table
      BY <2>1, Returns, NoPinGained, TableGainsNoPage DEF GateKept
    <2>2. CASE UNCHANGED <<page_table, pc, local>>
      BY <2>2, TableGainsNoPage DEF GateKept, GainsNoPin, HoldsPin
    <2>3. ASSUME NEW fs, AcquireFrame(t, page_table, fs) PROVE GateKept
      <3>1. local[t].op = "NEW_PAGE"
        BY <1>2 DEF NewPage, At, TInv, ControlOK, ThreadOK
      <3> QED BY <1>0, <2>3, <3>1, AcquireKeepsGate
    <2> QED BY <1>2, <2>1, <2>2, <2>3 DEF NewPage, poolVars
  <1>3. CASE FinishEviction(t)
    <2> DEFINE v == local[t].target
               pv == [page_table EXCEPT ![v] = Absent]
               pr == [page_table EXCEPT ![v].state = "RESIDENT"]
    <2>1. Evicts(t) /\ local[t].frame \in Frames
      BY <1>3, LocalFacts DEF FinishEviction, At, Evicts, IoLabels, Requests, Fetches, Busy
    <2>2. v \in PageId /\ page_table[v].state = "EVICTING"
      BY <2>1 DEF Structure, ThreadsOwn, ThreadOwns, Maps
    <2>3. local[t].op # "NEW_PAGE" => local[t].page \in PageId
      BY <1>3 DEF FinishEviction, At, TInv, ControlOK, ThreadOK, Fetches
    <2>4. CASE \E fr : Granted(t, local[t].frame, fr, pv)
      <3>1. /\ pv \in [PageId -> Entry]
            /\ \A p \in PageId : pv[p].state = "ABSENT" \/ pv[p].state = page_table[p].state
        BY <1>0, AbsentType DEF Absent
      <3> HIDE DEF pv
      <3> QED BY <2>1, <2>4, <3>1, GrantKeepsGate
    <2>5. CASE Refused(t, pr, files)
      <3>1. pr \in [PageId -> Entry]
        BY <1>0 DEF Entry
      <3>2. \A p \in PageId : pr[p].state = page_table[p].state \/ InMemory(p)
        BY <1>0, <2>2 DEF InMemory
      <3> HIDE DEF pr
      <3> QED BY <2>3, <2>5, <3>1, <3>2, RefusalKeepsGate
    <2> QED BY <1>3, <2>4, <2>5 DEF FinishEviction
  <1> QED BY <1>1, <1>2, <1>3


LEMMA FinishLoadKeepsGate ==
    ASSUME TInv, Structure, NEW t \in Threads, FinishLoad(t)
    PROVE  GateKept
  <1>1. Reads(t) /\ Loads(t) /\ Busy(t)
    BY DEF FinishLoad, At, Reads, Loads, Busy
  <1>2. PICK f \in Frames, p \in PageId : f = local[t].frame /\ p = local[t].page
    BY <1>1, LocalFacts
  <1>3. frames[f].page = p
    BY <1>1, <1>2, OwnedFrame
  <1>4. CASE LoadFails(t)
    <2>1. /\ page_table' = [page_table EXCEPT ![p] = Absent] /\ Goto(t, "idle")
          /\ local' = [Resolve(p, "FAILED") EXCEPT ![t] = [Fresh EXCEPT !.result = "error"]]
      BY <1>2, <1>4 DEF FinishLoad
    <2>2. \A u \in Threads : GainsNoPin(u)
      BY <2>1, FailureGainsNoPin
    <2>3. \A q \in PageId : page_table'[q].state \in {"ABSENT", "LOAD_INTENT", "LOADING"}
                            \/ page_table'[q].state = page_table[q].state
      BY <2>1 DEF Absent, TInv, PoolOK
    <2> QED BY <2>2, <2>3, TableGainsNoPage DEF GateKept
  <1>5. CASE ~LoadFails(t)
    <2>1. /\ files[p.file].state = "ACTIVE" /\ local' = Resolve(p, f) /\ Goto(t, "latch")
          /\ page_table' = [page_table EXCEPT ![p] = [@ EXCEPT !.state = "RESIDENT", !.claims = 0]]
      BY <1>2, <1>5 DEF FinishLoad, LoadFails
    <2>2. GainsNoPage
      BY <2>1 DEF GainsNoPage, InMemory, TInv, PoolOK
    <2>3. /\ \A u \in Threads \ {t} : pc'[u] = pc[u] /\ local'[u] = Resolve(p, f)[u]
          /\ pc'[t] = "latch"
      BY <2>1 DEF Goto, TInv, ControlOK
    <2>4. \A u \in Threads \ {t} :
             /\ pc'[u] = pc[u] /\ SameCall(local[u], local'[u])
             /\ local'[u].load = IF Joins(u, p) THEN f ELSE local[u].load
      BY <2>3, Resolves
    <2>5. ASSUME NEW u \in Threads \ {t} PROVE GainsNoPin(u)
      BY <1>3, <2>1, <2>4 DEF GainsNoPin, HoldsPin, SameCall
    <2>6. local'[t] = local[t]
      BY <1>1, <2>1 DEF Resolve, Joiners, Reads
    <2>7. GainsNoPin(t)
      BY <1>2, <1>3, <2>1, <2>3, <2>6 DEF GainsNoPin, HoldsPin
    <2> QED BY <2>2, <2>5, <2>7 DEF GateKept
  <1> QED BY <1>4, <1>5

LEMMA CreationKeepsGate ==
    ASSUME TInv, Structure, NEW t \in Threads, BindNewPage(t) \/ FinishNewPage(t)
    PROVE  GateKept
  <1>1. CASE Return(t, "error")
    <2>1. \A q \in PageId : page_table'[q].state \in {"ABSENT", "LOADING"}
                            \/ page_table'[q].state = page_table[q].state
      BY <1>1 DEF BindNewPage, FinishNewPage, Return, Goto, TInv, PoolOK, ControlOK, Absent
    <2> QED BY <1>1, <2>1, Returns, NoPinGained, TableGainsNoPage DEF GateKept
  <1>2. CASE BindNewPage(t) /\ Goto(t, "build") /\ \E r : local' = [local EXCEPT ![t] = r]
    <2>1. Alone(t) /\ pc'[t] = "build"
      BY <1>2, OnlyMoves DEF Goto
    <2>2. \A q \in PageId : page_table'[q].state = "LOADING" \/ page_table'[q] = page_table[q]
      BY <1>2 DEF BindNewPage, TInv, PoolOK
    <2> QED BY <2>1, <2>2, NoPinGained, TableGainsNoPage DEF GateKept
  <1>3. CASE /\ FinishNewPage(t) /\ Goto(t, "latch") /\ UNCHANGED local
             /\ files[local[t].file].state = "ACTIVE"
             /\ page_table' = [page_table EXCEPT ![local[t].page].state = "RESIDENT"]
    <2>1. Builds(t) /\ Busy(t)
      BY <1>3 DEF FinishNewPage, At, Builds, Busy
    <2>2. PICK f \in Frames, p \in PageId : f = local[t].frame /\ p = local[t].page
      BY <2>1, LocalFacts
    <2>3. frames[f].page = p /\ files[p.file].state = "ACTIVE"
      BY <1>3, <2>1, <2>2, OwnedFrame DEF Structure, ThreadsOwn, ThreadOwns
    <2>4. Alone(t) /\ pc'[t] = "latch" /\ local'[t] = local[t]
      BY <1>3, Moves
    <2>5. GainsNoPin(t)
      BY <2>2, <2>3, <2>4 DEF GainsNoPin, HoldsPin
    <2>6. GainsNoPage
      BY <1>3, <2>2, <2>3 DEF GainsNoPage, InMemory, TInv, PoolOK
    <2> QED BY <2>4, <2>5, <2>6, OthersGainNoPin DEF GateKept
  <1>4. CASE BindNewPage(t)
    BY <1>1, <1>2, <1>4 DEF BindNewPage
  <1>5. CASE FinishNewPage(t)
    BY <1>1, <1>3, <1>5 DEF FinishNewPage
  <1> QED BY <1>4, <1>5

(* The flush loop takes no pin, and only closing a file takes pages out of the table. *)
LEMMA FlushPagesKeepsGate ==
    ASSUME TInv, NEW t \in Threads, NEW l, NEW fr, NEW fs, NEW aw, FlushPages(t, l, fr, fs, aw)
    PROVE  GateKept
  <1>1. CASE CloseFile(t, l, fr, fs)
    BY <1>1, Returns, NoPinGained, TableGainsNoPage DEF CloseFile, Absent, GateKept
  <1>2. CASE (\E res : Return(t, res)) /\ UNCHANGED page_table
    BY <1>2, Returns, NoPinGained, TableGainsNoPage DEF GateKept
  <1>3. CASE /\ UNCHANGED page_table
             /\ \E x \in {"flush", "copy"} : Goto(t, x) /\ \E r : local' = [local EXCEPT ![t] = r]
    <2>1. Alone(t) /\ pc'[t] \in {"flush", "copy"}
      BY <1>3, OnlyMoves DEF Goto
    <2> QED BY <1>3, <2>1, NoPinGained, TableGainsNoPage DEF GateKept
  <1>4. CASE FlushDone(t, l, fr, fs, aw)
    BY <1>1, <1>2, <1>4 DEF FlushDone
  <1> QED BY <1>3, <1>4, ZenonT(30) DEF FlushPages

LEMMA CloserKeepsGate ==
    ASSUME TInv, NEW t \in Threads,
           \/ Flush(t) \/ FlushWake(t) \/ Reconcile(t) \/ Retire(t) \/ RetireWake(t) \/ Shutdown(t)
    PROVE  GateKept
  <1>1. CASE (\E res : Return(t, res)) /\ UNCHANGED poolVars
    BY <1>1, Returns, NoPinGained, TableGainsNoPage DEF GateKept, poolVars
  <1>2. ASSUME NEW x \in {"threw", "drain", "shutdown"}, Goto(t, x), UNCHANGED <<page_table, local>>
        PROVE  GateKept
    <2>1. Alone(t) /\ pc'[t] = x
      BY <1>2, Moves
    <2> QED BY <1>2, <2>1, NoPinGained, TableGainsNoPage DEF GateKept
  <1>3. ASSUME NEW l, NEW fr, NEW fs, CloseFile(t, l, fr, fs) PROVE GateKept
    BY <1>3, Returns, NoPinGained, TableGainsNoPage DEF CloseFile, Absent, GateKept
  <1>4. ASSUME NEW fs, NEW aw, Drain(t, fs, aw) PROVE GateKept
    BY <1>2, <1>3, <1>4, FlushPagesKeepsGate DEF Drain
  <1>5. ASSUME NEW aw, AwaitIdle(t, aw) PROVE GateKept
    BY <1>2, <1>5, FlushPagesKeepsGate DEF AwaitIdle, poolVars
  <1>6. CASE Flush(t) \/ FlushWake(t) \/ Reconcile(t)
    BY <1>1, <1>6, FlushPagesKeepsGate DEF Flush, FlushWake, Reconcile
  <1>7. CASE Retire(t) \/ RetireWake(t)
    BY <1>1, <1>2, <1>4, <1>7 DEF Retire, RetireWake, poolVars
  <1>8. CASE Shutdown(t)
    BY <1>5, <1>8 DEF Shutdown
  <1> QED BY <1>6, <1>7, <1>8

LEMMA CallKeepsGate ==
    ASSUME TInv, NEW t \in Threads, NEW op \in Operations, NEW p \in PageId, Call(t, op, p)
    PROVE  GateKept
  <1>1. UNCHANGED page_table
    BY DEF Call, poolVars
  <1>2. PICK l \in {"pin", "turn", "start_flush", "retire", "quiesce", "register"} :
           Goto(t, l) /\ \E r : local' = [local EXCEPT ![t] = r]
    BY DEF Call, Operations
  <1>3. Alone(t) /\ pc'[t] = l
    BY <1>2, OnlyMoves DEF Goto
  <1> QED BY <1>1, <1>3, NoPinGained, TableGainsNoPage DEF GateKept

(* From the gate on, RetireFile has only the guards of before to wait for: a fetch that has  *)
(* passed CheckFetchableLocked, a load that has been read and a page that has been built are *)
(* all turned away, whatever threads do and whatever fails.                                  *)
THEOREM NothingPassesTheGate ==
    ASSUME CoordinatedClients
    PROVE  Spec => RetirementGate
  <1>1. PoolInv /\ [Next]_vars => PoolInv'
    BY NextPool
  <1>2. ASSUME PoolInv, [Next]_vars PROVE GateKept
    <2>1. TInv /\ Structure
      BY <1>2 DEF PoolInv, OwnershipInv
    <2>2. ASSUME NEW t \in Threads, Step(t) PROVE GateKept
      BY <2>1, <2>2, FetchKeepsGate, GuardKeepsGate, IoKeepsGate, RequestKeepsGate,
         FinishLoadKeepsGate, CreationKeepsGate, CloserKeepsGate DEF Step
    <2>3. ASSUME NEW t \in Threads, NEW op \in Operations, NEW p \in PageId, Call(t, op, p)
          PROVE  GateKept
      BY <2>1, <2>3, CallKeepsGate
    <2>4. CASE UNCHANGED vars
      BY <2>4 DEF GateKept, GainsNoPage, GainsNoPin, InMemory, HoldsPin, vars
    <2> QED BY <1>2, <2>2, <2>3, <2>4 DEF Next, Terminated
  <1>3. GateKept
        => [\A p \in PageId :
               files[p.file].state # "ACTIVE" /\ files'[p.file].state # "ACTIVE" =>
                  /\ ~InMemory(p) => ~InMemory(p)'
                  /\ \A t \in Threads, f \in Frames :
                        frames[f].page = p /\ ~HoldsPin(t, f) => ~HoldsPin(t, f)']_vars
    BY DEF GateKept, GainsNoPage, GainsNoPin
  <1> QED BY <1>1, <1>2, <1>3, InitPool, PTL DEF Spec, RetirementGate

-----------------------------------------------------------------------------
(* What the contents of frames, images and disk have to do with each other. *)

(* The frame of a page that is in memory. *)
Cached(f) == frames[f].state \in {"RESIDENT", "EVICTING"}

(* Published pages are in the file; so is the page a NewPage has reserved, and the bound a   *)
(* RegisterFile is about to publish.                                                        *)
ThreadBounds(t) ==
    /\ pc[t] = "extended" /\ local[t].ok => local[t].count < physical[local[t].file]
    /\ Builds(t) => local[t].page.no < physical[local[t].file]
    /\ pc[t] = "emplace" => local[t].count =< physical[local[t].file]

Bounds ==
    /\ \A d \in Files : files[d].published =< physical[d]
    /\ \A t \in Threads : ThreadBounds(t)

(* The latch of a frame: who holds it exclusively holds it alone. *)
Latches ==
    \A t, u \in Threads :
       /\ pc[t] \in {"writing", "edited"} /\ pc[u] \in {"reading", "writing", "edited"}
       /\ local[t].frame = local[u].frame
       => t = u

(* Published contents are valid; those of a clean frame are the file's. *)
FrameContents(f) ==
    IF Cached(f)
    THEN /\ Published(f) >= 1
         /\ ~frames[f].dirty => Published(f) = cache[frames[f].page]
    ELSE ~frames[f].dirty

(* What t has read, and the image t writes back: contents of the frame, at the generation    *)
(* that was copied, and on the disk as far as t has come.                                    *)
ThreadContents(t) ==
    LET l == local[t] IN
    /\ pc[t] = "loaded" /\ l.ok => frames[l.frame].ver = cache[l.page]
    /\ Evicts(t) => frames[l.frame].dirty /\ l.img = Published(l.frame)
    /\ Flushes(t) /\ pc[t] # "copy" =>
          l.gen =< frames[l.frame].gen /\ (l.gen = frames[l.frame].gen => l.img = Published(l.frame))
    /\ pc[t] = "sync" => cache[l.target] = l.img
    /\ pc[t] = "wrote" /\ l.ok => cache[l.target] = l.img /\ stable[l.target] = l.img

Contents ==
    /\ Bounds /\ Latches
    /\ \A f \in Frames : FrameContents(f)
    /\ \A t \in Threads : ThreadContents(t)

-----------------------------------------------------------------------------
(* What a step of thread t does to the contents of frame f.                 *)

Saved(f) ==
    cache[frames[f].page] = Published(f) /\ stable[frames[f].page] = Published(f)

(* Nothing: a page stays with its published contents, or the frame stays without a page. A   *)
(* loading frame is written only by its loader.                                             *)
Keeps(t, f) ==
    /\ Cached(f)' <=> Cached(f)
    /\ frames'[f].dirty = frames[f].dirty
    /\ Cached(f) => /\ frames'[f].page = frames[f].page
                    /\ frames'[f].gen = frames[f].gen
                    /\ Published(f)' = Published(f)
    /\ frames[f].state = "LOADING" /\ frames'[f].state = "LOADING" =>
          frames'[f].ver = frames[f].ver \/ (pc[t] = "read" /\ local[t].frame = f)

(* RetireFile discards what has not been saved of file d, and closes the file.               *)
GivesUp(t, d) ==
    /\ pc[t] \in {"retire", "drain"} /\ pc'[t] = "idle"
    /\ local[t].op = "RETIRE_DISCARD" /\ local[t].file = d
    /\ files'[d] = Closed

LEMMA GivingUpDiscards ==
    ASSUME NEW t \in Threads, NEW d, GivesUp(t, d)
    PROVE  Discards(d)
  BY DEF GivesUp, Discards

(* The page leaves: clean, or saved by the eviction of t, or discarded with its file. *)
Leaves(t, f) ==
    /\ Cached(f) /\ ~Cached(f)' /\ ~frames'[f].dirty
    /\ frames[f].dirty => \/ f = local[t].frame /\ Evicts(t) /\ Saved(f)
                          \/ f = local[t].frame /\ Flushes(t) /\ Saved(f)
                          \/ GivesUp(t, frames[f].page.file)

(* A page comes in, as it is in the file. *)
Fills(t, f) ==
    /\ f = local[t].frame /\ pc[t] = "loaded"
    /\ ~Cached(f) /\ Cached(f)' /\ ~frames'[f].dirty
    /\ frames'[f].page = frames[f].page
    /\ Published(f)' = cache[frames[f].page] /\ Published(f)' >= 1

(* A new page is published together with the new bound. *)
Opens(t, f) ==
    /\ f = local[t].frame /\ Builds(t)
    /\ ~Cached(f) /\ Cached(f)' /\ frames'[f].dirty
    /\ frames'[f].page = frames[f].page
    /\ Published(f)' = 1
    /\ files'[frames[f].page.file].published = frames[f].page.no + 1

(* A change is published. *)
Changes(t, f) ==
    /\ f = local[t].frame /\ pc[t] = "edited"
    /\ Cached(f) /\ Cached(f)' /\ frames'[f].dirty
    /\ frames'[f].page = frames[f].page
    /\ frames'[f].gen = frames[f].gen + 1
    /\ Published(f)' = Published(f) + 1

(* The writeback of t has saved the page. *)
Cleans(t, f) ==
    /\ f = local[t].frame /\ Flushes(t) /\ Saved(f)
    /\ Cached(f) /\ Cached(f)' /\ frames[f].dirty /\ ~frames'[f].dirty
    /\ frames'[f].page = frames[f].page
    /\ frames'[f].gen = frames[f].gen
    /\ Published(f)' = Published(f)

FrameMoves(t, f) ==
    \/ Keeps(t, f) \/ Leaves(t, f) \/ Fills(t, f)
    \/ Opens(t, f) \/ Changes(t, f) \/ Cleans(t, f)

(* What a step of t does to page p of the disk: nothing, but for the part of an fdatasync;   *)
(* a write of t's image, which may be torn; a new page at the end of a file.                *)
DiskMoves(t, p) ==
    \/ /\ cache'[p] = cache[p]
       /\ stable'[p] = stable[p] \/ (pc[t] = "sync" /\ stable'[p] = cache[p])
    \/ /\ pc[t] = "write" /\ p = local[t].target
       /\ stable'[p] = stable[p] /\ cache'[p] \in {local[t].img, -1}
    \/ /\ pc[t] = "extend" /\ p.no = physical[p.file]
       /\ cache'[p] = 0 /\ stable'[p] = 0

(* ... to the bound of file d, and to its end. *)
BoundMoves(t, d) ==
    /\ \/ /\ files'[d].published = files[d].published
          /\ files'[d].state = "CLOSED" <=> files[d].state = "CLOSED"
       \/ files'[d] = Closed /\ pc[t] # "idle" /\ local[t].op \in Retires
       \/ /\ Builds(t) /\ d = local[t].page.file /\ (\E f \in Frames : Opens(t, f))
          /\ files[d].state # "CLOSED" /\ files'[d].state # "CLOSED"
          /\ files'[d].published = local[t].page.no + 1
       \/ /\ pc[t] = "emplace" /\ d = local[t].file /\ files[d].state = "CLOSED"
          /\ files'[d].published = local[t].count
    /\ \/ physical'[d] = physical[d]
       \/ pc[t] = "extend" /\ d = local[t].file /\ physical'[d] = physical[d] + 1

(* ... to the latch of its frame, and to the image it carries. *)
LatchMoves(t) ==
    pc'[t] \in {"reading", "writing", "edited"} =>
       /\ local'[t].frame = local[t].frame
       /\ \/ pc[t] \in {"writing", "edited"}
          \/ pc'[t] = "reading" /\ LatchHolders(local[t].frame, {"writing", "edited"}) = {}
          \/ LatchHolders(local[t].frame, {"reading", "writing", "edited"}) = {}

ImageMoves(t) ==
    pc'[t] \in IoLabels =>
       \/ /\ pc[t] \in IoLabels /\ local'[t].img = local[t].img
          /\ local'[t].frame = local[t].frame /\ local'[t].target = local[t].target
       \/ (local[t].img = Published(local[t].frame))'

(* The other threads go on, but for the outcome of a load they have joined. *)
SameWork(l, m) ==
    SameCall(l, m) /\ m.goal = l.goal /\ m.img = l.img /\ m.gen = l.gen /\ m.ok = l.ok /\ m.count = l.count

OthersWait(t) == \A u \in Threads \ {t} : pc'[u] = pc[u] /\ SameWork(local[u], local'[u])

StoreMoves(t) ==
    \/ UNCHANGED <<cache, stable>> /\ \A f \in Frames : FrameMoves(t, f)
    \/ /\ UNCHANGED <<frames, page_table, files>>
       /\ pc[t] # "edited" /\ pc'[t] # "edited"
       /\ \A p \in PageId : DiskMoves(t, p)

(* What t does with its locals. *)
ThreadMoves(t) ==
    /\ ThreadBounds(t)' /\ ThreadContents(t)' /\ LatchMoves(t) /\ ImageMoves(t)
    /\ pc'[t] = "emplace" => local'[t].count = physical'[local'[t].file]

Effect(t) ==
    /\ OthersWait(t) /\ StoreMoves(t) /\ ThreadMoves(t)
    /\ \A d \in Files : BoundMoves(t, d)

-----------------------------------------------------------------------------
(* A step with such an effect preserves Contents.                           *)

LEMMA EditsKept ==
    ASSUME NEW t \in Threads, OthersWait(t), NEW f,
           pc[t] # "edited" \/ local[t].frame # f, pc'[t] # "edited" \/ local'[t].frame # f
    PROVE  LatchHolders(f, {"edited"})' = LatchHolders(f, {"edited"})
  BY DEF LatchHolders, OthersWait, SameWork, SameCall

(* A page with an entry is in the file. *)
LEMMA MappedInFile ==
    ASSUME TInv, Structure, Bounds, NEW p \in PageId, page_table[p].state # "ABSENT"
    PROVE  p.no < physical[p.file]
  <1>1. p.file \in Files /\ p.no \in Int
    BY PageIdFields
  <1>2. files[p.file].published =< physical[p.file]
    BY <1>1 DEF Bounds
  <1>3. files[p.file].published \in Nat /\ physical[p.file] \in Nat
    BY <1>1 DEF TInv, PoolOK, FileEntry, DiskOK
  <1>4. CASE p.no < files[p.file].published
    BY <1>1, <1>2, <1>3, <1>4
  <1>5. ASSUME NEW t \in Threads, Builds(t), local[t].page = p PROVE p.no < physical[p.file]
    BY <1>5 DEF Bounds, ThreadBounds, Structure, ThreadsOwn, ThreadOwns
  <1> QED BY <1>4, <1>5 DEF Structure, MappedBelow, Below

LEMMA BoundsStep ==
    ASSUME TInv, TInv', Structure, Bounds, NEW t \in Threads, OthersWait(t), ThreadBounds(t)',
           \A d \in Files : BoundMoves(t, d)
    PROVE  Bounds'
  <1>1. ASSUME NEW d \in Files
        PROVE  physical'[d] >= physical[d] /\ files'[d].published =< physical'[d]
    <2>1. /\ files[d].published \in Nat /\ files'[d].published \in Nat
          /\ physical[d] \in Nat /\ physical'[d] \in Nat
      BY DEF TInv, PoolOK, DiskOK, FileEntry
    <2>2. physical'[d] >= physical[d] /\ files[d].published =< physical[d] /\ BoundMoves(t, d)
      BY <2>1 DEF BoundMoves, Bounds
    <2>3. CASE files'[d] = Closed
      BY <2>1, <2>2, <2>3 DEF Closed
    <2>4. CASE Builds(t) /\ d = local[t].page.file /\ files'[d].published = local[t].page.no + 1
      <3>1. local[t].page.no < physical[d]
        BY <2>4 DEF Bounds, ThreadBounds, Structure, ThreadsOwn, ThreadOwns
      <3>2. local[t].page.no \in Int
        BY <2>4, LocalFacts, PageIdFields
      <3> QED BY <2>1, <2>2, <2>4, <3>1, <3>2
    <2>5. CASE pc[t] = "emplace" /\ d = local[t].file /\ files'[d].published = local[t].count
      BY <2>1, <2>2, <2>5 DEF Bounds, ThreadBounds
    <2> QED BY <2>1, <2>2, <2>3, <2>4, <2>5 DEF BoundMoves
  <1>2. ASSUME NEW u \in Threads \ {t} PROVE ThreadBounds(u)'
    <2>1. /\ pc'[u] = pc[u] /\ local'[u].ok = local[u].ok /\ local'[u].count = local[u].count
          /\ local'[u].page = local[u].page /\ local'[u].file = local[u].file
      BY DEF OthersWait, SameWork, SameCall
    <2>2. pc[u] # "idle" => local[u].file \in Files
      BY DEF TInv, ControlOK, ThreadOK
    <2>3. local[u] \in Local /\ ThreadBounds(u)
      BY LocalFacts DEF Bounds
    <2>4. local[u].count \in Nat /\ (Builds(u) => local[u].page.no \in Int)
      BY <2>3, LocalFacts, PageIdFields DEF Local
    <2>5. local[u].file \in Files =>
            physical[local[u].file] \in Nat /\ physical'[local[u].file] \in Nat
      BY DEF TInv, DiskOK
    <2> QED BY <1>1, <2>1, <2>2, <2>3, <2>4, <2>5 DEF ThreadBounds, Builds
  <1> QED BY <1>1, <1>2 DEF Bounds

LEMMA LatchesStep ==
    ASSUME NEW t \in Threads, Latches, OthersWait(t), LatchMoves(t)
    PROVE  Latches'
  <1>1. ASSUME NEW u \in Threads \ {t}
        PROVE  pc'[u] = pc[u] /\ local'[u].frame = local[u].frame
    BY DEF OthersWait, SameWork, SameCall
  <1>2. ASSUME NEW u \in Threads \ {t}, local'[t].frame = local[u].frame,
               pc'[t] \in {"writing", "edited"}, pc[u] \in {"reading", "writing", "edited"}
        PROVE  FALSE
    BY <1>2 DEF LatchMoves, Latches, LatchHolders
  <1>3. ASSUME NEW u \in Threads \ {t}, local'[t].frame = local[u].frame,
               pc'[t] \in {"reading", "writing", "edited"}, pc[u] \in {"writing", "edited"}
        PROVE  FALSE
    BY <1>3 DEF LatchMoves, Latches, LatchHolders
  <1> QED BY <1>1, <1>2, <1>3 DEF Latches

(* Frames and their contents have types. *)
LEMMA ContentsTypes ==
    ASSUME TInv
    PROVE  /\ \A f \in Frames : /\ frames[f].ver \in Int /\ frames[f].gen \in Nat
                               /\ Published(f) \in Int /\ frames[f].dirty \in BOOLEAN
           /\ \A p \in PageId : cache[p] \in Int /\ stable[p] \in Int
           /\ \A t \in Threads : local[t].img \in Int /\ local[t].gen \in Nat
  <1>1. \A f \in Frames : frames[f].ver \in Int /\ frames[f].gen \in Nat /\ frames[f].dirty \in BOOLEAN
    BY DEF TInv, PoolOK, Frame, Version
  <1>2. \A t \in Threads : local[t].img \in Int /\ local[t].gen \in Nat
    BY LocalFacts DEF Local, Version
  <1> QED BY <1>1, <1>2 DEF Published, TInv, DiskOK, Version

(* The frame of a mapped page is the only one bound to it. *)
LEMMA CachedPage ==
    ASSUME TInv, Structure
    PROVE  /\ \A f \in Frames : Cached(f) => /\ frames[f].page \in PageId /\ InMemory(frames[f].page)
                                            /\ page_table[frames[f].page].frame = f
           /\ \A p \in PageId : InMemory(p) => /\ page_table[p].frame \in Frames
                                              /\ Cached(page_table[p].frame)
                                              /\ frames[page_table[p].frame].page = p
           /\ \A f \in Frames : frames[f].page \in PageId =>
                 /\ page_table[frames[f].page].frame = f
                 /\ page_table[frames[f].page].state = frames[f].state
  <1>1. \A f \in Frames : Cached(f) => /\ frames[f].page \in PageId /\ InMemory(frames[f].page)
                                      /\ page_table[frames[f].page].frame = f
    BY DEF Structure, FramesBound, FrameBound, Maps, Cached, InMemory
  <1>2. \A p \in PageId : InMemory(p) => /\ page_table[p].frame \in Frames
                                        /\ Cached(page_table[p].frame)
                                        /\ frames[page_table[p].frame].page = p
    <2>1. ASSUME NEW p \in PageId, InMemory(p), NEW s \in {"RESIDENT", "EVICTING"},
                 page_table[p].state = s
          PROVE  /\ page_table[p].frame \in Frames /\ Cached(page_table[p].frame)
                 /\ frames[page_table[p].frame].page = p
      <3>1. Maps(p, s, page_table[p].frame)
        BY <2>1 DEF Maps
      <3> QED BY <3>1, MappedFrame DEF Cached
    <2> QED BY <2>1 DEF InMemory
  <1>3. \A f \in Frames : frames[f].page \in PageId =>
           /\ page_table[frames[f].page].frame = f
           /\ page_table[frames[f].page].state = frames[f].state
    BY BoundPage
  <1> QED BY <1>1, <1>2, <1>3

(* A thread that writes an image has its page in a dirty frame. *)
LEMMA WriterFacts ==
    ASSUME TInv, Structure, Contents, NEW t \in Threads, pc[t] \in IoLabels
    PROVE  LET f == local[t].frame IN
           /\ (Evicts(t) \/ Flushes(t)) /\ Busy(t)
           /\ f \in Frames /\ Cached(f) /\ frames[f].dirty
           /\ local[t].target \in PageId /\ frames[f].page = local[t].target
           /\ page_table[local[t].target].frame = f
           /\ InMemory(local[t].target)
  <1>1. (Evicts(t) \/ Flushes(t)) /\ Busy(t)
    BY DEF Evicts, Flushes, Busy
  <1>2. ThreadOwns(t) /\ ThreadContents(t)
    BY DEF Structure, ThreadsOwn, Contents
  <1>3. /\ local[t].target \in PageId /\ page_table[local[t].target].frame = local[t].frame
        /\ InMemory(local[t].target) /\ frames[local[t].frame].dirty
    BY <1>1, <1>2 DEF ThreadOwns, ThreadContents, Maps, InMemory
  <1> QED BY <1>1, <1>3, CachedPage

LEMMA WritersApart ==
    ASSUME TInv, Structure, Contents, NEW t \in Threads, NEW u \in Threads \ {t},
           pc[t] \in IoLabels, pc[u] \in IoLabels
    PROVE  local[t].target # local[u].target /\ local[t].frame # local[u].frame
  <1>1. Busy(t) /\ Busy(u)
    BY DEF Busy, Evicts, Flushes
  <1>2. local[t].frame # local[u].frame
    BY <1>1 DEF Structure, ThreadsApart
  <1> QED BY <1>2, WriterFacts

(* The frame of a guard is resident. *)
LEMMA GuardFrame ==
    ASSUME TInv, Pins, NEW t \in Threads, pc[t] \in {"reading", "writing", "edited"}
    PROVE  local[t].frame \in Frames /\ frames[local[t].frame].state = "RESIDENT"
  <1>1. local[t].frame \in Frames
    BY DEF TInv, ControlOK, ThreadOK, FrameLabels
  <1>2. t \in Pinners(local[t].frame)
    BY DEF Pinners, HoldsPin
  <1> QED BY <1>1, <1>2 DEF Pins, PinBound

(* What a step that moves the frames leaves true of the contents of the frames ... *)
LEMMA FramesStep ==
    ASSUME TInv, TInv', Contents, NEW t \in Threads, UNCHANGED <<cache, stable>>,
           \A f \in Frames : FrameMoves(t, f)
    PROVE  \A f \in Frames : FrameContents(f)'
  <1> SUFFICES ASSUME NEW f \in Frames PROVE FrameContents(f)'
    OBVIOUS
  <1>0. FrameContents(f) /\ FrameMoves(t, f) /\ Published(f) \in Int /\ cache' = cache
    BY ContentsTypes DEF Contents
  <1>1. CASE Keeps(t, f)
    BY <1>0, <1>1 DEF Keeps, FrameContents, Cached
  <1>2. CASE Leaves(t, f)
    BY <1>0, <1>2 DEF Leaves, FrameContents
  <1>3. CASE Fills(t, f)
    BY <1>0, <1>3 DEF Fills, FrameContents
  <1>4. CASE Opens(t, f)
    BY <1>0, <1>4 DEF Opens, FrameContents
  <1>5. CASE Changes(t, f)
    <2>1. Published(f)' >= 1
      BY <1>0, <1>5 DEF Changes, FrameContents
    <2> QED BY <1>5, <2>1 DEF Changes, FrameContents
  <1>6. CASE Cleans(t, f)
    BY <1>0, <1>6 DEF Cleans, FrameContents, Saved
  <1> QED BY <1>0, <1>1, <1>2, <1>3, <1>4, <1>5, <1>6 DEF FrameMoves

(* The frame a thread loads, evicts or flushes, before a step and after it. *)
OwnersFrames ==
    \A u \in Threads : LET f == local[u].frame IN
       /\ Busy(u) => f \in Frames
       /\ Reads(u) \/ Builds(u) => frames[f].state = "LOADING" /\ frames[f].page = local[u].page
       /\ Evicts(u) => frames[f].state = "EVICTING" /\ frames[f].page = local[u].target
       /\ Flushes(u) => frames[f].state = "RESIDENT" /\ frames[f].page = local[u].target

LEMMA OwnersBefore == TInv /\ Structure => OwnersFrames
  BY OwnedFrame DEF OwnersFrames

LEMMA OwnersAfter == TInv' /\ Structure' => OwnersFrames'
  BY OwnersBefore, PTL

(* ... and of those a thread that does not move has seen. *)
LEMMA WaitersStep ==
    ASSUME TInv, TInv', Structure, Structure', Pins, Contents, NEW t \in Threads, OthersWait(t),
           UNCHANGED <<cache, stable>>, \A f \in Frames : FrameMoves(t, f), NEW u \in Threads \ {t}
    PROVE  ThreadContents(u)'
  <1>0. ThreadContents(u) /\ pc'[u] = pc[u] /\ SameWork(local[u], local'[u])
    BY DEF Contents, OthersWait
  <1>1. PICK f : f = local[u].frame
    OBVIOUS
  <1> DEFINE l == local[u]
  <1>2. /\ local'[u].frame = f /\ local'[u].page = l.page /\ local'[u].target = l.target
        /\ local'[u].img = l.img /\ local'[u].gen = l.gen /\ local'[u].ok = l.ok /\ local'[u].op = l.op
    BY <1>0, <1>1 DEF SameWork, SameCall
  <1>3. /\ Reads(u)' <=> Reads(u)
        /\ Evicts(u)' <=> Evicts(u)
        /\ Flushes(u)' <=> Flushes(u)
    BY <1>0, <1>2 DEF Reads, Evicts, Flushes
  <1>4. Busy(u) => /\ f \in Frames /\ FrameMoves(t, f)
                   /\ Busy(t) => local[t].frame # f
    BY <1>1, LocalFacts DEF Structure, ThreadsApart
  <1>5. OwnersFrames /\ OwnersFrames'
    BY OwnersBefore, OwnersAfter
  <1>6. ASSUME pc[u] = "loaded", l.ok PROVE frames'[f].ver = cache[l.page]
    <2>1. Reads(u) /\ Busy(u) /\ Reads(u)'
      BY <1>3, <1>6 DEF Reads, Busy
    <2>2. frames[f].state = "LOADING" /\ frames'[f].state = "LOADING"
      BY <1>1, <1>2, <1>5, <2>1 DEF OwnersFrames
    <2>3. Keeps(t, f)
      BY <1>4, <2>1, <2>2 DEF FrameMoves, Leaves, Fills, Opens, Changes, Cleans, Cached
    <2>4. pc[t] = "read" => local[t].frame # f
      BY <1>4, <2>1 DEF Busy, Reads
    <2> QED BY <1>0, <1>1, <1>6, <2>2, <2>3, <2>4 DEF Keeps, ThreadContents
  <1>7. ASSUME Evicts(u) PROVE frames'[f].dirty /\ l.img = Published(f)'
    <2>1. Busy(u) /\ Evicts(u)'
      BY <1>3, <1>7 DEF Busy
    <2>2. frames[f].state = "EVICTING" /\ frames'[f].state = "EVICTING"
      BY <1>1, <1>2, <1>5, <1>7, <2>1 DEF OwnersFrames
    <2>3. ~Changes(t, f)
      BY <2>2, GuardFrame DEF Changes
    <2>4. ~Cleans(t, f)
      BY <1>4, <2>1 DEF Cleans, Busy
    <2>5. Keeps(t, f)
      BY <1>4, <2>1, <2>2, <2>3, <2>4 DEF FrameMoves, Leaves, Fills, Opens, Cached
    <2> QED BY <1>0, <1>1, <1>7, <2>2, <2>5 DEF Keeps, ThreadContents, Cached
  <1>8. ASSUME Flushes(u), pc[u] # "copy"
        PROVE  /\ l.gen =< frames'[f].gen
               /\ l.gen = frames'[f].gen => l.img = Published(f)'
    <2>1. Busy(u) /\ Flushes(u)'
      BY <1>3, <1>8 DEF Busy
    <2>2. frames[f].state = "RESIDENT" /\ frames'[f].state = "RESIDENT"
      BY <1>1, <1>2, <1>5, <1>8, <2>1 DEF OwnersFrames
    <2>3. l.gen =< frames[f].gen /\ (l.gen = frames[f].gen => l.img = Published(f))
      BY <1>0, <1>1, <1>8 DEF ThreadContents
    <2>4. l.gen \in Nat /\ frames[f].gen \in Nat
      BY <1>4, <2>1, ContentsTypes
    <2>5. \/ Keeps(t, f) \/ Changes(t, f) \/ Cleans(t, f)
      BY <1>4, <2>1, <2>2 DEF FrameMoves, Leaves, Fills, Opens, Cached
    <2>6. \/ frames'[f].gen = frames[f].gen /\ Published(f)' = Published(f)
          \/ frames'[f].gen = frames[f].gen + 1
      BY <2>2, <2>5 DEF Keeps, Changes, Cleans, Cached
    <2> QED BY <2>3, <2>4, <2>6
  <1>9. /\ pc[u] = "sync" => cache'[l.target] = l.img
        /\ pc[u] = "wrote" /\ l.ok => cache'[l.target] = l.img /\ stable'[l.target] = l.img
    BY <1>0 DEF ThreadContents
  <1> HIDE DEF l
  <1> QED BY <1>0, <1>2, <1>3, <1>6, <1>7, <1>8, <1>9 DEF ThreadContents

(* A step that leaves the frames alone publishes nothing. *)
LEMMA PublishedKept ==
    ASSUME NEW t \in Threads, OthersWait(t), frames' = frames, pc[t] # "edited", pc'[t] # "edited"
    PROVE  \A f : Published(f)' = Published(f)
  BY EditsKept DEF Published

(* A page some thread works on, or a clean page in memory, is not the one t writes. *)
LEMMA DiskKept ==
    ASSUME TInv, Structure, Contents, NEW t \in Threads, NEW p \in PageId, DiskMoves(t, p),
           page_table[p].state # "ABSENT", pc[t] = "write" => p # local[t].target
    PROVE  cache'[p] = cache[p] /\ stable'[p] \in {stable[p], cache[p]}
  <1>1. p.no < physical[p.file] /\ p.file \in Files /\ p.no \in Int
    BY MappedInFile, PageIdFields DEF Contents
  <1>2. physical[p.file] \in Nat
    BY <1>1 DEF TInv, DiskOK
  <1> QED BY <1>1, <1>2 DEF DiskMoves

LEMMA DiskStep ==
    ASSUME TInv, TInv', Structure, Contents, NEW t \in Threads, OthersWait(t),
           UNCHANGED <<frames, page_table, files>>, pc[t] # "edited", pc'[t] # "edited",
           \A p \in PageId : DiskMoves(t, p)
    PROVE  /\ \A f \in Frames : FrameContents(f)'
           /\ \A u \in Threads \ {t} : ThreadContents(u)'
  <1>0. (\A f : Published(f)' = Published(f)) /\ frames' = frames
    BY PublishedKept
  <1>1. ASSUME NEW f \in Frames PROVE FrameContents(f)'
    <2>1. FrameContents(f) /\ (Cached(f)' <=> Cached(f)) /\ frames'[f] = frames[f]
          /\ Published(f)' = Published(f)
      BY <1>0 DEF Contents, Cached
    <2>2. ASSUME Cached(f), ~frames[f].dirty PROVE cache'[frames[f].page] = cache[frames[f].page]
      <3>1. frames[f].page \in PageId /\ InMemory(frames[f].page)
        BY <2>2, CachedPage
      <3>2. pc[t] = "write" => frames[f].page # local[t].target
        BY <2>2, WriterFacts, CachedPage DEF IoLabels
      <3> QED BY <3>1, <3>2, DiskKept DEF InMemory
    <2> QED BY <2>1, <2>2 DEF FrameContents
  <1>2. ASSUME NEW u \in Threads \ {t} PROVE ThreadContents(u)'
    <2> DEFINE l == local[u]
    <2>0. ThreadContents(u) /\ pc'[u] = pc[u] /\ SameWork(l, local'[u]) /\ ThreadOwns(u)
      BY DEF Contents, OthersWait, Structure, ThreadsOwn
    <2>1. /\ local'[u].frame = l.frame /\ local'[u].page = l.page /\ local'[u].target = l.target
          /\ local'[u].img = l.img /\ local'[u].gen = l.gen /\ local'[u].ok = l.ok /\ local'[u].op = l.op
      BY <2>0 DEF SameWork, SameCall
    <2>2. (Evicts(u)' <=> Evicts(u)) /\ (Flushes(u)' <=> Flushes(u))
      BY <2>0, <2>1 DEF Evicts, Flushes
    <2>3. ASSUME pc[u] = "loaded" PROVE cache'[l.page] = cache[l.page]
      <3>1. l.page \in PageId /\ page_table[l.page].state = "LOADING"
        BY <2>0, <2>3 DEF ThreadOwns, Reads, Maps
      <3>2. pc[t] = "write" => l.page # local[t].target
        BY <3>1, WriterFacts DEF IoLabels, InMemory
      <3> QED BY <3>1, <3>2, DiskKept
    <2>4. ASSUME pc[u] \in {"sync", "wrote"}
          PROVE  /\ cache'[l.target] = cache[l.target]
                 /\ stable'[l.target] \in {stable[l.target], cache[l.target]}
      <3>1. l.target \in PageId /\ page_table[l.target].state # "ABSENT"
        BY <2>4, WriterFacts DEF IoLabels, InMemory
      <3>2. pc[t] = "write" => l.target # local[t].target
        BY <2>4, WritersApart DEF IoLabels
      <3> QED BY <3>1, <3>2, DiskKept
    <2>5. Published(local[u].frame)' = Published(l.frame)
      <3>1. PICK f : f = l.frame
        OBVIOUS
      <3>2. Published(f)' = Published(f) /\ local'[u].frame = f
        BY <1>0, <2>1, <3>1
      <3> QED BY <3>1, <3>2
    <2> HIDE DEF l
    <2> QED BY <1>0, <2>0, <2>1, <2>2, <2>3, <2>4, <2>5 DEF ThreadContents, l
  <1> QED BY <1>1, <1>2

LEMMA ContentsStep ==
    ASSUME TInv, TInv', OwnershipInv, OwnershipInv', Contents, NEW t \in Threads, Effect(t)
    PROVE  Contents'
  <1>0. /\ Structure /\ Structure' /\ Pins /\ Bounds /\ Latches /\ OthersWait(t) /\ ThreadMoves(t)
        /\ \A d \in Files : BoundMoves(t, d)
    BY DEF OwnershipInv, Contents, Effect
  <1>1. Bounds'
    BY <1>0, BoundsStep DEF ThreadMoves
  <1>2. Latches'
    BY <1>0, LatchesStep DEF ThreadMoves
  <1>3. (\A f \in Frames : FrameContents(f)') /\ (\A u \in Threads \ {t} : ThreadContents(u)')
    <2>1. CASE UNCHANGED <<cache, stable>> /\ \A f \in Frames : FrameMoves(t, f)
      BY <1>0, <2>1, FramesStep, WaitersStep
    <2>2. CASE /\ UNCHANGED <<frames, page_table, files>>
               /\ pc[t] # "edited" /\ pc'[t] # "edited"
               /\ \A p \in PageId : DiskMoves(t, p)
      BY <1>0, <2>2, DiskStep
    <2> QED BY <2>1, <2>2 DEF Effect, StoreMoves
  <1>4. \A u \in Threads : ThreadContents(u)'
    BY <1>0, <1>3 DEF ThreadMoves
  <1> QED BY <1>1, <1>2, <1>3, <1>4 DEF Contents

-----------------------------------------------------------------------------
(* The parts of an effect.                                                  *)

DullLabels == Labels \ ({"loaded", "extended", "build", "emplace", "reading", "writing", "edited"}
                        \cup IoLabels)

(* At the other labels a thread knows nothing about contents. *)
LEMMA DullMoves ==
    ASSUME NEW t \in Threads, pc'[t] \in DullLabels
    PROVE  ThreadMoves(t)
  BY DEF DullLabels, ThreadMoves, ThreadBounds, ThreadContents, LatchMoves, ImageMoves, Builds,
         Evicts, Flushes, IoLabels

(* A step of t that changes only its own locals and goes to label l. *)
LEMMA GoesTo ==
    ASSUME TInv, NEW t \in Threads, NEW l, Goto(t, l),
           \/ \E r : local' = [local EXCEPT ![t] = r]
           \/ \A u \in Threads \ {t} : local'[u] = local[u]
    PROVE  Alone(t) /\ pc'[t] = l
  BY DEF TInv, ControlOK, Goto, Alone

LEMMA AloneWaits ==
    ASSUME NEW t \in Threads, Alone(t)
    PROVE  OthersWait(t)
  BY DEF Alone, OthersWait, SameWork, SameCall

LEMMA ResolveWaits ==
    ASSUME TInv, NEW t \in Threads, NEW p, NEW x,
           \A u \in Threads \ {t} : pc'[u] = pc[u] /\ local'[u] = Resolve(p, x)[u]
    PROVE  OthersWait(t)
  <1> SUFFICES ASSUME NEW u \in Threads \ {t}
               PROVE  pc'[u] = pc[u] /\ SameWork(local[u], local'[u])
    BY DEF OthersWait
  <1>1. local[u] \in Local
    BY LocalFacts
  <1>2. local'[u] = local[u] \/ local'[u] = [local[u] EXCEPT !.load = x]
    BY DEF Resolve
  <1>3. SameWork(local[u], [local[u] EXCEPT !.load = x])
    BY <1>1 DEF SameWork, SameCall, Local
  <1> QED BY <1>2, <1>3 DEF SameWork, SameCall

(* A frame keeps its contents if nothing about them changes ... *)
LEMMA FrameUntouched ==
    ASSUME NEW t \in Threads, NEW f \in Frames, OthersWait(t),
           pc[t] # "edited" \/ local[t].frame # f, pc'[t] # "edited" \/ local'[t].frame # f,
           frames'[f].state = frames[f].state, frames'[f].page = frames[f].page,
           frames'[f].dirty = frames[f].dirty, frames'[f].gen = frames[f].gen,
           frames'[f].ver = frames[f].ver
    PROVE  Keeps(t, f)
  BY EditsKept DEF Keeps, Cached, Published

(* ... and has none as long as no page is in it. *)
LEMMA FrameUnused ==
    ASSUME TInv, Contents, NEW t \in Threads, NEW f \in Frames, ~Cached(f), ~Cached(f)',
           frames'[f].dirty = FALSE, frames[f].state # "LOADING" \/ frames'[f].state # "LOADING"
    PROVE  Keeps(t, f)
  BY ContentsTypes DEF Keeps, Contents, FrameContents

LEMMA BoundsKept ==
    ASSUME NEW t \in Threads, physical' = physical,
           \A d \in Files : /\ files'[d].published = files[d].published
                            /\ files'[d].state = "CLOSED" <=> files[d].state = "CLOSED"
    PROVE  \A d \in Files : BoundMoves(t, d)
  BY DEF BoundMoves

(* A step that leaves the pool's contents and the disk alone and ends at a dull label. *)
LEMMA DullStep ==
    ASSUME TInv, NEW t \in Threads, OthersWait(t), pc[t] # "edited", pc'[t] \in DullLabels,
           UNCHANGED <<diskVars, files>>,
           \A f \in Frames : /\ frames'[f].state = frames[f].state /\ frames'[f].page = frames[f].page
                             /\ frames'[f].dirty = frames[f].dirty /\ frames'[f].gen = frames[f].gen
                             /\ frames'[f].ver = frames[f].ver
    PROVE  Effect(t)
  <1>1. pc'[t] # "edited"
    BY DEF DullLabels
  <1>2. \A f \in Frames : Keeps(t, f)
    BY <1>1, FrameUntouched
  <1>3. \A d \in Files : BoundMoves(t, d)
    BY BoundsKept DEF diskVars
  <1> QED BY <1>2, <1>3, DullMoves DEF Effect, StoreMoves, FrameMoves, diskVars

-----------------------------------------------------------------------------
(* Fetches and guards.                                                      *)

LEMMA FetchEffect ==
    ASSUME TInv, NEW t \in Threads,
           FetchRefused(t) \/ PinResident(t) \/ AwaitEviction(t) \/ JoinLoad(t) \/ JoinWake(t)
    PROVE  Effect(t)
  <1>0. /\ pc[t] # "edited"
        /\ UNCHANGED <<diskVars, files>>
    BY DEF FetchRefused, PinResident, AwaitEviction, JoinLoad, JoinWake, At, poolVars
  <1>1. Alone(t) /\ pc'[t] \in DullLabels
    <2>1. CASE FetchRefused(t)
      BY <2>1, Returns DEF FetchRefused, DullLabels, Labels, IoLabels
    <2>2. CASE PinResident(t)
      BY <2>2, GoesTo DEF PinResident, DullLabels, Labels, IoLabels
    <2>3. CASE AwaitEviction(t)
      BY <2>3 DEF AwaitEviction, Alone, At, DullLabels, Labels, IoLabels
    <2>4. CASE JoinLoad(t)
      BY <2>4, GoesTo DEF JoinLoad, DullLabels, Labels, IoLabels
    <2>5. CASE JoinWake(t)
      <3>1. CASE UNCHANGED <<pc, local>>
        BY <2>5, <3>1 DEF JoinWake, Alone, At, DullLabels, Labels, IoLabels
      <3>2. CASE Return(t, "error")
        BY <3>2, Returns DEF DullLabels, Labels, IoLabels
      <3>3. CASE /\ Goto(t, "latch")
                 /\ local' = [local EXCEPT ![t] = [@ EXCEPT !.frame = local[t].load, !.load = "NONE"]]
        BY <3>3, GoesTo DEF DullLabels, Labels, IoLabels
      <3> QED BY <2>5, <3>1, <3>2, <3>3 DEF JoinWake
    <2> QED BY <2>1, <2>2, <2>3, <2>4, <2>5
  <1>2. \A f \in Frames :
           /\ frames'[f].state = frames[f].state /\ frames'[f].page = frames[f].page
           /\ frames'[f].dirty = frames[f].dirty /\ frames'[f].gen = frames[f].gen
           /\ frames'[f].ver = frames[f].ver
    <2>1. CASE frames' = frames
      BY <2>1
    <2>2. CASE PinResident(t)
      <3>1. frames' = [frames EXCEPT ![page_table[local[t].page].frame].pin = @ + 1]
        BY <2>2 DEF PinResident
      <3> QED BY <3>1 DEF TInv, PoolOK, Frame
    <2> QED BY <2>1, <2>2 DEF FetchRefused, AwaitEviction, JoinLoad, JoinWake, poolVars
  <1> QED BY <1>0, <1>1, <1>2, AloneWaits, DullStep

LEMMA UnpinEffect ==
    ASSUME TInv, NEW t \in Threads, Unpin(t)
    PROVE  Effect(t)
  <1>1. Alone(t) /\ pc'[t] = "idle" /\ pc[t] = "unpin"
    BY Returns DEF Unpin, At
  <1>2. \A f \in Frames :
           /\ frames'[f].state = frames[f].state /\ frames'[f].page = frames[f].page
           /\ frames'[f].dirty = frames[f].dirty /\ frames'[f].gen = frames[f].gen
           /\ frames'[f].ver = frames[f].ver
    <2>1. frames' = [frames EXCEPT ![local[t].frame].pin = IF @ = 0 THEN 0 ELSE @ - 1]
      BY DEF Unpin
    <2> QED BY <2>1 DEF TInv, PoolOK, Frame
  <1> QED BY <1>1, <1>2, AloneWaits, DullStep DEF Unpin, DullLabels, Labels, IoLabels

(* A thread with a guard knows only that it has the latch. *)
LEMMA GuardMoves ==
    ASSUME NEW t \in Threads, pc'[t] \in {"reading", "writing", "edited"}, LatchMoves(t)
    PROVE  ThreadMoves(t)
  BY DEF ThreadMoves, ThreadBounds, ThreadContents, ImageMoves, Builds, Evicts, Flushes, IoLabels

LEMMA LatchEffect ==
    ASSUME TInv, NEW t \in Threads, Latch(t) \/ ReleaseLatch(t)
    PROVE  Effect(t)
  <1>0. UNCHANGED <<poolVars, diskVars, local>> /\ pc[t] # "edited"
    BY DEF Latch, ReleaseLatch, At
  <1>1. CASE ReleaseLatch(t)
    <2>1. Alone(t) /\ pc'[t] = "unpin"
      BY <1>1, Moves DEF ReleaseLatch
    <2> QED BY <1>0, <2>1, AloneWaits, DullStep DEF poolVars, DullLabels, Labels, IoLabels
  <1>2. CASE Latch(t)
    <2>1. /\ Alone(t) /\ local' = local
          /\ \/ pc'[t] = "reading"
             \/ pc'[t] = "writing" /\ LatchHolders(local[t].frame, {"reading"}) = {}
      BY <1>0, <1>2, Moves DEF Latch
    <2>2. LatchMoves(t)
      BY <1>2, <2>1 DEF LatchMoves, Latch, LatchHolders
    <2>3. OthersWait(t) /\ ThreadMoves(t)
      BY <2>1, <2>2, AloneWaits, GuardMoves
    <2>4. \A f \in Frames : Keeps(t, f)
      BY <1>0, <2>1, <2>3, FrameUntouched DEF poolVars
    <2>5. \A d \in Files : BoundMoves(t, d)
      BY <1>0, BoundsKept DEF poolVars, diskVars
    <2> QED BY <1>0, <2>3, <2>4, <2>5 DEF Effect, StoreMoves, FrameMoves, diskVars
  <1> QED BY <1>1, <1>2

LEMMA EditEffect ==
    ASSUME TInv, Structure, Pins, Contents, NEW t \in Threads, Edit(t) \/ MarkDirty(t)
    PROVE  Effect(t)
  <1>0. /\ UNCHANGED <<page_table, files, local, diskVars>> /\ pc[t] \in {"writing", "edited"}
        /\ pc'[t] \in {"writing", "edited"} /\ Alone(t) /\ OthersWait(t)
    <2>1. UNCHANGED <<page_table, files, local, diskVars>> /\ pc[t] \in {"writing", "edited"}
      BY DEF Edit, MarkDirty, At
    <2>2. Goto(t, "edited") \/ Goto(t, "writing")
      BY DEF Edit, MarkDirty
    <2> QED BY <2>1, <2>2, Moves, AloneWaits
  <1>1. PICK f \in Frames : f = local[t].frame /\ local'[t].frame = f /\ frames[f].state = "RESIDENT"
    BY <1>0, GuardFrame
  <1>2. LatchHolders(f, {"edited"}) = IF pc[t] = "edited" THEN {t} ELSE {}
    <2>1. \A u \in Threads : pc[u] = "edited" /\ local[u].frame = f => u = t
      BY <1>0, <1>1 DEF Contents, Latches
    <2> QED BY <1>1, <2>1 DEF LatchHolders
  <1>3. LatchHolders(f, {"edited"})' = IF pc'[t] = "edited" THEN {t} ELSE {}
    <2>1. LatchHolders(f, {"edited"})' = {u \in Threads : pc'[u] = "edited" /\ local'[u].frame = f}
      BY DEF LatchHolders
    <2>2. \A u \in Threads \ {t} : pc'[u] = pc[u] /\ local'[u] = local[u]
      BY <1>0 DEF Alone
    <2>3. \A u \in Threads \ {t} : ~(pc[u] = "edited" /\ local[u].frame = f)
      BY <1>2 DEF LatchHolders
    <2> QED BY <1>1, <2>1, <2>2, <2>3
  <1>4. frames[f].ver \in Int /\ frames[f].gen \in Nat /\ frames[f] \in Frame
    BY ContentsTypes DEF TInv, PoolOK
  <1>5. FrameMoves(t, f)
    <2>1. CASE Edit(t)
      <3>1. /\ pc[t] = "writing" /\ pc'[t] = "edited"
            /\ frames' = [frames EXCEPT ![f].ver = frames[f].ver + 1]
        BY <1>1, <2>1, Moves DEF Edit, At
      <3>2. /\ frames'[f].ver = frames[f].ver + 1
            /\ frames'[f].state = frames[f].state /\ frames'[f].page = frames[f].page
            /\ frames'[f].dirty = frames[f].dirty /\ frames'[f].gen = frames[f].gen
        BY <1>4, <3>1 DEF Frame, TInv, PoolOK
      <3>3. Published(f)' = Published(f)
        BY <1>2, <1>3, <1>4, <3>1, <3>2 DEF Published
      <3> QED BY <1>1, <3>2, <3>3 DEF FrameMoves, Keeps, Cached
    <2>2. CASE MarkDirty(t)
      <3>1. /\ pc[t] = "edited" /\ pc'[t] = "writing"
            /\ frames' = [frames EXCEPT ![f] = [@ EXCEPT !.gen = frames[f].gen + 1, !.dirty = TRUE]]
        BY <1>1, <2>2, Moves DEF MarkDirty, At
      <3>2. /\ frames'[f].ver = frames[f].ver
            /\ frames'[f].state = frames[f].state /\ frames'[f].page = frames[f].page
            /\ frames'[f].dirty /\ frames'[f].gen = frames[f].gen + 1
        BY <1>4, <3>1 DEF Frame, TInv, PoolOK
      <3>3. Published(f)' = Published(f) + 1
        BY <1>2, <1>3, <1>4, <3>1, <3>2 DEF Published
      <3> QED BY <1>1, <3>1, <3>2, <3>3 DEF FrameMoves, Changes, Cached
    <2> QED BY <2>1, <2>2
  <1>6. ASSUME NEW g \in Frames \ {f} PROVE FrameMoves(t, g)
    <2>1. frames'[g] = frames[g]
      BY <1>1 DEF Edit, MarkDirty, TInv, PoolOK
    <2> QED BY <1>0, <1>1, <2>1, FrameUntouched DEF FrameMoves
  <1>7. ThreadMoves(t)
    BY <1>0, GuardMoves DEF LatchMoves
  <1>8. \A d \in Files : BoundMoves(t, d)
    BY <1>0, BoundsKept DEF diskVars
  <1> QED BY <1>0, <1>5, <1>6, <1>7, <1>8 DEF Effect, StoreMoves, diskVars

-----------------------------------------------------------------------------
(* Reads, writes and the end of the file.                                   *)

LEMMA ReadPageEffect ==
    ASSUME TInv, Structure, Contents, NEW t \in Threads, ReadPage(t)
    PROVE  Effect(t)
  <1>1. pc[t] = "read" /\ Reads(t) /\ Busy(t) /\ local[t] \in Local
    BY LocalFacts DEF ReadPage, At, Reads, Busy
  <1>2. PICK f \in Frames : f = local[t].frame /\ frames[f].state = "LOADING"
    BY <1>1, OwnedFrame
  <1>3. PICK ok \in BOOLEAN :
             /\ frames' = [frames EXCEPT ![f].ver = IF ok THEN cache[local[t].page] ELSE -1]
             /\ local' = [local EXCEPT ![t].ok = ok]
    BY <1>2 DEF ReadPage, MayFail
  <1>4. /\ Alone(t) /\ OthersWait(t) /\ pc'[t] = "loaded"
        /\ local'[t].ok = ok /\ local'[t].frame = f /\ local'[t].page = local[t].page
    <2>1. Goto(t, "loaded") /\ \E r : local' = [local EXCEPT ![t] = r]
      BY <1>3 DEF ReadPage
    <2>2. local'[t] = [local[t] EXCEPT !.ok = ok]
      BY <1>3 DEF TInv, ControlOK
    <2> QED BY <1>1, <1>2, <2>1, <2>2, GoesTo, AloneWaits DEF Local
  <1>5. /\ frames'[f].state = "LOADING" /\ frames'[f].dirty = frames[f].dirty
        /\ ok => frames'[f].ver = cache[local[t].page]
        /\ \A g \in Frames \ {f} : frames'[g] = frames[g]
    BY <1>2, <1>3 DEF TInv, PoolOK, Frame
  <1>6. \A g \in Frames : Keeps(t, g)
    <2>1. Keeps(t, f)
      BY <1>1, <1>2, <1>5 DEF Keeps, Cached
    <2>2. \A g \in Frames \ {f} : Keeps(t, g)
      BY <1>1, <1>4, <1>5, FrameUntouched
    <2> QED BY <2>1, <2>2
  <1>7. /\ cache' = cache /\ stable' = stable /\ physical' = physical /\ files' = files
    BY DEF ReadPage, diskVars
  <1>8. ThreadMoves(t)
    BY <1>4, <1>5, <1>7
       DEF ThreadMoves, ThreadBounds, ThreadContents, ImageMoves, LatchMoves, Builds, Evicts, Flushes,
           IoLabels
  <1>9. \A d \in Files : BoundMoves(t, d)
    BY <1>7, BoundsKept
  <1> QED BY <1>4, <1>6, <1>7, <1>8, <1>9 DEF Effect, StoreMoves, FrameMoves

LEMMA CopyImageEffect ==
    ASSUME TInv, Structure, Contents, NEW t \in Threads, CopyImage(t)
    PROVE  Effect(t)
  <1>1. pc[t] = "copy" /\ Flushes(t) /\ Busy(t) /\ local[t] \in Local /\ local[t].op \notin Requests
    BY LocalFacts DEF CopyImage, At, Flushes, Busy, Structure, ThreadsOwn, ThreadOwns, CopiesToFlush
  <1>2. PICK f \in Frames : f = local[t].frame
    BY <1>1, LocalFacts
  <1> DEFINE r == [local[t] EXCEPT !.img = frames[f].ver, !.gen = frames[f].gen]
  <1>3. /\ r.img = frames[f].ver /\ r.gen = frames[f].gen /\ r.frame = f /\ r.op = local[t].op
        /\ r.target = local[t].target
    BY <1>1, <1>2 DEF Local
  <1>4. local' = [local EXCEPT ![t] = r] /\ Goto(t, "write")
    BY <1>2 DEF CopyImage
  <1> HIDE DEF r
  <1>5. Alone(t) /\ OthersWait(t) /\ pc'[t] = "write" /\ local'[t] = r
    BY <1>4, OnlyMoves, AloneWaits DEF Goto
  <1>6. /\ frames' = frames /\ cache' = cache /\ stable' = stable /\ physical' = physical
        /\ files' = files
    BY DEF CopyImage, poolVars, diskVars
  <1>7. Published(f)' = frames[f].ver
    <2>1. LatchHolders(f, {"edited"}) = {}
      BY <1>2 DEF CopyImage, LatchHolders
    <2>2. LatchHolders(f, {"edited"})' = {}
      BY <1>1, <1>5, <2>1, EditsKept
    <2> QED BY <1>6, <2>2 DEF Published
  <1>8. \A g \in Frames : Keeps(t, g)
    BY <1>1, <1>5, <1>6, FrameUntouched
  <1>9. (local[t].img = Published(local[t].frame))'
    <2>1. local'[t].frame = f
      BY <1>3, <1>5
    <2> QED BY <1>3, <1>5, <1>7, <2>1
  <1>10. ThreadMoves(t)
    <2>1. frames'[f].gen \in Nat
      BY <1>6, ContentsTypes
    <2>2. ThreadContents(t)'
      BY <1>1, <1>3, <1>5, <1>6, <1>9, <2>1 DEF ThreadContents, Evicts
    <2> QED BY <1>5, <1>9, <2>2 DEF ThreadMoves, ThreadBounds, LatchMoves, ImageMoves, Builds, IoLabels
  <1>11. \A d \in Files : BoundMoves(t, d)
    BY <1>6, BoundsKept
  <1> QED BY <1>5, <1>6, <1>8, <1>10, <1>11 DEF Effect, StoreMoves, FrameMoves

(* A thread that goes on writing its image, with the frames as they are. *)
LEMMA ImageKept ==
    ASSUME TInv, Structure, Contents, NEW t \in Threads, OthersWait(t), frames' = frames,
           pc[t] \in {"write", "sync"}, pc'[t] \in {"sync", "wrote"}, SameCall(local[t], local'[t]),
           local'[t].img = local[t].img, local'[t].gen = local[t].gen,
           pc'[t] = "sync" => cache'[local[t].target] = local[t].img,
           pc'[t] = "wrote" /\ local'[t].ok =>
              cache'[local[t].target] = local[t].img /\ stable'[local[t].target] = local[t].img
    PROVE  ThreadMoves(t)
  <1>0. PICK f : f = local[t].frame /\ local'[t].frame = f
    BY DEF SameCall
  <1>1. Published(f)' = Published(f)
    BY PublishedKept
  <1>2. ThreadContents(t)
    BY DEF Contents
  <1>3. (Evicts(t)' <=> Evicts(t)) /\ (Flushes(t)' <=> Flushes(t))
    BY DEF Evicts, Flushes, SameCall, IoLabels
  <1>4. Published(local[t].frame)' = Published(f)'
    BY <1>0
  <1>5. ThreadContents(t)'
    BY <1>0, <1>1, <1>2, <1>3, <1>4 DEF ThreadContents, SameCall
  <1> QED BY <1>5 DEF ThreadMoves, ThreadBounds, LatchMoves, ImageMoves, Builds, IoLabels, SameCall

LEMMA WriteEffect ==
    ASSUME TInv, Structure, Contents, NEW t \in Threads, WriteImage(t) \/ SyncFile(t)
    PROVE  Effect(t)
  <1>0. local[t] \in Local /\ pc[t] \in {"write", "sync"} /\ pc[t] \in IoLabels
    BY LocalFacts DEF WriteImage, SyncFile, At, IoLabels
  <1>1. PICK p \in PageId : p = local[t].target
    BY <1>0, WriterFacts
  <1>2. /\ UNCHANGED <<frames, page_table, files, physical>>
    BY DEF WriteImage, SyncFile, poolVars
  <1>3. \A ok \in BOOLEAN :
           LET r == [local[t] EXCEPT !.ok = ok] IN
           SameCall(local[t], r) /\ r.img = local[t].img /\ r.gen = local[t].gen /\ r.ok = ok
    BY <1>0 DEF SameCall, Local
  <1>4. \A d \in Files : BoundMoves(t, d)
    BY <1>2, BoundsKept
  <1>5. CASE WriteImage(t)
    <2>1. pc[t] = "write" /\ stable' = stable
      BY <1>5 DEF WriteImage, At
    <2>2. CASE cache' = [cache EXCEPT ![p] = local[t].img] /\ Goto(t, "sync") /\ UNCHANGED local
      <3>1. /\ Alone(t) /\ OthersWait(t) /\ pc'[t] = "sync" /\ local'[t] = local[t]
            /\ cache'[p] = local[t].img
            /\ \A q \in PageId \ {p} : cache'[q] = cache[q]
        BY <2>2, Moves, AloneWaits DEF TInv, DiskOK
      <3>2. ThreadMoves(t)
        BY <1>0, <1>1, <1>2, <3>1, ImageKept DEF SameCall
      <3>3. \A q \in PageId : DiskMoves(t, q)
        BY <1>1, <2>1, <3>1 DEF DiskMoves
      <3> QED BY <1>0, <1>2, <1>4, <2>1, <3>1, <3>2, <3>3 DEF Effect, StoreMoves
    <2>3. CASE /\ cache' = cache \/ cache' = [cache EXCEPT ![p] = -1]
               /\ local' = [local EXCEPT ![t].ok = FALSE]
               /\ Goto(t, "wrote")
      <3>1. /\ Alone(t) /\ OthersWait(t) /\ pc'[t] = "wrote"
            /\ local'[t] = [local[t] EXCEPT !.ok = FALSE]
            /\ cache'[p] \in {cache[p], -1}
            /\ \A q \in PageId \ {p} : cache'[q] = cache[q]
        BY <2>3, GoesTo, AloneWaits DEF TInv, DiskOK, ControlOK
      <3>2. /\ SameCall(local[t], local'[t]) /\ local'[t].img = local[t].img
            /\ local'[t].gen = local[t].gen /\ local'[t].ok = FALSE
        BY <1>3, <3>1
      <3>3. ThreadMoves(t)
        BY <1>0, <1>1, <1>2, <3>1, <3>2, ImageKept
      <3>4. \A q \in PageId : DiskMoves(t, q)
        BY <1>1, <2>1, <3>1 DEF DiskMoves
      <3> QED BY <1>0, <1>2, <1>4, <2>1, <3>1, <3>3, <3>4 DEF Effect, StoreMoves
    <2> QED BY <1>1, <1>5, <2>2, <2>3 DEF WriteImage
  <1>6. CASE SyncFile(t)
    <2>1. pc[t] = "sync" /\ cache' = cache /\ Goto(t, "wrote")
      BY <1>6 DEF SyncFile, At
    <2>2. PICK ok \in BOOLEAN :
               /\ local' = [local EXCEPT ![t].ok = ok]
               /\ stable' = [q \in PageId |-> IF ok /\ q.file = p.file THEN cache[q] ELSE stable[q]]
      BY <1>1, <1>6 DEF SyncFile, MayFail
    <2>3. /\ Alone(t) /\ OthersWait(t) /\ pc'[t] = "wrote"
          /\ local'[t] = [local[t] EXCEPT !.ok = ok]
      BY <2>1, <2>2, GoesTo, AloneWaits DEF TInv, ControlOK
    <2>4. /\ SameCall(local[t], local'[t]) /\ local'[t].img = local[t].img
          /\ local'[t].gen = local[t].gen /\ local'[t].ok = ok
      BY <1>3, <2>3
    <2>5. cache[p] = local[t].img
      BY <1>1, <2>1 DEF Contents, ThreadContents
    <2>6. ThreadMoves(t)
      BY <1>0, <1>1, <1>2, <2>1, <2>2, <2>3, <2>4, <2>5, ImageKept
    <2>7. \A q \in PageId : DiskMoves(t, q)
      BY <2>1, <2>2 DEF DiskMoves
    <2> QED BY <1>0, <1>2, <1>4, <2>1, <2>3, <2>6, <2>7 DEF Effect, StoreMoves
  <1> QED BY <1>5, <1>6

LEMMA ReserveEffect ==
    ASSUME TInv, NEW t \in Threads, ReserveNewPageNo(t)
    PROVE  Effect(t)
  <1>0. /\ local[t] \in Local /\ pc[t] = "extend" /\ Holds(t) /\ Goto(t, "extended")
        /\ UNCHANGED <<frames, page_table, files>>
    BY LocalFacts DEF ReserveNewPageNo, At, Holds, poolVars
  <1>1. PICK d \in Files : d = local[t].file
    BY <1>0, LocalFacts DEF Creates
  <1>2. physical[d] \in Nat /\ local[t].count \in Nat
    BY <1>0 DEF TInv, DiskOK, Local
  <1>3. /\ Alone(t) /\ OthersWait(t) /\ pc'[t] = "extended"
    BY <1>0, GoesTo, AloneWaits DEF ReserveNewPageNo
  <1>4. /\ local'[t].file = d /\ (local'[t].ok => local'[t].count < physical'[d])
        /\ \A p \in PageId : DiskMoves(t, p)
        /\ \A e \in Files : physical'[e] = physical[e] \/ (e = d /\ physical'[e] = physical[e] + 1)
    <2>1. CASE local' = [local EXCEPT ![t].ok = FALSE] /\ UNCHANGED diskVars
      BY <1>0, <1>1, <2>1 DEF diskVars, DiskMoves, TInv, ControlOK, Local
    <2>2. CASE /\ physical[d] > local[t].count
               /\ local' = [local EXCEPT ![t].ok = TRUE]
               /\ UNCHANGED diskVars
      BY <1>0, <1>1, <1>2, <2>2 DEF diskVars, DiskMoves, TInv, ControlOK, Local
    <2>3. ASSUME NEW k, k = [file |-> d, no |-> physical[d]],
                 physical' = [physical EXCEPT ![d] = physical[d] + 1],
                 cache' = [cache EXCEPT ![k] = 0],
                 stable' = [stable EXCEPT ![k] = 0],
                 local' = [local EXCEPT ![t] = [@ EXCEPT !.ok = TRUE, !.count = physical[d]]]
          PROVE  /\ local'[t].file = d /\ (local'[t].ok => local'[t].count < physical'[d])
                 /\ \A p \in PageId : DiskMoves(t, p)
                 /\ \A e \in Files : physical'[e] = physical[e] \/ (e = d /\ physical'[e] = physical[e] + 1)
      <3>1. local'[t].file = d /\ local'[t].count = physical[d] /\ physical'[d] = physical[d] + 1
        BY <1>0, <1>1, <2>3 DEF TInv, ControlOK, DiskOK, Local
      <3>2. \A e \in Files : physical'[e] = physical[e] \/ (e = d /\ physical'[e] = physical[e] + 1)
        BY <2>3 DEF TInv, DiskOK
      <3>3. ASSUME NEW p \in PageId PROVE DiskMoves(t, p)
        <4>1. CASE p = k
          BY <1>0, <2>3, <4>1 DEF DiskMoves, TInv, DiskOK
        <4>2. CASE p # k
          BY <2>3, <4>2 DEF DiskMoves, TInv, DiskOK
        <4> QED BY <4>1, <4>2
      <3> QED BY <1>2, <3>1, <3>2, <3>3
    <2> QED BY <1>1, <2>1, <2>2, <2>3 DEF ReserveNewPageNo
  <1>5. ThreadMoves(t)
    BY <1>3, <1>4 DEF ThreadMoves, ThreadBounds, ThreadContents, LatchMoves, ImageMoves, Builds, Evicts,
                      Flushes, IoLabels
  <1>6. ASSUME NEW e \in Files PROVE BoundMoves(t, e)
    <2>1. files'[e] = files[e] /\ pc[t] = "extend"
      BY <1>0
    <2>2. physical'[e] = physical[e] \/ (e = local[t].file /\ physical'[e] = physical[e] + 1)
      BY <1>1, <1>4
    <2> QED BY <2>1, <2>2 DEF BoundMoves
  <1> QED BY <1>0, <1>3, <1>4, <1>5, <1>6 DEF Effect, StoreMoves

-----------------------------------------------------------------------------
(* Requests for a frame.                                                    *)

(* The bounds of the files stay, and no file is opened or closed. *)
SameBounds(fs) ==
    \A d \in Files : /\ fs[d].published = files[d].published
                     /\ fs[d].state = "CLOSED" <=> files[d].state = "CLOSED"

LEMMA SameBoundsMoves ==
    ASSUME NEW t \in Threads, SameBounds(files'), UNCHANGED diskVars
    PROVE  \A d \in Files : BoundMoves(t, d)
  BY BoundsKept DEF SameBounds, diskVars

(* Frame f changes hands, and t goes on or gives up. *)
LEMMA OneFrameEffect ==
    ASSUME TInv, Contents, NEW t \in Threads, NEW f \in Frames, OthersWait(t), FrameMoves(t, f),
           \A g \in Frames \ {f} : frames'[g] = frames[g],
           pc[t] # "edited", pc'[t] # "edited", ThreadMoves(t), SameBounds(files'), UNCHANGED diskVars
    PROVE  Effect(t)
  <1>1. \A g \in Frames \ {f} : Keeps(t, g)
    BY FrameUntouched
  <1>2. \A g \in Frames : FrameMoves(t, g)
    BY <1>1 DEF FrameMoves
  <1> QED BY <1>2, SameBoundsMoves DEF Effect, StoreMoves, diskVars

(* The requester gets frame f: it was free, or its page is clean or has been saved. *)
LEMMA GrantEffect ==
    ASSUME TInv, Contents, NEW t \in Threads, NEW f \in Frames,
           NEW fr \in [Frames -> Frame], NEW pt, Granted(t, f, fr, pt),
           fr[f].state = "FREE", fr[f].dirty = FALSE, \A g \in Frames \ {f} : fr[g] = frames[g],
           frames[f].state # "LOADING", pc[t] # "edited",
           Cached(f) => \/ ~frames[f].dirty
                        \/ f = local[t].frame /\ Evicts(t) /\ Saved(f),
           SameBounds(files'), UNCHANGED diskVars
    PROVE  Effect(t)
  <1>1. /\ frames'[f].state \in {"FREE", "LOADING"} /\ frames'[f].dirty = FALSE
        /\ \A g \in Frames \ {f} : frames'[g] = frames[g]
    <2>1. CASE frames' = fr
      BY <2>1
    <2>2. CASE frames' = Bind(fr, f, local[t].page, "READ_IN_PROGRESS")
      BY <2>2 DEF Bind, Frame
    <2> QED BY <2>1, <2>2 DEF Granted
  <1>2. Alone(t) /\ OthersWait(t) /\ pc'[t] \in {"read", "extend"}
    BY GoesTo, AloneWaits DEF Granted
  <1>3. FrameMoves(t, f)
    BY <1>1, FrameUnused DEF FrameMoves, Leaves, Cached
  <1>4. ThreadMoves(t) /\ pc'[t] # "edited"
    BY <1>2, DullMoves DEF DullLabels, Labels, IoLabels
  <1> QED BY <1>1, <1>2, <1>3, <1>4, OneFrameEffect

LEMMA RefuseWaits ==
    ASSUME TInv, NEW t \in Threads, NEW pt, NEW fs \in [Files -> FileEntry], SameBounds(fs),
           Refused(t, pt, fs)
    PROVE  OthersWait(t) /\ pc'[t] = "idle" /\ SameBounds(files') /\ ThreadMoves(t)
  <1>1. pc'[t] = "idle" /\ \A u \in Threads \ {t} : pc'[u] = pc[u]
    BY DEF Refused, Goto, TInv, ControlOK
  <1>2. OthersWait(t)
    <2>1. CASE local' = [local EXCEPT ![t] = [Fresh EXCEPT !.result = "error"]]
      BY <2>1, GoesTo, AloneWaits DEF Refused
    <2>2. CASE local' = [Resolve(local[t].page, "FAILED") EXCEPT
                            ![t] = [Fresh EXCEPT !.result = "error"]]
      <3>1. \A u \in Threads \ {t} : local'[u] = Resolve(local[t].page, "FAILED")[u]
        BY <2>2 DEF Resolve
      <3> QED BY <1>1, <3>1, ResolveWaits
    <2> QED BY <2>1, <2>2 DEF Refused
  <1>3. SameBounds(files')
    BY DEF Refused, SameBounds, FileEntry
  <1> QED BY <1>1, <1>2, <1>3, DullMoves DEF DullLabels, Labels, IoLabels

LEMMA AcquireEffect ==
    ASSUME TInv, Structure, Pins, Contents, NEW t \in Threads, pc[t] \in {"pin", "turn"},
           local[t].op \in Requests, NEW pt, NEW fs \in [Files -> FileEntry], SameBounds(fs),
           AcquireFrame(t, pt, fs), UNCHANGED diskVars
    PROVE  Effect(t)
  <1>0. pc[t] # "edited" /\ frames \in [Frames -> Frame]
    BY DEF TInv, PoolOK
  <1>1. ASSUME NEW f \in free_list, Granted(t, f, frames, pt), files' = fs
        PROVE  Effect(t)
    <2>1. f \in Frames /\ frames[f].state = "FREE"
      BY FreeFacts
    <2>2. frames[f].dirty = FALSE /\ ~Cached(f)
      BY <2>1, ContentsTypes DEF Contents, FrameContents, Cached
    <2> QED BY <1>0, <1>1, <2>1, <2>2, GrantEffect
  <1>2. ASSUME NEW f \in Frames, IsVictimEligible(f), ~NeedsWriteback(f), files' = fs, NEW pu,
               Granted(t, f, ResetFrame(frames, f), pu)
        PROVE  Effect(t)
    <2> DEFINE fr == ResetFrame(frames, f)
    <2>1. /\ fr \in [Frames -> Frame] /\ fr[f].state = "FREE"
          /\ \A g \in Frames \ {f} : fr[g] = frames[g]
      BY ResetFacts
    <2>2. fr[f].dirty = FALSE
      BY <1>0 DEF ResetFrame, Frame
    <2>3. Granted(t, f, fr, pu) /\ frames[f].state = "RESIDENT" /\ ~frames[f].dirty
      BY <1>2 DEF IsVictimEligible, NeedsWriteback
    <2> HIDE DEF fr
    <2> QED BY <1>0, <1>2, <2>1, <2>2, <2>3, GrantEffect
  <1>3. ASSUME NEW f \in Frames, IsVictimEligible(f), NeedsWriteback(f), files' = fs,
               frames' = [frames EXCEPT ![f] = [@ EXCEPT !.state = "EVICTING",
                                                         !.io = "WRITEBACK_IN_PROGRESS"]],
               local' = [local EXCEPT ![t] = [@ EXCEPT !.frame = f, !.target = frames[f].page,
                                                        !.img = frames[f].ver]],
               Goto(t, "write")
        PROVE  Effect(t)
    <2>1. Pinners(f) = {} /\ frames[f].state = "RESIDENT" /\ frames[f].dirty
      BY <1>3, NotPinned DEF IsVictimEligible, NeedsWriteback
    <2>2. /\ frames'[f].state = "EVICTING" /\ frames'[f].page = frames[f].page
          /\ frames'[f].dirty = frames[f].dirty /\ frames'[f].gen = frames[f].gen
          /\ frames'[f].ver = frames[f].ver
          /\ \A g \in Frames \ {f} : frames'[g] = frames[g]
      BY <1>0, <1>3 DEF Frame
    <2> DEFINE r == [local[t] EXCEPT !.frame = f, !.target = frames[f].page, !.img = frames[f].ver]
    <2>3. r.op = local[t].op /\ r.frame = f /\ r.img = frames[f].ver
      BY LocalFacts DEF Local
    <2>4. local' = [local EXCEPT ![t] = r]
      BY <1>3
    <2> HIDE DEF r
    <2>5. Alone(t) /\ OthersWait(t) /\ pc'[t] = "write" /\ local'[t] = r
      BY <1>3, <2>4, OnlyMoves, AloneWaits DEF Goto
    <2>6. LatchHolders(f, {"edited"}) = {}
      BY <2>1 DEF LatchHolders, Pinners, HoldsPin
    <2>7. LatchHolders(f, {"edited"})' = {}
      BY <1>0, <2>5, <2>6, EditsKept
    <2>8. Published(f) = frames[f].ver /\ Published(f)' = frames[f].ver
      BY <2>2, <2>6, <2>7 DEF Published
    <2>9. Keeps(t, f)
      BY <2>1, <2>2, <2>8 DEF Keeps, Cached
    <2>10. (local[t].img = Published(local[t].frame) /\ frames[local[t].frame].dirty)'
      <3>1. local'[t].frame = f /\ local'[t].img = frames[f].ver
        BY <2>3, <2>5
      <3> QED BY <2>1, <2>2, <2>8, <3>1
    <2>11. ThreadMoves(t)
      <3>1. ThreadContents(t)'
        BY <2>3, <2>5, <2>10 DEF ThreadContents, Flushes
      <3> QED BY <2>5, <2>10, <3>1 DEF ThreadMoves, ThreadBounds, LatchMoves, ImageMoves, Builds, IoLabels
    <2> QED BY <1>0, <1>3, <2>2, <2>5, <2>9, <2>11, OneFrameEffect DEF FrameMoves
  <1>4. ASSUME Refused(t, pt, fs), UNCHANGED frames
        PROVE  Effect(t)
    <2>1. OthersWait(t) /\ pc'[t] = "idle" /\ SameBounds(files') /\ ThreadMoves(t)
      BY <1>4, RefuseWaits
    <2>2. \A f \in Frames : Keeps(t, f)
      BY <1>0, <1>4, <2>1, FrameUntouched
    <2> QED BY <2>1, <2>2, SameBoundsMoves DEF Effect, StoreMoves, FrameMoves, diskVars
  <1> QED BY <1>1, <1>2, <1>3, <1>4, ZenonT(30) DEF AcquireFrame

LEMMA LoadPageEffect ==
    ASSUME TInv, Structure, Pins, Contents, NEW t \in Threads, LoadPage(t)
    PROVE  Effect(t)
  <1>1. pc[t] = "pin" /\ local[t].op \in Requests
    BY LocalFacts DEF LoadPage, At, Requests
  <1>2. files \in [Files -> FileEntry] /\ SameBounds(files)
    BY DEF TInv, PoolOK, SameBounds
  <1>3. PICK pt : AcquireFrame(t, pt, files)
    BY DEF LoadPage
  <1> QED BY <1>1, <1>2, <1>3, AcquireEffect DEF LoadPage

LEMMA NewPageEffect ==
    ASSUME TInv, Structure, Pins, Contents, NEW t \in Threads, NewPage(t)
    PROVE  Effect(t)
  <1>1. pc[t] = "turn" /\ local[t].op \in Requests /\ UNCHANGED diskVars
    BY DEF NewPage, At, TInv, ControlOK, ThreadOK, Requests
  <1>2. CASE Return(t, "error") /\ UNCHANGED <<poolVars, asleep>>
    <2>1. Alone(t) /\ pc'[t] = "idle"
      BY <1>2, Returns
    <2> QED BY <1>1, <1>2, <2>1, AloneWaits, DullStep DEF poolVars, DullLabels, Labels, IoLabels
  <1>3. CASE UNCHANGED <<poolVars, pc, local>>
    <2>1. Alone(t)
      BY <1>3 DEF Alone
    <2> QED BY <1>1, <1>3, <2>1, AloneWaits, DullStep DEF poolVars, DullLabels, Labels, IoLabels
  <1>4. CASE AcquireFrame(t, page_table, [files EXCEPT ![local[t].file].creating = TRUE])
    <2> DEFINE fs == [files EXCEPT ![local[t].file].creating = TRUE]
    <2>1. fs \in [Files -> FileEntry] /\ SameBounds(fs)
      BY DEF TInv, PoolOK, SameBounds, FileEntry
    <2>2. AcquireFrame(t, page_table, fs)
      BY <1>4
    <2> HIDE DEF fs
    <2> QED BY <1>1, <2>1, <2>2, AcquireEffect
  <1> QED BY <1>2, <1>3, <1>4 DEF NewPage

LEMMA FinishEvictionEffect ==
    ASSUME TInv, Structure, Pins, Contents, NEW t \in Threads, FinishEviction(t)
    PROVE  Effect(t)
  <1>0. /\ pc[t] = "wrote" /\ pc[t] \in IoLabels /\ Evicts(t) /\ Busy(t)
        /\ UNCHANGED diskVars /\ frames \in [Frames -> Frame] /\ files \in [Files -> FileEntry]
        /\ SameBounds(files)
    BY DEF FinishEviction, At, Evicts, Busy, IoLabels, Requests, Fetches, TInv, PoolOK, SameBounds
  <1>1. PICK f \in Frames : /\ f = local[t].frame /\ Cached(f) /\ frames[f].state = "EVICTING"
                            /\ frames[f].page = local[t].target
    BY <1>0, WriterFacts, OwnedFrame
  <1>2. CASE /\ local[t].ok /\ UNCHANGED files
             /\ Granted(t, f, ResetFrame(frames, f), [page_table EXCEPT ![local[t].target] = Absent])
    <2> DEFINE fr == ResetFrame(frames, f)
    <2>1. /\ fr \in [Frames -> Frame] /\ fr[f].state = "FREE"
          /\ \A g \in Frames \ {f} : fr[g] = frames[g]
      BY ResetFacts
    <2>2. fr[f].dirty = FALSE
      BY <1>0 DEF ResetFrame, Frame
    <2>3. PICK pu : Granted(t, f, fr, pu)
      BY <1>2
    <2> HIDE DEF fr
    <2>4. Saved(f)
      BY <1>0, <1>1, <1>2 DEF Saved, Contents, ThreadContents
    <2> QED BY <1>0, <1>1, <1>2, <2>1, <2>2, <2>3, <2>4, GrantEffect
  <1>3. ASSUME frames' = [frames EXCEPT ![f] = [@ EXCEPT !.state = "RESIDENT", !.io = "NONE"]],
               NEW pt, Refused(t, pt, files)
        PROVE  Effect(t)
    <2>1. OthersWait(t) /\ pc'[t] = "idle" /\ SameBounds(files') /\ ThreadMoves(t)
      BY <1>0, <1>3, RefuseWaits
    <2>2. /\ frames'[f].state = "RESIDENT" /\ frames'[f].page = frames[f].page
          /\ frames'[f].dirty = frames[f].dirty /\ frames'[f].gen = frames[f].gen
          /\ frames'[f].ver = frames[f].ver
          /\ \A g \in Frames \ {f} : frames'[g] = frames[g]
      BY <1>0, <1>3 DEF Frame
    <2>3. Published(f)' = Published(f)
      BY <1>0, <2>1, <2>2, EditsKept DEF Published
    <2>4. Keeps(t, f)
      BY <1>1, <2>2, <2>3 DEF Keeps, Cached
    <2> QED BY <1>0, <2>1, <2>2, <2>4, OneFrameEffect DEF FrameMoves
  <1> QED BY <1>1, <1>2, <1>3 DEF FinishEviction

(* Frame f without a page stays without one. *)
LEMMA UnusedFrameEffect ==
    ASSUME TInv, Contents, NEW t \in Threads, NEW f \in Frames, OthersWait(t),
           ~Cached(f), ~Cached(f)', frames'[f].dirty = FALSE,
           frames[f].state # "LOADING" \/ frames'[f].state # "LOADING",
           \A g \in Frames \ {f} : frames'[g] = frames[g],
           pc[t] # "edited", pc'[t] # "edited", ThreadMoves(t), SameBounds(files'), UNCHANGED diskVars
    PROVE  Effect(t)
  <1>1. FrameMoves(t, f)
    BY FrameUnused DEF FrameMoves
  <1> QED BY <1>1, OneFrameEffect

LEMMA FinishLoadEffect ==
    ASSUME TInv, Structure, Pins, Contents, NEW t \in Threads, FinishLoad(t)
    PROVE  Effect(t)
  <1>1. /\ pc[t] = "loaded" /\ Reads(t) /\ Busy(t) /\ UNCHANGED diskVars /\ files' = files
        /\ SameBounds(files')
    BY DEF FinishLoad, At, Reads, Busy, SameBounds
  <1>2. PICK f \in Frames, p \in PageId :
           /\ f = local[t].frame /\ p = local[t].page
           /\ frames[f].state = "LOADING" /\ frames[f].page = p
    <2>1. local[t].frame \in Frames /\ local[t].page \in PageId
      BY <1>1, LocalFacts DEF Loads
    <2>2. frames[local[t].frame].state = "LOADING" /\ frames[local[t].frame].page = local[t].page
      BY <1>1, OwnedFrame
    <2> QED BY <2>1, <2>2
  <1>3. frames[f].dirty = FALSE /\ ~Cached(f)
    BY <1>2, ContentsTypes DEF Cached, Contents, FrameContents
  <1>4. CASE /\ frames' = ResetFrame(frames, f)
             /\ local' = [Resolve(p, "FAILED") EXCEPT ![t] = [Fresh EXCEPT !.result = "error"]]
             /\ Goto(t, "idle")
    <2>1. /\ frames'[f].state = "FREE" /\ frames'[f].dirty = FALSE
          /\ \A g \in Frames \ {f} : frames'[g] = frames[g]
      <3>1. frames'[f].dirty = FALSE
        BY <1>4 DEF ResetFrame, TInv, PoolOK, Frame
      <3> QED BY <1>4, <3>1, ResetFacts
    <2>2. /\ pc'[t] = "idle"
          /\ \A u \in Threads \ {t} : pc'[u] = pc[u] /\ local'[u] = Resolve(p, "FAILED")[u]
      BY <1>4 DEF Goto, TInv, ControlOK, Resolve
    <2>3. OthersWait(t) /\ ThreadMoves(t)
      BY <2>2, ResolveWaits, DullMoves DEF DullLabels, Labels, IoLabels
    <2> QED BY <1>1, <1>2, <1>3, <2>1, <2>2, <2>3, UnusedFrameEffect DEF Cached
  <1>5. CASE /\ ~LoadFails(t)
             /\ frames' = [frames EXCEPT ![f] = [@ EXCEPT !.state = "RESIDENT", !.io = "NONE",
                                                          !.pin = page_table[p].claims]]
             /\ local' = Resolve(p, f)
             /\ Goto(t, "latch")
    <2>1. /\ frames'[f].state = "RESIDENT" /\ frames'[f].page = p /\ frames'[f].dirty = FALSE
          /\ frames'[f].ver = frames[f].ver
          /\ \A g \in Frames \ {f} : frames'[g] = frames[g]
      BY <1>2, <1>3, <1>5 DEF TInv, PoolOK, Frame
    <2>2. /\ pc'[t] = "latch"
          /\ \A u \in Threads \ {t} : pc'[u] = pc[u] /\ local'[u] = Resolve(p, f)[u]
      BY <1>5 DEF Goto, TInv, ControlOK, Resolve
    <2>3. OthersWait(t) /\ ThreadMoves(t)
      BY <2>2, ResolveWaits, DullMoves DEF DullLabels, Labels, IoLabels
    <2>4. frames[f].ver = cache[p] /\ frames[f].ver >= 1
      <3>1. local[t].ok /\ ~(frames[f].ver < 1)
        BY <1>2, <1>5 DEF LoadFails
      <3> QED BY <1>1, <1>2, <3>1, ContentsTypes DEF Contents, ThreadContents
    <2>5. LatchHolders(f, {"edited"})' = {}
      <3>1. LatchHolders(f, {"edited"}) = {}
        BY <1>2, GuardFrame DEF LatchHolders
      <3> QED BY <1>1, <2>2, <2>3, <3>1, EditsKept
    <2>6. Published(f)' = frames[f].ver
      BY <2>1, <2>5 DEF Published
    <2>7. Fills(t, f)
      BY <1>1, <1>2, <1>3, <2>1, <2>4, <2>6 DEF Fills, Cached
    <2> QED BY <1>1, <2>1, <2>2, <2>3, <2>7, OneFrameEffect DEF FrameMoves
  <1> QED BY <1>2, <1>4, <1>5 DEF FinishLoad

LEMMA TurnEnds ==
    ASSUME TInv, NEW d \in Files
    PROVE  SameBounds(EndTurn(d))
  BY DEF EndTurn, SameBounds, TInv, PoolOK, FileEntry

LEMMA BindNewPageEffect ==
    ASSUME TInv, TInv', Structure, Contents, NEW t \in Threads, BindNewPage(t)
    PROVE  Effect(t)
  <1>1. pc[t] = "extended" /\ Holds(t) /\ Busy(t) /\ UNCHANGED diskVars
    BY DEF BindNewPage, At, Holds, Busy
  <1>2. PICK f \in Frames, d \in Files :
           f = local[t].frame /\ d = local[t].file /\ frames[f].state = "FREE" /\ local[t] \in Local
    <2>1. local[t].frame \in Frames /\ local[t].file \in Files /\ local[t] \in Local
      BY <1>1, LocalFacts DEF Creates
    <2>2. frames[local[t].frame].state = "FREE"
      BY <1>1 DEF Structure, ThreadsOwn, ThreadOwns
    <2> QED BY <2>1, <2>2
  <1>3. frames[f].dirty = FALSE /\ ~Cached(f)
    BY <1>2, ContentsTypes DEF Cached, Contents, FrameContents
  <1>4. CASE files' = EndTurn(d) /\ Return(t, "error") /\ UNCHANGED <<frames, page_table>>
    <2>1. OthersWait(t) /\ pc'[t] = "idle"
      BY <1>4, Returns, AloneWaits
    <2>2. ThreadMoves(t)
      BY <2>1, DullMoves DEF DullLabels, Labels, IoLabels
    <2> QED BY <1>1, <1>2, <1>3, <1>4, <2>1, <2>2, TurnEnds, UnusedFrameEffect DEF Cached
  <1>5. ASSUME NEW p, p = [file |-> d, no |-> local[t].count], local[t].ok,
               frames' = Bind(frames, f, p, "NONE"),
               local' = [local EXCEPT ![t] = [@ EXCEPT !.page = p, !.count = 0]],
               Goto(t, "build"), UNCHANGED files
        PROVE  Effect(t)
    <2>1. Alone(t) /\ pc'[t] = "build" /\ local'[t].page = p /\ local'[t].file = d
      <3> DEFINE r == [local[t] EXCEPT !.page = p, !.count = 0]
      <3>1. r.page = p /\ r.file = d
        BY <1>2 DEF Local
      <3>2. Alone(t) /\ pc'[t] = "build" /\ local'[t] = r
        BY <1>5 DEF Goto, TInv, ControlOK, Alone
      <3> HIDE DEF r
      <3> QED BY <3>1, <3>2
    <2>2. /\ frames'[f].state = "LOADING" /\ frames'[f].dirty = FALSE
          /\ \A g \in Frames \ {f} : frames'[g] = frames[g]
      BY <1>5 DEF Bind, TInv, PoolOK, Frame
    <2>3. p.no < physical'[d]
      BY <1>1, <1>2, <1>5 DEF Contents, Bounds, ThreadBounds, diskVars
    <2>4. ThreadMoves(t)
      BY <2>1, <2>3 DEF ThreadMoves, ThreadBounds, ThreadContents, LatchMoves, ImageMoves, Builds,
                        Evicts, Flushes, IoLabels
    <2>5. OthersWait(t) /\ SameBounds(files')
      BY <1>5, <2>1, AloneWaits DEF SameBounds
    <2> QED BY <1>1, <1>2, <1>3, <2>1, <2>2, <2>4, <2>5, UnusedFrameEffect DEF Cached
  <1> QED BY <1>1, <1>2, <1>4, <1>5, ZenonT(30) DEF BindNewPage

LEMMA FinishNewPageEffect ==
    ASSUME TInv, Structure, Pins, Contents, NEW t \in Threads, FinishNewPage(t)
    PROVE  Effect(t)
  <1>1. pc[t] = "build" /\ Builds(t) /\ Busy(t) /\ UNCHANGED diskVars
    BY DEF FinishNewPage, At, Builds, Busy
  <1>2. PICK f \in Frames, p \in PageId, d \in Files :
           f = local[t].frame /\ p = local[t].page /\ d = local[t].file
    <2>1. local[t].frame \in Frames /\ local[t].page \in PageId /\ local[t].file \in Files
      BY <1>1, LocalFacts DEF Creates
    <2> QED BY <2>1
  <1>3. frames[f].state = "LOADING" /\ frames[f].page = p /\ p.file = d
    BY <1>1, <1>2, OwnedFrame DEF Structure, ThreadsOwn, ThreadOwns
  <1>4. frames[f].dirty = FALSE /\ ~Cached(f)
    BY <1>3, ContentsTypes DEF Cached, Contents, FrameContents
  <1>5. CASE frames' = ResetFrame(frames, f) /\ files' = EndTurn(d) /\ Return(t, "error")
    <2>1. OthersWait(t) /\ pc'[t] = "idle"
      BY <1>5, Returns, AloneWaits
    <2>2. ThreadMoves(t)
      BY <2>1, DullMoves DEF DullLabels, Labels, IoLabels
    <2>3. /\ frames'[f].state = "FREE" /\ frames'[f].dirty = FALSE
          /\ \A g \in Frames \ {f} : frames'[g] = frames[g]
      <3>1. frames'[f].dirty = FALSE
        BY <1>5 DEF ResetFrame, TInv, PoolOK, Frame
      <3> QED BY <1>5, <3>1, ResetFacts
    <2> QED BY <1>1, <1>3, <1>4, <1>5, <2>1, <2>2, <2>3, TurnEnds, UnusedFrameEffect DEF Cached
  <1>6. CASE /\ files[d].state = "ACTIVE"
             /\ files' = [files EXCEPT ![d] = [@ EXCEPT !.published = p.no + 1, !.creating = FALSE]]
             /\ frames' = [frames EXCEPT ![f] = [@ EXCEPT !.state = "RESIDENT", !.pin = 1,
                                                          !.dirty = TRUE, !.ver = 1,
                                                          !.gen = frames[f].gen + 1]]
             /\ Goto(t, "latch") /\ UNCHANGED local
    <2>1. Alone(t) /\ OthersWait(t) /\ pc'[t] = "latch"
      BY <1>6, Moves, AloneWaits
    <2>2. ThreadMoves(t)
      BY <2>1, DullMoves DEF DullLabels, Labels, IoLabels
    <2>3. /\ files'[d].published = p.no + 1 /\ files'[d].state = "ACTIVE"
          /\ \A e \in Files \ {d} : files'[e] = files[e]
      BY <1>6 DEF TInv, PoolOK, FileEntry
    <2>4. /\ frames'[f].state = "RESIDENT" /\ frames'[f].page = p /\ frames'[f].dirty
          /\ frames'[f].ver = 1
          /\ \A g \in Frames \ {f} : frames'[g] = frames[g]
      BY <1>3, <1>6 DEF TInv, PoolOK, Frame
    <2>5. LatchHolders(f, {"edited"})' = {}
      <3>1. LatchHolders(f, {"edited"}) = {}
        BY <1>3, GuardFrame DEF LatchHolders
      <3> QED BY <1>1, <2>1, <3>1, EditsKept
    <2>6. Opens(t, f)
      <3>1. Published(f)' = 1
        BY <2>4, <2>5 DEF Published
      <3> QED BY <1>1, <1>2, <1>3, <1>4, <2>3, <2>4, <3>1 DEF Opens, Cached
    <2>7. \A g \in Frames : FrameMoves(t, g)
      BY <1>1, <2>1, <2>4, <2>6, FrameUntouched DEF FrameMoves
    <2>8. ASSUME NEW e \in Files PROVE BoundMoves(t, e)
      <3>1. CASE e = d
        BY <1>1, <1>2, <1>3, <1>6, <2>3, <2>6, <3>1 DEF BoundMoves, diskVars
      <3>2. CASE e # d
        BY <1>1, <2>3, <3>2 DEF BoundMoves, diskVars
      <3> QED BY <3>1, <3>2
    <2> QED BY <1>1, <2>1, <2>2, <2>7, <2>8 DEF Effect, StoreMoves, diskVars
  <1> QED BY <1>2, <1>5, <1>6 DEF FinishNewPage

-----------------------------------------------------------------------------
(* Flushing and closing.                                                    *)

(* Frames fr are the frames, but for the one t has saved, which may have been found clean. *)
Settled(t, fr) ==
    \A g \in Frames :
       /\ fr[g].state = frames[g].state /\ fr[g].page = frames[g].page
       /\ fr[g].gen = frames[g].gen /\ fr[g].ver = frames[g].ver
       /\ \/ fr[g].dirty = frames[g].dirty
          \/ /\ frames[g].dirty /\ ~fr[g].dirty
             /\ g = local[t].frame /\ Flushes(t) /\ Saved(g)

LEMMA SettledMoves ==
    ASSUME TInv, Structure, NEW t \in Threads, OthersWait(t), pc[t] # "edited", pc'[t] # "edited",
           NEW fr, Settled(t, fr), NEW g \in Frames,
           frames'[g].state = fr[g].state, frames'[g].page = fr[g].page, frames'[g].gen = fr[g].gen,
           frames'[g].ver = fr[g].ver, frames'[g].dirty = fr[g].dirty
    PROVE  FrameMoves(t, g)
  <1>1. Published(g)' = Published(g)
    BY EditsKept DEF Published, Settled
  <1>2. CASE frames'[g].dirty = frames[g].dirty
    BY <1>1, <1>2 DEF FrameMoves, Keeps, Cached, Settled
  <1>3. CASE /\ frames[g].dirty /\ ~frames'[g].dirty
             /\ g = local[t].frame /\ Flushes(t) /\ Saved(g)
    <2>1. frames[g].state = "RESIDENT"
      BY <1>3, OwnedFrame
    <2> QED BY <1>1, <1>3, <2>1 DEF FrameMoves, Cleans, Cached, Settled
  <1> QED BY <1>2, <1>3 DEF Settled

(* The pages of a file that is closed are resident, and clean unless they are discarded. *)
LEMMA CloseFileEffect ==
    ASSUME TInv, Structure, Contents, NEW t \in Threads, pc[t] \notin {"idle", "edited"},
           local[t].op \in Retires, NEW l, l.file \in Files, NEW fr \in [Frames -> Frame],
           NEW fs \in [Files -> FileEntry], SameBounds(fs), Settled(t, fr),
           \A p \in PageId : p.file = l.file /\ page_table[p].state # "ABSENT" =>
              /\ page_table[p].state = "RESIDENT"
              /\ fr[page_table[p].frame].dirty =>
                    /\ local[t].op = "RETIRE_DISCARD" /\ local[t].file = l.file
                    /\ pc[t] \in {"retire", "drain"},
           CloseFile(t, l, fr, fs), UNCHANGED diskVars
    PROVE  Effect(t)
  <1> DEFINE d == l.file
             Q == {p \in PageId : p.file = d /\ page_table[p].state # "ABSENT"}
             F == {page_table[p].frame : p \in Q}
  <1>1. /\ frames' = [f \in Frames |-> IF f \in F THEN ResetFrame(fr, f)[f] ELSE fr[f]]
        /\ files' = [fs EXCEPT ![d] = Closed]
        /\ Return(t, "ok")
    BY DEF CloseFile
  <1>2. OthersWait(t) /\ pc'[t] = "idle"
    BY <1>1, Returns, AloneWaits
  <1>3. ThreadMoves(t)
    BY <1>2, DullMoves DEF DullLabels, Labels, IoLabels
  <1>4. files'[d] = Closed /\ \A e \in Files \ {d} : files'[e] = fs[e]
    BY <1>1
  <1>5. ASSUME NEW g \in F PROVE Leaves(t, g)
    <2>1. PICK p \in Q : g = page_table[p].frame
      OBVIOUS
    <2>2. page_table[p].state = "RESIDENT" /\ Maps(p, "RESIDENT", g) /\ p.file = d
      BY <2>1 DEF Maps
    <2>3. g \in Frames /\ frames[g].page = p /\ frames[g].state = "RESIDENT"
      BY <2>2, MappedFrame
    <2>4. fr[g].dirty => GivesUp(t, d)
      BY <1>2, <1>4, <2>1, <2>2 DEF GivesUp
    <2>5. frames'[g].state = "FREE" /\ frames'[g].dirty = FALSE
      <3>1. frames'[g] = ResetFrame(fr, g)[g]
        BY <1>1, <2>3
      <3> QED BY <2>3, <3>1 DEF ResetFrame, Frame
    <2>6. frames[g].dirty => \/ g = local[t].frame /\ Flushes(t) /\ Saved(g)
                             \/ GivesUp(t, frames[g].page.file)
      BY <2>2, <2>3, <2>4 DEF Settled
    <2> QED BY <2>3, <2>5, <2>6 DEF Leaves, Cached
  <1>6. ASSUME NEW g \in Frames \ F PROVE FrameMoves(t, g)
    <2>1. frames'[g] = fr[g]
      BY <1>1
    <2> QED BY <1>2, <2>1, SettledMoves
  <1>7. ASSUME NEW e \in Files PROVE BoundMoves(t, e)
    <2>1. CASE e = d
      BY <1>4, <2>1 DEF BoundMoves, diskVars
    <2>2. CASE e # d
      BY <1>4, <2>2 DEF BoundMoves, SameBounds, diskVars
    <2> QED BY <2>1, <2>2
  <1> QED BY <1>2, <1>3, <1>5, <1>6, <1>7 DEF Effect, StoreMoves, FrameMoves, diskVars

LEMMA FlushPagesEffect ==
    ASSUME TInv, Structure, Contents, NEW t \in Threads, pc[t] \notin {"idle", "edited"},
           NEW l, FlushLocal(l), NEW fr \in [Frames -> Frame], NEW fs \in [Files -> FileEntry], NEW aw,
           SameBounds(fs), Settled(t, fr),
           l.op = "RETIRE_FLUSH" => local[t].op \in Retires /\ Listed(l, fr),
           FlushPages(t, l, fr, fs, aw), UNCHANGED diskVars
    PROVE  Effect(t)
  <1>0. l \in Local /\ l.file \in Files
    BY DEF FlushLocal
  <1>1. ASSUME OthersWait(t), pc'[t] \in {"idle", "flush", "copy"}, files' = fs,
               \A g \in Frames : /\ frames'[g].state = fr[g].state /\ frames'[g].page = fr[g].page
                                 /\ frames'[g].gen = fr[g].gen /\ frames'[g].ver = fr[g].ver
                                 /\ frames'[g].dirty = fr[g].dirty
        PROVE  Effect(t)
    <2>1. ThreadMoves(t)
      BY <1>1, DullMoves DEF DullLabels, Labels, IoLabels
    <2>2. \A g \in Frames : FrameMoves(t, g)
      BY <1>1, SettledMoves
    <2>3. \A d \in Files : BoundMoves(t, d)
      BY <1>1, SameBoundsMoves
    <2> QED BY <1>1, <2>1, <2>2, <2>3 DEF Effect, StoreMoves, diskVars
  <1>2. ASSUME \A p \in l.todo : ~Unflushed(fr, p), FlushDone(t, l, fr, fs, aw) PROVE Effect(t)
    <2>1. CASE l.op = "RETIRE_FLUSH" /\ ~l.failed /\ CloseFile(t, l, fr, fs)
      <3>1. ASSUME NEW p \in PageId, p.file = l.file, page_table[p].state # "ABSENT"
            PROVE  page_table[p].state = "RESIDENT" /\ ~fr[page_table[p].frame].dirty
        BY <1>2, <2>1, <3>1 DEF Listed, Unflushed
      <3> QED BY <1>0, <2>1, <3>1, CloseFileEffect
    <2>2. CASE /\ frames' = fr /\ files' = fs /\ Return(t, IF l.failed THEN "error" ELSE "ok")
      <3>1. OthersWait(t) /\ pc'[t] = "idle"
        BY <2>2, Returns, AloneWaits
      <3> QED BY <1>1, <2>2, <3>1
    <2> QED BY <1>2, <2>1, <2>2 DEF FlushDone
  <1>3. ASSUME NEW p \in l.todo, NEW rest, NEW f, f = page_table[p].frame,
               \/ /\ frames' = fr
                  /\ Goto(t, "flush")
                  /\ local' = [local EXCEPT ![t] = rest]
               \/ /\ frames' = [fr EXCEPT ![f].io = "WRITEBACK_IN_PROGRESS"]
                  /\ Goto(t, "copy")
                  /\ local' = [local EXCEPT ![t] = [rest EXCEPT !.frame = f,
                                                                !.epoch = fr[f].epoch]],
               files' = fs
        PROVE  Effect(t)
    <2>1. \A g \in Frames : /\ frames'[g].state = fr[g].state /\ frames'[g].page = fr[g].page
                            /\ frames'[g].gen = fr[g].gen /\ frames'[g].ver = fr[g].ver
                            /\ frames'[g].dirty = fr[g].dirty
      BY <1>3 DEF Frame
    <2>2. Alone(t) /\ pc'[t] \in {"flush", "copy"}
      <3>1. CASE Goto(t, "flush") /\ local' = [local EXCEPT ![t] = rest]
        BY <3>1, GoesTo
      <3>2. CASE Goto(t, "copy") /\ local' = [local EXCEPT ![t] = [rest EXCEPT !.frame = f,
                                                                             !.epoch = fr[f].epoch]]
        BY <3>2, GoesTo
      <3> QED BY <1>3, <3>1, <3>2
    <2> QED BY <1>1, <1>3, <2>1, <2>2, AloneWaits
  <1> QED BY <1>2, <1>3, ZenonT(30) DEF FlushPages

LEMMA NothingCleaned ==
    ASSUME TInv, NEW t \in Threads
    PROVE  /\ Settled(t, frames) /\ SameBounds(files)
           /\ frames \in [Frames -> Frame] /\ files \in [Files -> FileEntry]
  BY DEF Settled, SameBounds, TInv, PoolOK

(* The loop started with the pages s. *)
LEMMA FlushTodoEffect ==
    ASSUME TInv, Structure, Contents, NEW t \in Threads, pc[t] \notin {"idle", "edited"},
           NEW s \in SUBSET PageId,
           local[t].op = "RETIRE_FLUSH" => Drained(local[t].file) /\ s = DirtyResident(local[t].file),
           NEW fs \in [Files -> FileEntry], SameBounds(fs), NEW aw,
           FlushPages(t, [local[t] EXCEPT !.todo = s], frames, fs, aw), UNCHANGED diskVars
    PROVE  Effect(t)
  <1> DEFINE l == [local[t] EXCEPT !.todo = s]
  <1>1. FlushLocal(l)
    BY InCall, TodoType
  <1>2. l.op = local[t].op /\ l.file = local[t].file /\ l.todo = s
    BY LocalFacts DEF Local
  <1>3. FlushPages(t, l, frames, fs, aw)
    OBVIOUS
  <1> HIDE DEF l
  <1>4. l.op = "RETIRE_FLUSH" => Listed(l, frames)
    <2>1. SUFFICES ASSUME Drained(l.file), s = DirtyResident(l.file) PROVE Listed(l, frames)
      BY <1>2
    <2>2. ASSUME NEW p \in PageId, p.file = l.file, page_table[p].state = "RESIDENT",
                 frames[page_table[p].frame].dirty
          PROVE  p \in l.todo
      BY <1>2, <2>1, <2>2 DEF DirtyResident
    <2> QED BY <2>1, <2>2 DEF Listed, Drained
  <1>5. l.op = "RETIRE_FLUSH" => local[t].op \in Retires
    BY <1>2 DEF Retires
  <1> QED BY <1>1, <1>3, <1>4, <1>5, NothingCleaned, FlushPagesEffect

LEMMA FlushEffect ==
    ASSUME TInv, CallsOK, OwnershipInv, Contents, NEW t \in Threads, Flush(t) \/ FlushWake(t)
    PROVE  Effect(t)
  <1>0. /\ Structure /\ UNCHANGED diskVars /\ pc[t] \in {"start_flush", "flush"}
        /\ Settled(t, frames) /\ SameBounds(files)
        /\ frames \in [Frames -> Frame] /\ files \in [Files -> FileEntry]
    BY NothingCleaned DEF OwnershipInv, Flush, FlushWake, At
  <1>1. CASE Flush(t)
    <2>1. pc[t] = "start_flush" /\ local[t].op \in {"FLUSH_PAGE", "FLUSH_FILE", "FLUSH_ALL"}
      BY <1>1 DEF Flush, At, CallsOK, OpAt
    <2>2. ASSUME NEW s \in SUBSET PageId,
                 FlushPages(t, [local[t] EXCEPT !.todo = s], frames, files, asleep)
          PROVE  Effect(t)
      BY <1>0, <2>1, <2>2, FlushTodoEffect
    <2>3. CASE Return(t, "error") /\ UNCHANGED <<poolVars, asleep>>
      <3>1. Alone(t) /\ pc'[t] = "idle"
        BY <2>3, Returns
      <3> QED BY <1>0, <2>3, <3>1, AloneWaits, DullStep DEF poolVars, DullLabels, Labels, IoLabels
    <2>4. local[t].op = "FLUSH_PAGE" => {local[t].page} \in SUBSET PageId
      BY <2>1, InCall DEF FlushLocal
    <2>5. DirtyResident(local[t].file) \in SUBSET PageId /\ DirtyResident(NoFrame) \in SUBSET PageId
      BY DEF DirtyResident
    <2> QED BY <1>1, <2>2, <2>3, <2>4, <2>5 DEF Flush
  <1>2. CASE FlushWake(t)
    <2>1. pc[t] = "flush" /\ FlushPages(t, local[t], frames, files, asleep)
      BY <1>2 DEF FlushWake, At
    <2>2. FlushLocal(local[t])
      BY <2>1, InCall
    <2>3. local[t].op = "RETIRE_FLUSH" => local[t].op \in Retires /\ Listed(local[t], frames)
      BY <2>1 DEF OwnershipInv, ClosesDrained, Closes, FileDrained, PageDrained, Listed, Retires
    <2> QED BY <1>0, <2>1, <2>2, <2>3, FlushPagesEffect
  <1> QED BY <1>1, <1>2

LEMMA ReconcileEffect ==
    ASSUME TInv, OwnershipInv, Contents, NEW t \in Threads, Reconcile(t)
    PROVE  Effect(t)
  <1>0. /\ Structure /\ SameBounds(files) /\ files \in [Files -> FileEntry] /\ UNCHANGED diskVars
    BY NothingCleaned DEF OwnershipInv, Reconcile
  <1>1. pc[t] = "wrote" /\ local[t].op \notin Requests /\ Flushes(t) /\ Busy(t)
    BY DEF Reconcile, At, Requests, Fetches, Flushes, Busy, IoLabels
  <1> DEFINE l == local[t]
             f == l.frame
             b == frames[f].dirty /\ ~ImageIsCurrent(l)
             fr == [frames EXCEPT ![f] = [@ EXCEPT !.io = "NONE", !.dirty = b]]
             rest == [l EXCEPT !.todo = l.todo \ GivenUp(l),
                               !.failed = l.failed \/ ~l.ok, !.ok = TRUE,
                               !.frame = NoFrame, !.img = 0, !.gen = 0, !.epoch = 0]
  <1>2. f \in Frames /\ l \in Local
    BY <1>1, LocalFacts
  <1>3. b \in BOOLEAN /\ (b => frames[f].dirty)
    BY <1>2 DEF ImageIsCurrent, TInv, PoolOK, Frame
  <1>4. FlushPages(t, rest, fr, files, {})
    BY DEF Reconcile
  <1>5. fr \in [Frames -> Frame]
    <2> HIDE DEF b
    <2>1. [frames[f] EXCEPT !.io = "NONE", !.dirty = b] \in Frame
      <3>1. frames[f] \in Frame
        BY <1>2 DEF TInv, PoolOK
      <3> QED BY <1>3, <3>1, Zenon DEF Frame
    <2> QED BY <2>1 DEF TInv, PoolOK
  <1>6. /\ fr[f].state = frames[f].state /\ fr[f].page = frames[f].page /\ fr[f].pin = frames[f].pin
        /\ fr[f].gen = frames[f].gen /\ fr[f].ver = frames[f].ver
        /\ fr[f].dirty = b
        /\ \A g \in Frames \ {f} : fr[g] = frames[g]
    BY <1>2 DEF TInv, PoolOK, Frame
  <1>7. /\ rest.op = l.op /\ rest.file = l.file /\ rest.page = l.page
        /\ rest.todo = l.todo \ GivenUp(l) /\ rest.failed = (l.failed \/ ~l.ok)
    BY <1>2 DEF Local
  <1>8. FlushLocal(rest)
    <2> DEFINE td == l.todo \ GivenUp(l)
               fl == l.failed \/ ~l.ok
    <2>1. FlushLocal(l) /\ td \in SUBSET PageId /\ fl \in BOOLEAN /\ 0 \in Nat /\ 0 \in Int
      BY <1>1, <1>2, InCall DEF Local
    <2> HIDE DEF td, fl
    <2>2. [l EXCEPT !.todo = td, !.failed = fl, !.ok = TRUE, !.frame = NoFrame,
                    !.img = 0, !.gen = 0, !.epoch = 0] \in Local
      BY <1>2, <2>1, Zenon DEF Local, Version
    <2>3. rest \in Local
      BY <2>2 DEF td, fl
    <2> HIDE DEF rest
    <2> QED BY <1>7, <2>1, <2>3 DEF FlushLocal
  <1>9. ASSUME frames[f].dirty, ~b PROVE Saved(f)
    <2>1. l.ok /\ frames[f].page = l.target /\ frames[f].gen = l.gen
      BY <1>9 DEF ImageIsCurrent
    <2>2. l.img = Published(f) /\ cache[l.target] = l.img /\ stable[l.target] = l.img
      BY <1>1, <2>1 DEF Contents, ThreadContents
    <2> QED BY <2>1, <2>2 DEF Saved
  <1> HIDE DEF fr, rest, b
  <1>10. Settled(t, fr)
    BY <1>1, <1>3, <1>6, <1>9, ContentsTypes DEF Settled
  <1>11. rest.op = "RETIRE_FLUSH" => local[t].op \in Retires /\ Listed(rest, fr)
    <2>1. SUFFICES ASSUME l.op = "RETIRE_FLUSH" PROVE Listed(rest, fr)
      BY <1>7 DEF Retires
    <2>2. FileDrained(t)
      BY <1>1, <2>1 DEF OwnershipInv, ClosesDrained, Closes, IoLabels
    <2>3. ASSUME NEW p \in PageId, p.file = l.file, page_table[p].state # "ABSENT"
          PROVE  /\ page_table[p].state = "RESIDENT"
                 /\ fr[page_table[p].frame].pin = 0
                 /\ ~fr[page_table[p].frame].dirty \/ rest.failed \/ p \in rest.todo
      <3>1. /\ page_table[p].state = "RESIDENT" /\ frames[page_table[p].frame].pin = 0
            /\ ~frames[page_table[p].frame].dirty \/ l.failed \/ p \in l.todo
        BY <2>2, <2>3 DEF FileDrained, PageDrained
      <3>2. page_table[p].frame \in Frames
        BY DEF TInv, PoolOK, Entry
      <3>3. p \in l.todo => p \in rest.todo \/ rest.failed
        BY <1>7 DEF GivenUp
      <3> QED BY <1>3, <1>6, <1>7, <3>1, <3>2, <3>3
    <2> QED BY <1>7, <2>2, <2>3 DEF Listed, FileDrained
  <1> QED BY <1>0, <1>1, <1>4, <1>5, <1>8, <1>10, <1>11, FlushPagesEffect

LEMMA DrainEffect ==
    ASSUME TInv, OwnershipInv, Contents, NEW t \in Threads,
           pc[t] \in {"retire", "drain"}, local[t].op \in Retires,
           NEW fs \in [Files -> FileEntry], SameBounds(fs), NEW aw, Drain(t, fs, aw), UNCHANGED diskVars
    PROVE  Effect(t)
  <1>0. /\ Structure /\ Settled(t, frames) /\ frames \in [Frames -> Frame] /\ local[t].file \in Files
    BY NothingCleaned, InCall DEF OwnershipInv, FlushLocal
  <1>1. CASE /\ files' = fs /\ Goto(t, "drain")
             /\ UNCHANGED <<frames, free_list, page_table, local>>
    <2>1. OthersWait(t) /\ pc'[t] = "drain"
      BY <1>1, Moves, AloneWaits
    <2>2. ThreadMoves(t)
      BY <2>1, DullMoves DEF DullLabels, Labels, IoLabels
    <2>3. \A g \in Frames : Keeps(t, g)
      BY <1>1, <2>1, FrameUntouched
    <2>4. \A d \in Files : BoundMoves(t, d)
      BY <1>1, SameBoundsMoves
    <2> QED BY <2>1, <2>2, <2>3, <2>4 DEF Effect, StoreMoves, FrameMoves, diskVars
  <1>2. CASE /\ Drained(local[t].file) /\ local[t].op = "RETIRE_FLUSH"
             /\ FlushPages(t, [local[t] EXCEPT !.todo = DirtyResident(local[t].file)],
                           frames, fs, aw)
    <2> DEFINE s == DirtyResident(local[t].file)
    <2>1. s \in SUBSET PageId /\ s = DirtyResident(local[t].file)
      BY DEF DirtyResident
    <2>2. FlushPages(t, [local[t] EXCEPT !.todo = s], frames, fs, aw)
      BY <1>2
    <2> HIDE DEF s
    <2> QED BY <1>0, <1>2, <2>1, <2>2, FlushTodoEffect
  <1>3. CASE /\ Drained(local[t].file) /\ local[t].op = "RETIRE_DISCARD"
             /\ CloseFile(t, local[t], frames, fs)
    <2> DEFINE l == local[t]
    <2>1. /\ l.file = local[t].file /\ l.file \in Files /\ local[t].op = "RETIRE_DISCARD"
          /\ CloseFile(t, l, frames, fs)
      BY <1>0, <1>3
    <2> HIDE DEF l
    <2>2. \A p \in PageId :
             p.file = l.file /\ page_table[p].state # "ABSENT" => page_table[p].state = "RESIDENT"
      BY <1>3, <2>1 DEF Drained
    <2> QED BY <1>0, <2>1, <2>2, CloseFileEffect
  <1> QED BY <1>1, <1>2, <1>3 DEF Drain

LEMMA RetireEffect ==
    ASSUME TInv, CallsOK, OwnershipInv, Contents, NEW t \in Threads, Retire(t) \/ RetireWake(t)
    PROVE  Effect(t)
  <1>0. /\ SameBounds(files) /\ files \in [Files -> FileEntry] /\ pc[t] \in {"retire", "drain"}
        /\ local[t].op \in Retires /\ local[t].file \in Files /\ UNCHANGED diskVars
    BY NothingCleaned, InCall DEF CallsOK, OpAt, Retire, RetireWake, At, FlushLocal
  <1>1. CASE Drain(t, files, asleep)
    BY <1>0, <1>1, DrainEffect
  <1>2. CASE files[local[t].file].state = "ACTIVE"
             /\ Drain(t, [files EXCEPT ![local[t].file].state = "RETIRING"], {})
    <2> DEFINE fs == [files EXCEPT ![local[t].file].state = "RETIRING"]
    <2>1. fs \in [Files -> FileEntry]
      BY <1>0 DEF FileEntry
    <2>2. SameBounds(fs)
      BY <1>0, <1>2 DEF SameBounds, FileEntry
    <2>3. Drain(t, fs, {})
      BY <1>2
    <2> HIDE DEF fs
    <2> QED BY <1>0, <2>1, <2>2, <2>3, DrainEffect
  <1>3. CASE Return(t, "error") /\ UNCHANGED <<poolVars, asleep>>
    <2>1. Alone(t) /\ pc'[t] = "idle"
      BY <1>3, Returns
    <2> QED BY <1>0, <1>3, <2>1, AloneWaits, DullStep DEF poolVars, DullLabels, Labels, IoLabels
  <1>4. CASE Goto(t, "threw") /\ UNCHANGED <<poolVars, asleep, local>>
    <2>1. Alone(t) /\ pc'[t] = "threw"
      BY <1>4, Moves
    <2> QED BY <1>0, <1>4, <2>1, AloneWaits, DullStep DEF poolVars, DullLabels, Labels, IoLabels
  <1> QED BY <1>1, <1>2, <1>3, <1>4 DEF Retire, RetireWake

LEMMA ShutdownEffect ==
    ASSUME TInv, CallsOK, OwnershipInv, Contents, NEW t \in Threads, Shutdown(t)
    PROVE  Effect(t)
  <1>0. /\ Structure /\ SameBounds(files) /\ files \in [Files -> FileEntry]
        /\ pc[t] \in {"quiesce", "shutdown"} /\ UNCHANGED diskVars
    BY NothingCleaned DEF OwnershipInv, Shutdown, At
  <1>1. local[t].op # "RETIRE_FLUSH"
    BY <1>0 DEF CallsOK, OpAt
  <1>2. PICK aw : AwaitIdle(t, aw)
    BY DEF Shutdown
  <1>3. CASE Goto(t, "shutdown") /\ UNCHANGED <<poolVars, local>>
    <2>1. Alone(t) /\ pc'[t] = "shutdown"
      BY <1>3, Moves
    <2> QED BY <1>0, <1>3, <2>1, AloneWaits, DullStep DEF poolVars, DullLabels, Labels, IoLabels
  <1>4. CASE FlushPages(t, [local[t] EXCEPT !.todo = DirtyResident(NoFrame)], frames, files, aw)
    <2> DEFINE s == DirtyResident(NoFrame)
    <2>1. s \in SUBSET PageId
      BY DEF DirtyResident
    <2>2. FlushPages(t, [local[t] EXCEPT !.todo = s], frames, files, aw)
      BY <1>4
    <2> HIDE DEF s
    <2> QED BY <1>0, <1>1, <2>1, <2>2, FlushTodoEffect
  <1> QED BY <1>2, <1>3, <1>4 DEF AwaitIdle

LEMMA RegisterEffect ==
    ASSUME TInv, Contents, NEW t \in Threads, ReadPageCount(t) \/ RegisterFile(t)
    PROVE  Effect(t)
  <1>0. /\ pc[t] \in {"register", "emplace"} /\ local[t].file \in Files /\ local[t] \in Local
        /\ UNCHANGED <<frames, page_table, diskVars>>
    BY InCall, LocalFacts DEF ReadPageCount, RegisterFile, At, FlushLocal, poolVars
  <1>1. CASE (\E res : Return(t, res)) /\ files' = files
    <2>1. Alone(t) /\ pc'[t] = "idle"
      BY <1>1, Returns
    <2> QED BY <1>0, <1>1, <2>1, AloneWaits, DullStep DEF DullLabels, Labels, IoLabels
  <1>2. CASE /\ local' = [local EXCEPT ![t].count = physical[local[t].file]]
             /\ Goto(t, "emplace") /\ files' = files
    <2>1. /\ Alone(t) /\ pc'[t] = "emplace" /\ local'[t].file = local[t].file
          /\ local'[t].count = physical[local[t].file]
      <3>1. Alone(t) /\ pc'[t] = "emplace"
        BY <1>2, GoesTo
      <3> QED BY <1>0, <1>2, <3>1 DEF TInv, ControlOK, Local
    <2>2. physical' = physical /\ physical[local[t].file] \in Nat
      BY <1>0 DEF diskVars, TInv, DiskOK
    <2>3. ThreadMoves(t)
      BY <2>1, <2>2 DEF ThreadMoves, ThreadBounds, ThreadContents, LatchMoves, ImageMoves, Builds,
                        Evicts, Flushes, IoLabels
    <2>4. OthersWait(t)
      BY <2>1, AloneWaits
    <2>5. \A g \in Frames : Keeps(t, g)
      BY <1>0, <2>1, <2>4, FrameUntouched
    <2>6. \A d \in Files : BoundMoves(t, d)
      BY <1>2, <2>2, BoundsKept
    <2> QED BY <1>0, <2>3, <2>4, <2>5, <2>6 DEF Effect, StoreMoves, FrameMoves, diskVars
  <1>3. CASE /\ pc[t] = "emplace" /\ files[local[t].file].state = "CLOSED"
             /\ files' = [files EXCEPT ![local[t].file] = [state |-> "ACTIVE", creating |-> FALSE,
                                                           published |-> local[t].count]]
             /\ Return(t, "ok")
    <2>1. OthersWait(t) /\ pc'[t] = "idle"
      BY <1>3, Returns, AloneWaits
    <2>2. ThreadMoves(t)
      BY <2>1, DullMoves DEF DullLabels, Labels, IoLabels
    <2>3. \A g \in Frames : Keeps(t, g)
      BY <1>0, <2>1, FrameUntouched
    <2>4. ASSUME NEW d \in Files PROVE BoundMoves(t, d)
      <3>1. CASE d = local[t].file
        <4>1. files'[d].published = local[t].count
          BY <1>0, <1>3, <3>1 DEF TInv, PoolOK
        <4> QED BY <1>0, <1>3, <3>1, <4>1 DEF BoundMoves, diskVars
      <3>2. CASE d # local[t].file
        <4>1. files'[d] = files[d]
          BY <1>3, <3>2 DEF TInv, PoolOK
        <4> QED BY <1>0, <4>1 DEF BoundMoves, diskVars
      <3> QED BY <3>1, <3>2
    <2> QED BY <1>0, <2>1, <2>2, <2>3, <2>4 DEF Effect, StoreMoves, FrameMoves, diskVars
  <1>4. CASE ReadPageCount(t)
    BY <1>1, <1>2, <1>4 DEF ReadPageCount, poolVars
  <1>5. CASE RegisterFile(t)
    BY <1>1, <1>3, <1>5 DEF RegisterFile, At
  <1> QED BY <1>4, <1>5

LEMMA CallEffect ==
    ASSUME TInv, NEW t \in Threads, NEW op \in Operations, NEW p \in PageId, Call(t, op, p)
    PROVE  Effect(t)
  <1>1. PICK l, r : pc' = [pc EXCEPT ![t] = l] /\ local' = [local EXCEPT ![t] = r]
                    /\ l \in {"pin", "turn", "start_flush", "retire", "quiesce", "register"}
    BY DEF Call, Goto, Operations
  <1>2. Alone(t) /\ pc'[t] = l
    BY <1>1, OnlyMoves
  <1>3. pc'[t] \in DullLabels
    BY <1>1, <1>2 DEF DullLabels, Labels, IoLabels
  <1>4. pc[t] = "idle" /\ UNCHANGED <<diskVars, poolVars>>
    BY DEF Call, At
  <1> QED BY <1>2, <1>3, <1>4, AloneWaits, DullStep DEF poolVars

-----------------------------------------------------------------------------
(* All steps.                                                               *)

LEMMA StepEffect ==
    ASSUME TInv, TInv', CallsOK, OwnershipInv, Contents, NEW t \in Threads, Step(t)
    PROVE  Effect(t)
  <1>1. Structure /\ Pins
    BY DEF OwnershipInv
  <1> QED BY <1>1, FetchEffect, LoadPageEffect, ReadPageEffect, FinishLoadEffect, FinishEvictionEffect,
             LatchEffect, EditEffect, UnpinEffect, NewPageEffect, ReserveEffect, BindNewPageEffect,
             FinishNewPageEffect, CopyImageEffect, WriteEffect, FlushEffect, ReconcileEffect,
             RetireEffect, ShutdownEffect, RegisterEffect DEF Step

LEMMA InitContents == Init => Contents
  <1> SUFFICES ASSUME Init PROVE Contents
    OBVIOUS
  <1>1. \A t \in Threads : pc[t] = "idle"
    BY DEF Init
  <1>2. \A f \in Frames : frames[f].state = "FREE" /\ frames[f].dirty = FALSE
    BY DEF Init
  <1>3. \A t \in Threads : ThreadBounds(t) /\ ThreadContents(t)
    BY <1>1 DEF ThreadBounds, ThreadContents, Builds, Evicts, Flushes, IoLabels
  <1>4. \A d \in Files : files[d].published =< physical[d]
    <2>1. InitialPages \in Nat
      BY ConstantsAssumption
    <2> QED BY <2>1 DEF Init, Closed
  <1>5. Latches
    BY <1>1 DEF Latches
  <1>6. \A f \in Frames : FrameContents(f)
    BY <1>2 DEF FrameContents, Cached
  <1> QED BY <1>3, <1>4, <1>5, <1>6 DEF Contents, Bounds

LEMMA ContentsStutters ==
    ASSUME Contents, UNCHANGED vars
    PROVE  Contents'
  <1>1. Bounds' /\ Latches'
    BY DEF Contents, Bounds, ThreadBounds, Latches, Builds, vars
  <1>2. \A f : Published(f)' = Published(f)
    BY DEF Published, LatchHolders, vars
  <1>3. \A f \in Frames : FrameContents(f)'
    BY <1>2 DEF Contents, FrameContents, Cached, vars
  <1>4. ASSUME NEW t \in Threads PROVE ThreadContents(t)'
    <2>1. PICK f : f = local[t].frame
      OBVIOUS
    <2>2. Published(f)' = Published(f) /\ local' = local /\ pc' = pc
      BY <1>2 DEF vars
    <2>3. Published(local[t].frame)' = Published(f)'
      BY <2>1, <2>2
    <2> QED BY <2>1, <2>2, <2>3 DEF Contents, ThreadContents, Evicts, Flushes, vars
  <1> QED BY <1>1, <1>3, <1>4 DEF Contents

ContentsInv == PoolInv /\ Contents

LEMMA InitContentsInv == Init => ContentsInv
  BY InitPool, InitContents DEF ContentsInv

(* A step is one of a thread, or leaves everything that matters as it is. *)
LEMMA StepsOfNext ==
    ASSUME CoordinatedClients, ContentsInv, [Next]_vars
    PROVE  /\ TInv /\ TInv' /\ OwnershipInv /\ OwnershipInv' /\ Structure /\ Structure' /\ Contents
           /\ PoolInv'
           /\ (\E t \in Threads : Effect(t)) \/ UNCHANGED vars
  <1>1. PoolInv'
    BY NextPool DEF ContentsInv
  <1>2. /\ TInv /\ TInv' /\ OwnershipInv /\ OwnershipInv' /\ Structure /\ Structure' /\ Contents /\ CallsOK
    BY <1>1 DEF ContentsInv, PoolInv, OwnershipInv
  <1>3. (\E t \in Threads : Effect(t)) \/ UNCHANGED vars
    <2>1. CASE \E t \in Threads : Step(t)
      BY <1>2, <2>1, StepEffect
    <2>2. CASE \E t \in Threads, op \in Operations, p \in PageId : Call(t, op, p)
      BY <1>2, <2>2, CallEffect
    <2> QED BY <2>1, <2>2 DEF Next, Terminated
  <1> QED BY <1>1, <1>2, <1>3

LEMMA NextContents ==
    ASSUME CoordinatedClients, ContentsInv, [Next]_vars
    PROVE  ContentsInv'
  BY StepsOfNext, ContentsStep, ContentsStutters DEF ContentsInv

(* The frame of a page that is in memory, before a step and after it. *)
CachedPages ==
    /\ \A f \in Frames : Cached(f) => /\ frames[f].page \in PageId
                                      /\ InMemory(frames[f].page)
                                      /\ page_table[frames[f].page].frame = f
    /\ \A p \in PageId : InMemory(p) => /\ page_table[p].frame \in Frames
                                        /\ Cached(page_table[p].frame)
                                        /\ frames[page_table[p].frame].page = p

LEMMA CachedBefore == TInv /\ Structure => CachedPages
  BY CachedPage DEF CachedPages

LEMMA CachedAfter == TInv' /\ Structure' => CachedPages'
  BY CachedBefore, PTL

(* A page stops being dirty by a writeback, or with its file. *)
LEMMA EffectCleans ==
    ASSUME TInv, TInv', Structure, Structure', Contents, NEW t \in Threads, Effect(t),
           NEW p \in PageId, Dirty(p), ~Dirty(p)'
    PROVE  \/ stable[p] = Value(p) /\ UNCHANGED <<cache, stable>>
           \/ GivesUp(t, p.file)
  <1>1. PICK f \in Frames : f = page_table[p].frame /\ Cached(f) /\ frames[f].page = p /\ frames[f].dirty
    BY CachedPage DEF Dirty
  <1>2. Value(p) = Published(f)
    BY <1>1 DEF Value, Dirty
  <1>3. ~(UNCHANGED <<frames, page_table>>)
    BY DEF Dirty, InMemory
  <1>4. FrameMoves(t, f)
    BY <1>3 DEF Effect, StoreMoves
  <1>5. ~(Cached(f)' /\ frames'[f].page = p /\ frames'[f].dirty)
    <2>1. SUFFICES ASSUME Cached(f)', frames'[f].page = p, frames'[f].dirty PROVE FALSE
      OBVIOUS
    <2>2. InMemory(frames[f].page)' /\ page_table'[p].frame = f
      BY <2>1, CachedAfter DEF CachedPages
    <2>3. InMemory(p)'
      BY <2>1, <2>2 DEF InMemory
    <2> QED BY <2>1, <2>2, <2>3 DEF Dirty
  <1>6. UNCHANGED <<cache, stable>>
    BY <1>3 DEF Effect, StoreMoves
  <1>7. CASE Leaves(t, f)
    BY <1>1, <1>2, <1>6, <1>7 DEF Leaves, Saved
  <1>8. CASE Cleans(t, f)
    BY <1>1, <1>2, <1>6, <1>8 DEF Cleans, Saved
  <1> QED BY <1>1, <1>4, <1>5, <1>7, <1>8 DEF FrameMoves, Keeps, Fills, Opens, Changes

-----------------------------------------------------------------------------
(* The disk behind the pool.                                                *)

(* The disk never runs ahead of the pool if files are not registered again, or only by the   *)
(* thread that retires them.                                                                *)
Owners == Retires \cup {"REGISTER"}
OneOwner == \A t, u \in Threads : Menu[t] \cap Owners # {} /\ Menu[u] \cap Owners # {} => t = u
OwnedFiles == OneOwner \/ NoRegistration

(* An image on its way is no newer than the frame and no older than the disk. *)
ImageBetween(t) ==
    pc[t] \in IoLabels =>
       /\ local[t].img >= 1 /\ local[t].img =< Published(local[t].frame)
       /\ cache[local[t].target] =< local[t].img /\ stable[local[t].target] =< local[t].img

PageBetween(p) ==
    /\ InMemory(p) => cache[p] =< Value(p) /\ stable[p] =< Value(p)
    /\ cache[p] >= 1 => stable[p] =< cache[p]

(* Nobody has written beyond the end of a file, nor beyond the published bound. *)
Blank(p) == cache[p] = 0 /\ stable[p] = 0

TailBlank(p) ==
    /\ p.no >= physical[p.file] => Blank(p)
    /\ files[p.file].state # "CLOSED" /\ p.no >= files[p.file].published => Blank(p)

(* The page count RegisterFile has read is still that of the file. *)
CountCurrent(t) ==
    pc[t] = "emplace" /\ files[local[t].file].state = "CLOSED" =>
       local[t].count = physical[local[t].file]

DiskBehind ==
    /\ \A t \in Threads : ImageBetween(t) /\ CountCurrent(t)
    /\ \A p \in PageId : PageBetween(p) /\ TailBlank(p)

(* The frame a page is in after a step was bound to it before. *)
LEMMA FrameOfPage ==
    ASSUME TInv, TInv', Structure, Structure', NEW t \in Threads, \A f \in Frames : FrameMoves(t, f),
           NEW p \in PageId, InMemory(p)', NEW f, f = page_table'[p].frame
    PROVE  /\ f \in Frames /\ Cached(f)' /\ frames[f].page = p /\ page_table[p].frame = f
           /\ Cached(f) <=> InMemory(p)
  <1>1. f \in Frames /\ Cached(page_table[p].frame)' /\ frames'[f].page = p
    BY CachedAfter DEF CachedPages
  <1>2. Cached(f)'
    BY <1>1 DEF Cached
  <1>3. frames[f].page = p
    BY <1>1, <1>2 DEF FrameMoves, Keeps, Leaves, Fills, Opens, Changes, Cleans
  <1>4. page_table[p].frame = f /\ page_table[p].state = frames[f].state
    BY <1>1, <1>3, CachedPage
  <1> QED BY <1>1, <1>2, <1>3, <1>4 DEF Cached, InMemory

(* A frame that keeps its page keeps its contents or publishes a change to them. *)
LEMMA FrameGrows ==
    ASSUME TInv, NEW t \in Threads, NEW f \in Frames, FrameMoves(t, f), Cached(f), Cached(f)'
    PROVE  Published(f)' = Published(f) \/ Published(f)' = Published(f) + 1
  BY DEF FrameMoves, Keeps, Leaves, Fills, Opens, Changes, Cleans

(* The page NewPage is building lies at the published end of its file, which is open. *)
LEMMA BuiltAtEnd ==
    ASSUME TInv, Structure, NEW t \in Threads, Builds(t)
    PROVE  LET p == local[t].page IN
           /\ p \in PageId /\ p.file = local[t].file /\ p.no = files[p.file].published
           /\ files[p.file].state # "CLOSED"
           /\ page_table[p].state = "LOADING"
  <1>1. Creates(t) /\ local[t].page \in PageId /\ local[t].file \in Files
    BY LocalFacts DEF Creates
  <1> QED BY <1>1 DEF Structure, ThreadsOwn, ThreadOwns, Maps, ClosedOwnsNothing

LEMMA FileGrows ==
    ASSUME TInv, NEW t \in Threads, NEW d \in Files, BoundMoves(t, d)
    PROVE  physical[d] \in Nat /\ physical'[d] \in Nat /\ physical'[d] >= physical[d]
  BY DEF TInv, DiskOK, BoundMoves

LEMMA PagesBetween ==
    ASSUME TInv, TInv', Structure, Structure', Contents, DiskBehind, NEW t \in Threads, Effect(t),
           NEW p \in PageId
    PROVE  PageBetween(p)'
  <1>0. /\ cache[p] \in Int /\ stable[p] \in Int /\ PageBetween(p)
        /\ \A f \in Frames : Published(f) \in Int
    BY ContentsTypes DEF DiskBehind
  <1>1. CASE UNCHANGED <<cache, stable>> /\ \A f \in Frames : FrameMoves(t, f)
    <2>1. ASSUME InMemory(p)' PROVE cache[p] =< Value(p)' /\ stable[p] =< Value(p)'
      <3>1. PICK f : f = page_table'[p].frame
        OBVIOUS
      <3>2. /\ f \in Frames /\ Cached(f)' /\ frames[f].page = p /\ page_table[p].frame = f
            /\ Cached(f) <=> InMemory(p)
        BY <1>1, <2>1, <3>1, FrameOfPage
      <3>3. Value(p)' = Published(f)'
        BY <2>1, <3>1 DEF Value
      <3>4. CASE Cached(f)
        <4>1. cache[p] =< Published(f) /\ stable[p] =< Published(f)
          BY <1>0, <3>2, <3>4 DEF PageBetween, Value
        <4>2. Published(f)' = Published(f) \/ Published(f)' = Published(f) + 1
          BY <1>1, <3>2, <3>4, FrameGrows
        <4> QED BY <1>0, <3>2, <3>3, <4>1, <4>2
      <3>5. CASE ~Cached(f)
        <4>1. Fills(t, f) \/ Opens(t, f)
          BY <1>1, <3>2, <3>5 DEF FrameMoves, Keeps, Leaves, Changes, Cleans
        <4>2. CASE Fills(t, f)
          BY <1>0, <3>2, <3>3, <4>2 DEF Fills, PageBetween
        <4>3. CASE Opens(t, f)
          <5>1. local[t].page = p
            BY <3>2, <4>3, OwnersBefore DEF Opens, OwnersFrames
          <5>2. Blank(p)
            <6>1. /\ files[p.file].state # "CLOSED" /\ p.no = files[p.file].published
                  /\ p.no \in Int /\ TailBlank(p)
              BY <4>3, <5>1, BuiltAtEnd, PageIdFields DEF Opens, DiskBehind
            <6> QED BY <6>1 DEF TailBlank
          <5> QED BY <3>3, <4>3, <5>2 DEF Opens, Blank
        <4> QED BY <4>1, <4>2, <4>3
      <3> QED BY <3>4, <3>5
    <2> QED BY <1>0, <1>1, <2>1 DEF PageBetween
  <1>2. CASE /\ UNCHANGED <<frames, page_table, files>> /\ pc[t] # "edited" /\ pc'[t] # "edited"
             /\ DiskMoves(t, p)
    <2>1. \A f : Published(f)' = Published(f)
      BY <1>2, PublishedKept DEF Effect
    <2>2. (InMemory(p)' <=> InMemory(p)) /\ (InMemory(p) => Value(p)' = Value(p))
      <3>1. PICK f : f = page_table[p].frame
        OBVIOUS
      <3>2. page_table'[p].frame = f /\ Published(f)' = Published(f)
        BY <1>2, <2>1, <3>1
      <3>3. Published(page_table[p].frame)' = Published(f)'
        BY <3>2
      <3> QED BY <1>2, <3>1, <3>2, <3>3 DEF Value, InMemory
    <2>3. InMemory(p) => Value(p) \in Int /\ Value(p) >= 1
      <3>1. ASSUME InMemory(p) PROVE Published(page_table[p].frame) \in Int /\ Published(page_table[p].frame) >= 1
        BY <1>0, <3>1, CachedPage DEF Contents, FrameContents
      <3> QED BY <3>1 DEF Value
    <2>4. CASE cache'[p] = cache[p] /\ stable'[p] \in {stable[p], cache[p]}
      BY <1>0, <2>2, <2>3, <2>4 DEF PageBetween
    <2>5. CASE /\ pc[t] = "write" /\ p = local[t].target
               /\ stable'[p] = stable[p] /\ cache'[p] \in {local[t].img, -1}
      <3>1. /\ local[t].img \in Int /\ local[t].img =< Published(local[t].frame)
            /\ stable[p] =< local[t].img
        BY <2>5, ContentsTypes DEF DiskBehind, ImageBetween, IoLabels
      <3>2. page_table[p].frame = local[t].frame /\ InMemory(p)
        BY <2>5, WriterFacts DEF IoLabels
      <3>3. Value(p) = Published(local[t].frame)
        BY <3>2 DEF Value
      <3> QED BY <1>0, <2>2, <2>3, <2>5, <3>1, <3>2, <3>3 DEF PageBetween
    <2>6. CASE cache'[p] = 0 /\ stable'[p] = 0
      BY <2>2, <2>3, <2>6 DEF PageBetween
    <2> QED BY <1>2, <2>4, <2>5, <2>6 DEF DiskMoves
  <1> QED BY <1>1, <1>2 DEF Effect, StoreMoves

LEMMA TailsBlank ==
    ASSUME TInv, TInv', Structure, Structure', Contents, DiskBehind, NEW t \in Threads, Effect(t),
           NEW p \in PageId
    PROVE  TailBlank(p)'
  <1>0. /\ p.file \in Files /\ p.no \in Int /\ TailBlank(p) /\ BoundMoves(t, p.file)
        /\ files[p.file].published \in Nat /\ files'[p.file].published \in Nat
    BY PageIdFields DEF DiskBehind, Effect, TInv, PoolOK, FileEntry
  <1>1. physical[p.file] \in Nat /\ physical'[p.file] \in Nat /\ physical'[p.file] >= physical[p.file]
    BY <1>0, FileGrows
  <1>2. CASE UNCHANGED <<cache, stable>>
    <2>1. p.no >= physical'[p.file] => Blank(p)
      BY <1>0, <1>1 DEF TailBlank
    <2>2. ASSUME files'[p.file].state # "CLOSED", p.no >= files'[p.file].published PROVE Blank(p)
      <3>1. CASE /\ files'[p.file].published = files[p.file].published
                 /\ files'[p.file].state = "CLOSED" <=> files[p.file].state = "CLOSED"
        BY <1>0, <2>2, <3>1 DEF TailBlank
      <3>2. CASE files'[p.file] = Closed
        BY <2>2, <3>2 DEF Closed
      <3>3. CASE Builds(t) /\ p.file = local[t].page.file /\ files'[p.file].published = local[t].page.no + 1
        BY <1>0, <2>2, <3>3, BuiltAtEnd DEF TailBlank
      <3>4. CASE /\ pc[t] = "emplace" /\ p.file = local[t].file /\ files[p.file].state = "CLOSED"
                 /\ files'[p.file].published = local[t].count
        BY <1>0, <1>1, <2>2, <3>4 DEF DiskBehind, CountCurrent, TailBlank
      <3> QED BY <1>0, <3>1, <3>2, <3>3, <3>4 DEF BoundMoves
    <2> QED BY <1>2, <2>1, <2>2 DEF TailBlank, Blank
  <1>3. CASE UNCHANGED <<frames, page_table, files>> /\ DiskMoves(t, p)
    <2>1. CASE cache'[p] = cache[p] /\ stable'[p] \in {stable[p], cache[p]}
      BY <1>0, <1>1, <1>3, <2>1 DEF TailBlank, Blank
    <2>2. CASE pc[t] = "write" /\ p = local[t].target
      <3>1. InMemory(p)
        BY <2>2, WriterFacts DEF IoLabels
      <3>2. p.no < physical[p.file]
        BY <3>1, MappedInFile DEF Contents, InMemory
      <3>3. p.no < files[p.file].published
        BY <3>1, BuiltAtEnd DEF Structure, MappedBelow, Below, InMemory
      <3> QED BY <1>0, <1>1, <1>3, <3>2, <3>3 DEF TailBlank
    <2>3. CASE cache'[p] = 0 /\ stable'[p] = 0
      BY <2>3 DEF TailBlank, Blank
    <2> QED BY <1>3, <2>1, <2>2, <2>3 DEF DiskMoves
  <1> QED BY <1>2, <1>3 DEF Effect, StoreMoves

LEMMA ImagesBetween ==
    ASSUME TInv, TInv', Structure, Structure', Contents, Contents', DiskBehind, NEW t \in Threads, Effect(t),
           NEW u \in Threads
    PROVE  ImageBetween(u)'
  <1> SUFFICES ASSUME pc'[u] \in IoLabels PROVE ImageBetween(u)'
    BY DEF ImageBetween
  <1>0. OthersWait(t) /\ ThreadMoves(t) /\ StoreMoves(t)
    BY DEF Effect
  <1>1. PICK f, q : f = local'[u].frame /\ q = local'[u].target
    OBVIOUS
  <1> DEFINE m == local'[u].img
  <1>2. /\ (Evicts(u) \/ Flushes(u))' /\ frames'[f].page = q
        /\ f \in Frames /\ frames'[f].state \in {"EVICTING", "RESIDENT"}
    <2>1. (Evicts(u) \/ Flushes(u))'
      BY DEF Evicts, Flushes
    <2>2. Busy(u)'
      BY <2>1 DEF Busy
    <2> QED BY <1>1, <2>1, <2>2, OwnersAfter DEF OwnersFrames
  <1>3. q \in PageId /\ InMemory(q)' /\ page_table'[q].frame = f
    <2>1. Cached(f)'
      BY <1>2 DEF Cached
    <2>2. frames'[f].page \in PageId /\ InMemory(frames[f].page)' /\ page_table'[frames'[f].page].frame = f
      BY <1>2, <2>1, CachedAfter DEF CachedPages
    <2> QED BY <1>2, <2>2 DEF InMemory
  <1>4. Value(q)' = Published(f)'
    BY <1>3 DEF Value
  <1>5. ImageBetween(u)' <=> /\ m >= 1 /\ m =< Published(f)'
                             /\ cache'[q] =< m /\ stable'[q] =< m
    <2>1. Published(local[u].frame)' = Published(f)'
      BY <1>1
    <2> QED BY <1>1, <2>1 DEF ImageBetween
  <1>6. ASSUME pc[u] \in IoLabels, local[u].img = m, local[u].frame = f, local[u].target = q
        PROVE  ImageBetween(u)'
    <2>1. /\ m \in Int /\ m >= 1 /\ m =< Published(f) /\ cache[q] =< m /\ stable[q] =< m
          /\ Published(f) \in Int /\ cache[q] \in Int /\ stable[q] \in Int
      <3>1. ImageBetween(u)
        BY DEF DiskBehind
      <3> QED BY <1>2, <1>3, <1>6, <3>1, ContentsTypes DEF ImageBetween
    <2>2. Cached(f) /\ InMemory(q) /\ page_table[q].frame = f
      BY <1>6, WriterFacts
    <2>3. CASE UNCHANGED <<cache, stable>> /\ \A g \in Frames : FrameMoves(t, g)
      <3>1. Cached(f)'
        BY <1>2 DEF Cached
      <3>2. Published(f)' = Published(f) \/ Published(f)' = Published(f) + 1
        BY <1>2, <2>2, <2>3, <3>1, FrameGrows
      <3> QED BY <1>5, <2>1, <2>3, <3>2
    <2>4. CASE /\ UNCHANGED <<frames, page_table, files>> /\ pc[t] # "edited" /\ pc'[t] # "edited"
               /\ \A p \in PageId : DiskMoves(t, p)
      <3>1. Published(f)' = Published(f)
        BY <1>0, <2>4, PublishedKept
      <3>2. CASE pc[t] = "write" /\ q = local[t].target
        <4>1. t = u
          BY <1>6, <3>2, WritersApart DEF IoLabels
        <4>2. stable'[q] \in {stable[q], cache[q]} /\ cache'[q] \in {cache[q], m, -1}
          BY <1>3, <1>6, <2>4, <3>2, <4>1 DEF DiskMoves
        <4> QED BY <1>5, <2>1, <3>1, <4>2
      <3>3. CASE pc[t] = "write" => q # local[t].target
        <4>1. cache'[q] = cache[q] /\ stable'[q] \in {stable[q], cache[q]}
          BY <1>3, <2>2, <2>4, <3>3, DiskKept DEF InMemory
        <4> QED BY <1>5, <2>1, <3>1, <4>1
      <3> QED BY <3>2, <3>3
    <2> QED BY <1>0, <2>3, <2>4 DEF StoreMoves
  <1>7. ASSUME m = Published(f)' PROVE ImageBetween(u)'
    <2>1. PageBetween(q)'
      BY <1>3, PagesBetween
    <2>2. cache'[q] =< Published(f)' /\ stable'[q] =< Published(f)'
      BY <1>3, <1>4, <2>1 DEF PageBetween
    <2>3. Published(f)' >= 1
      BY <1>2 DEF Contents, FrameContents, Cached
    <2>4. Published(f)' \in Int
      BY <1>2 DEF Published, TInv, PoolOK, Frame, Version
    <2> QED BY <1>5, <1>7, <2>2, <2>3, <2>4
  <1>8. CASE u = t
    <2>1. CASE /\ pc[t] \in IoLabels /\ local'[t].img = local[t].img
               /\ local'[t].frame = local[t].frame /\ local'[t].target = local[t].target
      BY <1>1, <1>6, <1>8, <2>1
    <2>2. CASE (local[t].img = Published(local[t].frame))'
      <3>1. Published(local[t].frame)' = Published(f)'
        BY <1>1, <1>8
      <3> QED BY <1>7, <1>8, <2>2, <3>1
    <2> QED BY <1>0, <1>8, <2>1, <2>2 DEF ThreadMoves, ImageMoves
  <1>9. CASE u # t
    BY <1>0, <1>1, <1>6, <1>9 DEF OthersWait, SameWork, SameCall
  <1> QED BY <1>8, <1>9

LEMMA CountsCurrent ==
    ASSUME OwnedFiles, TInv, TInv', CallsOK, Structure, DiskBehind, NEW t \in Threads, Effect(t),
           NEW u \in Threads
    PROVE  CountCurrent(u)'
  <1> SUFFICES ASSUME pc'[u] = "emplace", files'[local'[u].file].state = "CLOSED"
               PROVE  local'[u].count = physical'[local'[u].file]
    BY DEF CountCurrent
  <1>1. CASE u = t
    BY <1>1 DEF Effect, ThreadMoves
  <1>2. CASE u # t
    <2>1. pc[u] = "emplace" /\ local'[u].file = local[u].file /\ local'[u].count = local[u].count
      BY <1>2 DEF Effect, OthersWait, SameWork, SameCall
    <2>2. PICK d \in Files : d = local[u].file
      BY <2>1, InCall DEF FlushLocal
    <2>3. BoundMoves(t, d)
      BY DEF Effect
    <2>4. local[u].op = "REGISTER" /\ local[u].op \in Menu[u]
      BY <2>1 DEF CallsOK, OpAt
    <2>5. ~(pc[t] # "idle" /\ local[t].op \in Retires)
      BY <1>2, <2>4 DEF OwnedFiles, OneOwner, NoRegistration, Owners, CallsOK
    <2>6. files[d].state = "CLOSED"
      BY <2>1, <2>2, <2>3, <2>5 DEF BoundMoves
    <2>7. physical'[d] = physical[d]
      <3>1. ASSUME pc[t] = "extend", local[t].file = d PROVE FALSE
        <4>1. Creates(t)
          BY <3>1 DEF Creates, Holds
        <4> QED BY <2>6, <3>1, <4>1 DEF Structure, ThreadsOwn, ThreadOwns, ClosedOwnsNothing
      <3> QED BY <2>3, <3>1 DEF BoundMoves
    <2>8. CountCurrent(u)
      BY DEF DiskBehind
    <2> QED BY <2>1, <2>2, <2>6, <2>7, <2>8 DEF CountCurrent
  <1> QED BY <1>1, <1>2

LEMMA InitBehind == Init => DiskBehind
  <1> SUFFICES ASSUME Init PROVE DiskBehind
    OBVIOUS
  <1>1. \A t \in Threads : ImageBetween(t) /\ CountCurrent(t)
    BY DEF Init, ImageBetween, CountCurrent, IoLabels
  <1>2. ASSUME NEW p \in PageId PROVE PageBetween(p) /\ TailBlank(p)
    <2>1. /\ page_table[p].state = "ABSENT" /\ stable[p] = cache[p]
          /\ cache[p] = IF p.no =< InitialPages THEN 1 ELSE 0
          /\ physical[p.file] = InitialPages + 1
          /\ files[p.file].state = "CLOSED" \/ files[p.file].published = InitialPages + 1
      BY PageIdFields DEF Init, Absent, Closed
    <2>2. p.no \in Int /\ InitialPages \in Int
      BY PageIdFields, ConstantsAssumption
    <2>3. PageBetween(p)
      BY <2>1 DEF PageBetween, InMemory
    <2>4. TailBlank(p)
      BY <2>1, <2>2 DEF TailBlank, Blank
    <2> QED BY <2>3, <2>4
  <1> QED BY <1>1, <1>2 DEF DiskBehind

LEMMA BehindStutters ==
    ASSUME DiskBehind, UNCHANGED vars
    PROVE  DiskBehind'
  <1>1. \A f : Published(f)' = Published(f)
    BY DEF Published, LatchHolders, vars
  <1>2. ASSUME NEW t \in Threads PROVE ImageBetween(t)' /\ CountCurrent(t)'
    <2>1. PICK f : f = local[t].frame
      OBVIOUS
    <2>2. Published(f)' = Published(f) /\ local' = local /\ pc' = pc
      BY <1>1 DEF vars
    <2>3. Published(local[t].frame)' = Published(f)'
      BY <2>1, <2>2
    <2> QED BY <2>1, <2>2, <2>3 DEF DiskBehind, ImageBetween, CountCurrent, vars
  <1>3. ASSUME NEW p \in PageId PROVE PageBetween(p)' /\ TailBlank(p)'
    <2>1. PICK f : f = page_table[p].frame
      OBVIOUS
    <2>2. Published(f)' = Published(f) /\ page_table' = page_table
      BY <1>1 DEF vars
    <2>3. Published(page_table[p].frame)' = Published(f)'
      BY <2>1, <2>2
    <2> QED BY <2>1, <2>2, <2>3
            DEF DiskBehind, PageBetween, TailBlank, Blank, Value, InMemory, vars
  <1> QED BY <1>2, <1>3 DEF DiskBehind

BehindInv == ContentsInv /\ DiskBehind

LEMMA NextBehind ==
    ASSUME CoordinatedClients, OwnedFiles, BehindInv, [Next]_vars
    PROVE  BehindInv'
  <1>1. ContentsInv /\ ContentsInv' /\ DiskBehind /\ CallsOK
    BY NextContents DEF BehindInv, ContentsInv, PoolInv
  <1>2. /\ TInv /\ TInv' /\ Structure /\ Structure' /\ Contents /\ Contents'
        /\ (\E t \in Threads : Effect(t)) \/ UNCHANGED vars
    BY <1>1, StepsOfNext DEF ContentsInv
  <1>3. ASSUME NEW t \in Threads, Effect(t) PROVE DiskBehind'
    BY <1>1, <1>2, <1>3, PagesBetween, TailsBlank, ImagesBetween, CountsCurrent DEF DiskBehind
  <1> QED BY <1>1, <1>2, <1>3, BehindStutters DEF BehindInv

(* I/O does not change what the next reader of a page sees. *)
LEMMA DiskKeepsValue ==
    ASSUME TInv, Structure, Contents, DiskBehind, NEW t \in Threads, OthersWait(t), NEW p \in PageId,
           UNCHANGED <<frames, page_table, files>>, pc[t] # "edited", pc'[t] # "edited", DiskMoves(t, p)
    PROVE  Value(p)' = Value(p) /\ (Dirty(p)' <=> Dirty(p))
  <1>1. CASE InMemory(p)
    <2>1. PICK f : f = page_table[p].frame
      OBVIOUS
    <2>2. page_table'[p].frame = f /\ Published(f)' = Published(f) /\ InMemory(p)'
      BY <1>1, <2>1, PublishedKept DEF InMemory
    <2>3. Published(page_table[p].frame)' = Published(f)'
      BY <2>2
    <2> QED BY <1>1, <2>1, <2>2, <2>3 DEF Value, Dirty
  <1>2. CASE ~InMemory(p)
    <2>1. Value(p) = cache[p] /\ Value(p)' = cache'[p] /\ ~InMemory(p)'
      BY <1>2 DEF Value, InMemory
    <2>2. ~(pc[t] = "write" /\ p = local[t].target)
      BY <1>2, WriterFacts DEF IoLabels
    <2>3. ASSUME p.no = physical[p.file] PROVE cache[p] = 0
      BY <2>3, PageIdFields DEF DiskBehind, TailBlank, Blank
    <2> QED BY <1>2, <2>1, <2>2, <2>3 DEF DiskMoves, Dirty
  <1> QED BY <1>1, <1>2

(* The page whose contents thread t is about to publish, and the one it writes back.         *)
Publishes(t, p) ==
    \/ pc[t] = "edited" /\ p = frames[local[t].frame].page
    \/ Builds(t) /\ p = local[t].page

WritesBack(t, p) == (Evicts(t) \/ Flushes(t)) /\ p = local[t].target

(* What happens to a page in a step that leaves the disk alone. *)
PageKept(p) == Value(p)' = Value(p) /\ (Dirty(p)' <=> Dirty(p))

PageMoves(t, p) ==
    \/ PageKept(p)
    \/ Publishes(t, p) /\ Value(p)' = Value(p) + 1 /\ Dirty(p)'
    \/ WritesBack(t, p) /\ Value(p)' = Value(p) /\ stable[p] = Value(p) /\ ~Dirty(p)'
    \/ GivesUp(t, p.file) /\ Value(p)' =< Value(p) /\ Dirty(p) /\ ~Dirty(p)'

LEMMA PagesMove ==
    ASSUME TInv, TInv', Structure, Structure', Contents, DiskBehind, NEW t \in Threads,
           UNCHANGED <<cache, stable>>, \A f \in Frames : FrameMoves(t, f), NEW p \in PageId
    PROVE  PageMoves(t, p)
  <1>1. CASE InMemory(p)'
    <2>1. PICK f : f = page_table'[p].frame
      OBVIOUS
    <2>2. /\ f \in Frames /\ Cached(f)' /\ frames[f].page = p /\ page_table[p].frame = f
          /\ Cached(f) <=> InMemory(p)
      BY <1>1, <2>1, FrameOfPage
    <2>3. Value(p)' = Published(f)' /\ (Dirty(p)' <=> frames'[f].dirty)
      BY <1>1, <2>1 DEF Value, Dirty
    <2>4. CASE Cached(f)
      <3>1. Value(p) = Published(f) /\ (Dirty(p) <=> frames[f].dirty)
        BY <2>2, <2>4 DEF Value, Dirty
      <3>2. Keeps(t, f) \/ Changes(t, f) \/ Cleans(t, f)
        BY <2>2, <2>4 DEF FrameMoves, Leaves, Fills, Opens
      <3>3. CASE Keeps(t, f)
        BY <2>3, <2>4, <3>1, <3>3 DEF Keeps, PageMoves, PageKept
      <3>4. CASE Changes(t, f)
        BY <2>2, <2>3, <3>1, <3>4 DEF Changes, PageMoves, Publishes
      <3>5. CASE Cleans(t, f)
        <4>1. p = local[t].target
          BY <2>2, <3>5, OwnersBefore DEF Cleans, OwnersFrames
        <4> QED BY <2>2, <2>3, <3>1, <3>5, <4>1 DEF Cleans, Saved, PageMoves, WritesBack
      <3> QED BY <3>2, <3>3, <3>4, <3>5
    <2>5. CASE ~Cached(f)
      <3>1. Value(p) = cache[p] /\ ~Dirty(p)
        BY <2>2, <2>5 DEF Value, Dirty
      <3>2. Fills(t, f) \/ Opens(t, f)
        BY <2>2, <2>5 DEF FrameMoves, Keeps, Leaves, Changes, Cleans
      <3>3. CASE Fills(t, f)
        BY <2>2, <2>3, <3>1, <3>3 DEF Fills, PageMoves, PageKept
      <3>4. CASE Opens(t, f)
        <4>1. local[t].page = p
          BY <2>2, <3>4, OwnersBefore DEF Opens, OwnersFrames
        <4>2. /\ files[p.file].state # "CLOSED" /\ p.no = files[p.file].published
              /\ p.no \in Int /\ TailBlank(p)
          BY <3>4, <4>1, BuiltAtEnd, PageIdFields DEF Opens, DiskBehind
        <4>3. cache[p] = 0
          BY <4>2 DEF TailBlank, Blank
        <4> QED BY <2>3, <3>1, <3>4, <4>1, <4>3 DEF Opens, PageMoves, Publishes
      <3> QED BY <3>2, <3>3, <3>4
    <2> QED BY <2>4, <2>5
  <1>2. CASE ~InMemory(p)' /\ InMemory(p)
    <2>1. PICK f : f = page_table[p].frame
      OBVIOUS
    <2>2. /\ f \in Frames /\ Cached(f) /\ frames[f].page = p /\ Value(p) = Published(f)
          /\ Dirty(p) <=> frames[f].dirty
      BY <1>2, <2>1, CachedPage DEF Value, Dirty
    <2>3. ~(Cached(f)' /\ frames'[f].page = p)
      BY <1>2, <2>2, CachedAfter DEF CachedPages, InMemory
    <2>4. Leaves(t, f)
      BY <2>2, <2>3 DEF FrameMoves, Keeps, Fills, Opens, Changes, Cleans
    <2>5. Value(p)' = cache[p] /\ ~Dirty(p)'
      BY <1>2 DEF Value, Dirty
    <2>6. CASE ~frames[f].dirty
      BY <2>2, <2>5, <2>6 DEF Contents, FrameContents, PageMoves, PageKept
    <2>7. CASE (Evicts(t) \/ Flushes(t)) /\ f = local[t].frame /\ Saved(f)
      <3>1. p = local[t].target
        BY <2>2, <2>7, OwnersBefore DEF OwnersFrames
      <3> QED BY <2>2, <2>5, <2>7, <3>1 DEF Saved, PageMoves, WritesBack
    <2>8. CASE frames[f].dirty /\ GivesUp(t, p.file)
      <3>1. cache[p] =< Value(p)
        BY <1>2 DEF DiskBehind, PageBetween
      <3> QED BY <2>2, <2>5, <2>8, <3>1 DEF PageMoves
    <2> QED BY <2>2, <2>4, <2>6, <2>7, <2>8 DEF Leaves
  <1>3. CASE ~InMemory(p)' /\ ~InMemory(p)
    BY <1>3 DEF Value, Dirty, PageMoves, PageKept
  <1> QED BY <1>1, <1>2, <1>3

(* What a step does to the contents the next reader of a page sees. *)
LEMMA ValueMoves ==
    ASSUME TInv, TInv', Structure, Structure', Contents, DiskBehind, NEW t \in Threads, Effect(t),
           NEW p \in PageId
    PROVE  \/ Value(p)' = Value(p)
           \/ Value(p)' = Value(p) + 1
           \/ GivesUp(t, p.file)
  <1>1. CASE UNCHANGED <<cache, stable>> /\ \A f \in Frames : FrameMoves(t, f)
    BY <1>1, PagesMove DEF PageMoves, PageKept
  <1>2. CASE /\ UNCHANGED <<frames, page_table, files>> /\ pc[t] # "edited" /\ pc'[t] # "edited"
             /\ DiskMoves(t, p)
    BY <1>2, DiskKeepsValue DEF Effect
  <1> QED BY <1>1, <1>2 DEF Effect, StoreMoves

-----------------------------------------------------------------------------
(* What a call has been asked to do.                                        *)

(* The call goes on; NewPage finds out which page it makes.                                 *)
SameTask(l, m) ==
    m.op = l.op /\ m.file = l.file /\ m.goal = l.goal /\ (l.op = "NEW_PAGE" \/ m.page = l.page)

(* A step of t ends its call or goes on with it; a RetireFile that discards only waits before. *)
TaskMoves(t) ==
    \/ pc'[t] = "idle" /\ local'[t].op = "NONE" /\ pc[t] \notin {"idle", "edited", "threw"}
    \/ /\ pc'[t] # "idle" /\ pc[t] \notin {"idle", "threw"} /\ SameTask(local[t], local'[t])
       /\ pc[t] \in {"retire", "drain"} /\ local[t].op = "RETIRE_DISCARD" => pc'[t] \in {"drain", "threw"}

LEMMA TaskEnds ==
    ASSUME TInv, NEW t \in Threads, NEW res, Return(t, res), pc[t] \notin {"idle", "edited", "threw"}
    PROVE  TaskMoves(t)
  BY DEF TInv, ControlOK, Return, Goto, TaskMoves, Fresh

LEMMA TaskStays ==
    ASSUME TInv, NEW t \in Threads, pc[t] \notin {"idle", "threw"}, UNCHANGED local,
           \/ UNCHANGED pc /\ pc[t] \notin {"retire", "drain"}
           \/ \E l : /\ Goto(t, l) /\ l # "idle"
                     /\ pc[t] \in {"retire", "drain"} => l \in {"drain", "threw"}
    PROVE  TaskMoves(t)
  BY DEF TInv, ControlOK, Goto, TaskMoves, SameTask

LEMMA TaskGoesOn ==
    ASSUME TInv, NEW t \in Threads, pc[t] \notin {"idle", "retire", "drain", "threw"}, NEW l, l # "idle", Goto(t, l),
           NEW r, SameTask(local[t], r), local' = [local EXCEPT ![t] = r]
    PROVE  TaskMoves(t)
  BY DEF TInv, ControlOK, Goto, TaskMoves

(* The fields an I/O step changes.                                                           *)
LEMMA FieldTasks ==
    ASSUME NEW l \in Local, NEW x, NEW y
    PROVE  /\ SameTask(l, [l EXCEPT !.ok = x]) /\ SameTask(l, [l EXCEPT !.count = x])
           /\ SameTask(l, [l EXCEPT !.ok = x, !.count = y])
           /\ SameTask(l, [l EXCEPT !.img = x, !.gen = y])
  BY DEF SameTask, Local

LEMMA FetchTask ==
    ASSUME TInv, NEW t \in Threads,
           \/ FetchRefused(t) \/ PinResident(t) \/ AwaitEviction(t) \/ JoinLoad(t) \/ JoinWake(t)
           \/ Latch(t) \/ Edit(t) \/ MarkDirty(t) \/ ReleaseLatch(t) \/ Unpin(t)
    PROVE  TaskMoves(t)
  <1>0. local[t] \in Local
    BY LocalFacts
  <1>1. CASE FetchRefused(t) \/ Unpin(t)
    BY <1>1, TaskEnds DEF FetchRefused, Unpin, At
  <1>2. CASE AwaitEviction(t) \/ Latch(t) \/ Edit(t) \/ MarkDirty(t) \/ ReleaseLatch(t)
    BY <1>2, TaskStays DEF AwaitEviction, Latch, Edit, MarkDirty, ReleaseLatch, At
  <1>3. CASE PinResident(t)
    <2>1. PICK f : local' = [local EXCEPT ![t].frame = f]
      BY <1>3 DEF PinResident
    <2> DEFINE r == [local[t] EXCEPT !.frame = f]
    <2>2. SameTask(local[t], r) /\ local' = [local EXCEPT ![t] = r]
      BY <1>0, <2>1 DEF SameTask, Local
    <2> HIDE DEF r
    <2> QED BY <1>3, <2>2, TaskGoesOn DEF PinResident, At
  <1>4. CASE JoinLoad(t)
    <2> DEFINE r == [local[t] EXCEPT !.load = "PENDING"]
    <2>1. SameTask(local[t], r) /\ local' = [local EXCEPT ![t] = r]
      BY <1>0, <1>4 DEF SameTask, Local, JoinLoad
    <2> HIDE DEF r
    <2> QED BY <1>4, <2>1, TaskGoesOn DEF JoinLoad, At
  <1>5. CASE JoinWake(t)
    <2> DEFINE r == [local[t] EXCEPT !.frame = local[t].load, !.load = "NONE"]
    <2>1. SameTask(local[t], r)
      BY <1>0 DEF SameTask, Local
    <2>2. \/ UNCHANGED <<pc, local>>
          \/ Return(t, "error")
          \/ Goto(t, "latch") /\ local' = [local EXCEPT ![t] = r]
      BY <1>5 DEF JoinWake
    <2> HIDE DEF r
    <2> QED BY <1>5, <2>1, <2>2, TaskEnds, TaskStays, TaskGoesOn DEF JoinWake, At
  <1> QED BY <1>1, <1>2, <1>3, <1>4, <1>5

LEMMA IoTask ==
    ASSUME TInv, NEW t \in Threads,
           \/ ReadPage(t) \/ ReserveNewPageNo(t) \/ CopyImage(t) \/ WriteImage(t) \/ SyncFile(t)
           \/ ReadPageCount(t)
    PROVE  TaskMoves(t)
  <1>0. local[t] \in Local /\ local \in [Threads -> Local]
    BY LocalFacts DEF TInv, ControlOK
  <1>1. \/ \E l : Goto(t, l) /\ l # "idle" /\ UNCHANGED local
        \/ \E l, r : Goto(t, l) /\ l # "idle" /\ local' = [local EXCEPT ![t] = r] /\ SameTask(local[t], r)
        \/ \E res : Return(t, res)
    <2>1. CASE ReadPage(t)
      BY <1>0, <2>1, FieldTasks DEF ReadPage
    <2>2. CASE ReserveNewPageNo(t)
      <3>1. /\ Goto(t, "extended")
            /\ \/ \E b : local' = [local EXCEPT ![t].ok = b]
               \/ \E n : local' = [local EXCEPT ![t] = [@ EXCEPT !.ok = TRUE, !.count = n]]
        BY <2>2 DEF ReserveNewPageNo
      <3> QED BY <1>0, <3>1, FieldTasks
    <2>3. CASE CopyImage(t)
      BY <1>0, <2>3, FieldTasks DEF CopyImage
    <2>4. CASE WriteImage(t)
      BY <1>0, <2>4, FieldTasks DEF WriteImage
    <2>5. CASE SyncFile(t)
      BY <1>0, <2>5, FieldTasks DEF SyncFile
    <2>6. CASE ReadPageCount(t)
      BY <1>0, <2>6, FieldTasks DEF ReadPageCount
    <2> QED BY <2>1, <2>2, <2>3, <2>4, <2>5, <2>6
  <1>2. pc[t] \in {"read", "extend", "copy", "write", "sync", "register"}
    BY DEF ReadPage, ReserveNewPageNo, CopyImage, WriteImage, SyncFile, ReadPageCount, At
  <1> QED BY <1>1, <1>2, TaskEnds, TaskStays, TaskGoesOn

LEMMA GrantTask ==
    ASSUME TInv, NEW t \in Threads, pc[t] \in {"pin", "turn", "wrote"}, NEW f, NEW fr, NEW pt,
           Granted(t, f, fr, pt)
    PROVE  TaskMoves(t)
  <1>0. local[t] \in Local
    BY LocalFacts
  <1>1. PICK l, r : /\ l # "idle" /\ Goto(t, l) /\ local' = [local EXCEPT ![t] = r]
                    /\ SameTask(local[t], r)
    <2>1. CASE /\ Goto(t, "extend")
               /\ local' = [local EXCEPT ![t] = [@ EXCEPT !.frame = f,
                                                          !.count = files[local[t].file].published]]
      <3>1. SameTask(local[t], [local[t] EXCEPT !.frame = f, !.count = files[local[t].file].published])
        BY <1>0 DEF SameTask, Local
      <3> QED BY <2>1, <3>1
    <2>2. CASE Goto(t, "read") /\ local' = [local EXCEPT ![t].frame = f]
      <3>1. SameTask(local[t], [local[t] EXCEPT !.frame = f])
        BY <1>0 DEF SameTask, Local
      <3> QED BY <2>2, <3>1
    <2> QED BY <2>1, <2>2 DEF Granted
  <1> QED BY <1>1, TaskGoesOn

LEMMA RefuseTask ==
    ASSUME TInv, NEW t \in Threads, pc[t] \in {"pin", "turn", "wrote"}, NEW pt, NEW fs,
           Refused(t, pt, fs)
    PROVE  TaskMoves(t)
  <1>1. pc'[t] = "idle"
    BY DEF Refused, Goto, TInv, ControlOK
  <1>2. local'[t] = [Fresh EXCEPT !.result = "error"]
    BY DEF Refused, Resolve, TInv, ControlOK
  <1> QED BY <1>1, <1>2 DEF TaskMoves, Fresh

LEMMA AcquireTask ==
    ASSUME TInv, NEW t \in Threads, pc[t] \in {"pin", "turn"}, NEW pt, NEW fs, AcquireFrame(t, pt, fs)
    PROVE  TaskMoves(t)
  <1>1. ASSUME NEW f, Goto(t, "write"),
               local' = [local EXCEPT ![t] = [@ EXCEPT !.frame = f, !.target = frames[f].page,
                                                        !.img = frames[f].ver]]
        PROVE  TaskMoves(t)
    <2> DEFINE r == [local[t] EXCEPT !.frame = f, !.target = frames[f].page, !.img = frames[f].ver]
    <2>1. SameTask(local[t], r) /\ local' = [local EXCEPT ![t] = r]
      BY <1>1, LocalFacts DEF SameTask, Local
    <2> HIDE DEF r
    <2> QED BY <1>1, <2>1, TaskGoesOn
  <1> QED BY <1>1, GrantTask, RefuseTask, ZenonT(30) DEF AcquireFrame

LEMMA RequestTask ==
    ASSUME TInv, NEW t \in Threads,
           LoadPage(t) \/ NewPage(t) \/ FinishEviction(t) \/ FinishLoad(t) \/ BindNewPage(t) \/ FinishNewPage(t)
    PROVE  TaskMoves(t)
  <1>0. local[t] \in Local /\ local \in [Threads -> Local] /\ pc \in [Threads -> Labels]
    BY LocalFacts DEF TInv, ControlOK
  <1>1. CASE LoadPage(t)
    <2>1. PICK pt : AcquireFrame(t, pt, files)
      BY <1>1 DEF LoadPage
    <2> QED BY <1>1, <2>1, AcquireTask DEF LoadPage, At
  <1>2. CASE NewPage(t)
    <2>1. \/ Return(t, "error")
          \/ UNCHANGED <<pc, local>>
          \/ \E fs : AcquireFrame(t, page_table, fs)
      BY <1>2 DEF NewPage
    <2> QED BY <1>2, <2>1, AcquireTask, TaskEnds, TaskStays DEF NewPage, At
  <1>3. CASE FinishEviction(t)
    BY <1>3, GrantTask, RefuseTask DEF FinishEviction, At
  <1>4. CASE FinishLoad(t)
    <2>1. pc[t] = "loaded" /\ t \notin Joiners(local[t].page)
      BY <1>4 DEF FinishLoad, At, Joiners
    <2>2. CASE /\ local' = [Resolve(local[t].page, "FAILED") EXCEPT ![t] = [Fresh EXCEPT !.result = "error"]]
               /\ Goto(t, "idle")
      <3>1. local'[t] = [Fresh EXCEPT !.result = "error"] /\ pc'[t] = "idle"
        BY <1>0, <2>2 DEF Resolve, Goto
      <3> QED BY <2>1, <3>1 DEF TaskMoves, Fresh
    <2>3. CASE local' = Resolve(local[t].page, local[t].frame) /\ Goto(t, "latch")
      <3>1. local'[t] = local[t] /\ pc'[t] = "latch"
        BY <1>0, <2>1, <2>3 DEF Resolve, Goto
      <3> QED BY <2>1, <3>1 DEF TaskMoves, SameTask
    <2> QED BY <1>4, <2>2, <2>3 DEF FinishLoad
  <1>5. CASE BindNewPage(t)
    <2>1. pc[t] = "extended" /\ local[t].op = "NEW_PAGE"
      BY <1>5 DEF BindNewPage, At, TInv, ControlOK, ThreadOK
    <2> DEFINE p == [file |-> local[t].file, no |-> local[t].count]
               r == [local[t] EXCEPT !.page = p, !.count = 0]
    <2>2. SameTask(local[t], r)
      BY <1>0, <2>1 DEF SameTask, Local
    <2>3. Return(t, "error") \/ (Goto(t, "build") /\ local' = [local EXCEPT ![t] = r])
      BY <1>5 DEF BindNewPage
    <2> HIDE DEF r
    <2> QED BY <2>1, <2>2, <2>3, TaskEnds, TaskGoesOn
  <1>6. CASE FinishNewPage(t)
    <2>1. pc[t] = "build"
      BY <1>6 DEF FinishNewPage, At
    <2>2. Return(t, "error") \/ (Goto(t, "latch") /\ UNCHANGED local)
      BY <1>6 DEF FinishNewPage
    <2> QED BY <2>1, <2>2, TaskEnds, TaskStays
  <1> QED BY <1>1, <1>2, <1>3, <1>4, <1>5, <1>6

LEMMA FlushPagesTask ==
    ASSUME TInv, NEW t \in Threads, pc[t] \notin {"idle", "edited", "threw"},
           pc[t] \in {"retire", "drain"} => local[t].op # "RETIRE_DISCARD",
           NEW l \in Local, SameTask(local[t], l), NEW fr, NEW fs, NEW aw, FlushPages(t, l, fr, fs, aw)
    PROVE  TaskMoves(t)
  <1>1. ASSUME FlushDone(t, l, fr, fs, aw) PROVE TaskMoves(t)
    BY <1>1, TaskEnds DEF FlushDone, CloseFile
  <1>2. ASSUME NEW p, NEW s, NEW rest, rest = [l EXCEPT !.todo = s, !.target = p], NEW f,
               \/ /\ Goto(t, "flush")
                  /\ local' = [local EXCEPT ![t] = rest]
               \/ /\ Goto(t, "copy")
                  /\ local' = [local EXCEPT ![t] = [rest EXCEPT !.frame = f, !.epoch = fr[f].epoch]]
        PROVE  TaskMoves(t)
    <2>1. SameTask(local[t], rest)
      BY <1>2 DEF SameTask, Local
    <2> DEFINE r == [rest EXCEPT !.frame = f, !.epoch = fr[f].epoch]
    <2>2. SameTask(local[t], r)
      BY <1>2 DEF SameTask, Local
    <2>3. PICK m, n : n \in {"flush", "copy"} /\ Goto(t, n) /\ local' = [local EXCEPT ![t] = m] /\ SameTask(local[t], m)
      BY <1>2, <2>1, <2>2
    <2>4. pc'[t] = n /\ local'[t] = m
      BY <2>3 DEF Goto, TInv, ControlOK
    <2> QED BY <2>3, <2>4 DEF TaskMoves
  <1>3. CASE \E p \in l.todo :
                LET f == page_table[p].frame
                    rest == [l EXCEPT !.todo = {q \in l.todo : PageLeq(p, q)}, !.target = p]
                IN  \/ /\ Goto(t, "flush")
                       /\ local' = [local EXCEPT ![t] = rest]
                    \/ /\ Goto(t, "copy")
                       /\ local' = [local EXCEPT ![t] = [rest EXCEPT !.frame = f, !.epoch = fr[f].epoch]]
    BY <1>2, <1>3, Zenon
  <1> QED BY <1>1, <1>3, ZenonT(30) DEF FlushPages

(* The loop is started with any set of pages.                                               *)
LEMMA FlushTodoTask ==
    ASSUME TInv, NEW t \in Threads, pc[t] \notin {"idle", "edited", "threw"},
           pc[t] \in {"retire", "drain"} => local[t].op # "RETIRE_DISCARD",
           NEW s \in SUBSET PageId, NEW fr, NEW fs, NEW aw,
           FlushPages(t, [local[t] EXCEPT !.todo = s], fr, fs, aw)
    PROVE  TaskMoves(t)
  <1> DEFINE l == [local[t] EXCEPT !.todo = s]
  <1>1. l \in Local /\ SameTask(local[t], l)
    BY LocalFacts DEF SameTask, Local
  <1>2. FlushPages(t, l, fr, fs, aw)
    OBVIOUS
  <1> HIDE DEF l
  <1> QED BY <1>1, <1>2, FlushPagesTask

LEMMA FlushTask ==
    ASSUME TInv, CallsOK, NEW t \in Threads, Flush(t) \/ FlushWake(t) \/ Reconcile(t) \/ Shutdown(t)
    PROVE  TaskMoves(t)
  <1>0. /\ local[t] \in Local
        /\ DirtyResident(local[t].file) \in SUBSET PageId /\ DirtyResident(NoFrame) \in SUBSET PageId
    BY LocalFacts DEF DirtyResident
  <1>1. CASE Flush(t)
    <2>1. pc[t] = "start_flush" /\ (local[t].op = "FLUSH_PAGE" => {local[t].page} \in SUBSET PageId)
      BY <1>1 DEF Flush, At, TInv, ControlOK, ThreadOK
    <2>2. \/ Return(t, "error")
          \/ \E s \in SUBSET PageId : FlushPages(t, [local[t] EXCEPT !.todo = s], frames, files, asleep)
      BY <1>0, <1>1, <2>1 DEF Flush
    <2> QED BY <2>1, <2>2, TaskEnds, FlushTodoTask
  <1>2. CASE FlushWake(t)
    <2>1. pc[t] = "flush" /\ FlushPages(t, local[t], frames, files, asleep) /\ SameTask(local[t], local[t])
      BY <1>2 DEF FlushWake, At, SameTask
    <2> QED BY <1>0, <2>1, FlushPagesTask
  <1>3. CASE Reconcile(t)
    <2> DEFINE l == local[t]
               rest == [l EXCEPT !.todo = l.todo \ GivenUp(l),
                                 !.failed = l.failed \/ ~l.ok, !.ok = TRUE,
                                 !.frame = NoFrame, !.img = 0, !.gen = 0, !.epoch = 0]
    <2>1. PICK fr : FlushPages(t, rest, fr, files, {})
      BY <1>3 DEF Reconcile
    <2>2. rest \in Local /\ SameTask(l, rest)
      <3>1. /\ l.todo \ GivenUp(l) \in SUBSET PageId /\ (l.failed \/ ~l.ok) \in BOOLEAN
            /\ TRUE \in BOOLEAN /\ 0 \in Version /\ 0 \in Nat
        BY <1>0 DEF Local, Version
      <3> QED BY <1>0, <3>1 DEF SameTask, Local
    <2>3. pc[t] = "wrote"
      BY <1>3 DEF Reconcile, At
    <2> HIDE DEF rest
    <2> QED BY <2>1, <2>2, <2>3, FlushPagesTask
  <1>4. CASE Shutdown(t)
    <2>1. pc[t] \in {"quiesce", "shutdown"}
      BY <1>4 DEF Shutdown, At
    <2>2. PICK aw : AwaitIdle(t, aw)
      BY <1>4 DEF Shutdown
    <2>3. \/ Goto(t, "shutdown") /\ UNCHANGED local
          \/ \E s \in SUBSET PageId : FlushPages(t, [local[t] EXCEPT !.todo = s], frames, files, aw)
      BY <1>0, <2>2 DEF AwaitIdle
    <2> QED BY <2>1, <2>3, TaskStays, FlushTodoTask
  <1> QED BY <1>1, <1>2, <1>3, <1>4

LEMMA RetireTask ==
    ASSUME TInv, NEW t \in Threads, Retire(t) \/ RetireWake(t) \/ RegisterFile(t)
    PROVE  TaskMoves(t)
  <1>1. ASSUME pc[t] \in {"retire", "drain"}, NEW fs, NEW aw, Drain(t, fs, aw) PROVE TaskMoves(t)
    <2>1. CASE Goto(t, "drain") /\ UNCHANGED local
      BY <1>1, <2>1, TaskStays
    <2>2. CASE /\ local[t].op = "RETIRE_FLUSH"
               /\ FlushPages(t, [local[t] EXCEPT !.todo = DirtyResident(local[t].file)], frames, fs, aw)
      <3>1. DirtyResident(local[t].file) \in SUBSET PageId
        BY DEF DirtyResident
      <3> QED BY <1>1, <2>2, <3>1, FlushTodoTask
    <2>3. CASE CloseFile(t, local[t], frames, fs)
      BY <1>1, <2>3, TaskEnds DEF CloseFile
    <2> QED BY <1>1, <2>1, <2>2, <2>3 DEF Drain
  <1>2. CASE Retire(t)
    <2>1. Return(t, "error") \/ \E fs, aw : Drain(t, fs, aw)
      BY <1>2 DEF Retire
    <2> QED BY <1>1, <1>2, <2>1, TaskEnds DEF Retire, At
  <1>3. CASE RetireWake(t)
    <2>1. (Goto(t, "threw") /\ UNCHANGED local) \/ Drain(t, files, asleep)
      BY <1>3 DEF RetireWake
    <2> QED BY <1>1, <1>3, <2>1, TaskStays DEF RetireWake, At
  <1>4. CASE RegisterFile(t)
    BY <1>4, TaskEnds DEF RegisterFile, At
  <1> QED BY <1>2, <1>3, <1>4

LEMMA StepTask ==
    ASSUME TInv, CallsOK, NEW t \in Threads, Step(t)
    PROVE  TaskMoves(t)
  BY FetchTask, IoTask, RequestTask, FlushTask, RetireTask DEF Step

LEMMA CallTask ==
    ASSUME TInv, NEW t \in Threads, NEW op \in Operations, NEW p \in PageId, Call(t, op, p)
    PROVE  /\ Alone(t) /\ pc[t] = "idle" /\ pc'[t] \notin {"idle", "edited"} /\ UNCHANGED <<poolVars, diskVars>>
           /\ local'[t].op = op /\ local'[t].file = p.file /\ local'[t].goal = Goal(op, p)
           /\ op = "FLUSH_PAGE" => local'[t].page = p /\ pc'[t] = "start_flush"
           /\ op = "RETIRE_DISCARD" => pc'[t] = "retire"
           /\ op = "SHUTDOWN" => pc'[t] = "quiesce"
  <1> DEFINE l == CASE op \in {"FETCH_READ", "FETCH_WRITE"} -> "pin"
                    [] op = "NEW_PAGE" -> "turn"
                    [] op \in {"FLUSH_PAGE", "FLUSH_FILE", "FLUSH_ALL"} -> "start_flush"
                    [] op \in {"RETIRE_FLUSH", "RETIRE_DISCARD"} -> "retire"
                    [] op = "SHUTDOWN" -> "quiesce"
                    [] op = "REGISTER" -> "register"
             r == [Fresh EXCEPT !.op = op, !.file = p.file,
                                !.page = IF op \in {"FETCH_READ", "FETCH_WRITE", "FLUSH_PAGE"}
                                         THEN p ELSE NoPage,
                                !.goal = Goal(op, p)]
  <1>1. /\ l \notin {"idle", "edited"}
        /\ op = "FLUSH_PAGE" => l = "start_flush"
        /\ op = "RETIRE_DISCARD" => l = "retire"
        /\ op = "SHUTDOWN" => l = "quiesce"
    BY DEF Operations
  <1>2. /\ r.op = op /\ r.file = p.file /\ r.goal = Goal(op, p)
        /\ op = "FLUSH_PAGE" => r.page = p
    BY DEF Fresh
  <1>3. Goto(t, l) /\ local' = [local EXCEPT ![t] = r] /\ pc[t] = "idle" /\ UNCHANGED <<poolVars, diskVars>>
    BY DEF Call, At
  <1> HIDE DEF l, r
  <1>4. Alone(t) /\ pc'[t] = l /\ local'[t] = r
    BY <1>3, OnlyMoves DEF Goto
  <1> QED BY <1>1, <1>2, <1>3, <1>4

(* An idle thread has no task; a RetireFile that discards waits or is over.                  *)
TasksOK ==
    \A t \in Threads :
       /\ pc[t] = "idle" => local[t].op = "NONE"
       /\ local[t].op = "RETIRE_DISCARD" => /\ pc[t] \in {"retire", "drain", "threw"}
                                            /\ \E p \in PageId : p.file = local[t].file

LEMMA InitTasks == Init => TasksOK
  BY DEF Init, TasksOK, Fresh

LEMMA TasksStep ==
    ASSUME TasksOK, NEW t \in Threads, OthersWait(t), TaskMoves(t)
    PROVE  TasksOK'
  BY DEF TasksOK, OthersWait, SameWork, SameCall, TaskMoves, SameTask

LEMMA TasksCall ==
    ASSUME TInv, TasksOK, NEW t \in Threads, NEW op \in Operations, NEW p \in PageId, Call(t, op, p)
    PROVE  TasksOK'
  BY CallTask DEF TasksOK, Alone

-----------------------------------------------------------------------------
(* The abstract store: what the refinement mapping makes of a step.         *)

Values == [p \in PageId |-> Value(p)]
Unsaved == {p \in PageId : Dirty(p)}
Doomed == {local[t].file : t \in {u \in Threads : local[u].op = "RETIRE_DISCARD"}}

LEMMA MappedPublish ==
    ASSUME NEW p \in PageId, Values' = [Values EXCEPT ![p] = @ + 1], Unsaved' = Unsaved \cup {p},
           UNCHANGED <<stable, Doomed>>
    PROVE  Store!StoreNext
  BY DEF Store!StoreNext, Store!Publish, Values, Unsaved, Doomed

LEMMA MappedSettle ==
    ASSUME NEW p \in PageId, stable[p] = Values[p], Unsaved' = Unsaved \ {p},
           UNCHANGED <<Values, stable, Doomed>>
    PROVE  Store!StoreNext
  BY DEF Store!StoreNext, Store!Settle, Values, Unsaved, Doomed

LEMMA MappedAsk ==
    ASSUME NEW p \in PageId, Doomed' = Doomed \cup {p.file} \/ Doomed' = Doomed \ {p.file},
           UNCHANGED <<Values, stable, Unsaved>>
    PROVE  Store!StoreNext
  BY DEF Store!StoreNext, Store!Ask, Values, Unsaved, Doomed

LEMMA MappedDiscard ==
    ASSUME NEW q \in PageId, q.file \in Doomed, Doomed' \in {Doomed, Doomed \ {q.file}},
           Values' \in [PageId -> Int],
           \A p \in PageId : \/ Values'[p] = Values[p]
                             \/ p \in Unsaved /\ p.file = q.file /\ Values'[p] < Values[p],
           Unsaved' = {p \in Unsaved : p.file # q.file}, UNCHANGED stable
    PROVE  Store!StoreNext
  BY DEF Store!StoreNext, Store!Discard, Values, Unsaved, Doomed

LEMMA MappedPersist ==
    ASSUME stable' \in [PageId -> Int],
           \A p \in PageId : \/ stable'[p] \in {stable[p], Values[p]}
                             \/ p \in Unsaved /\ stable'[p] =< Values[p],
           UNCHANGED <<Values, Unsaved, Doomed>>
    PROVE  Store!StoreNext
  BY DEF Store!StoreNext, Store!Persist, Values, Unsaved, Doomed

LEMMA MappedStutter ==
    ASSUME UNCHANGED <<Values, stable, Unsaved, Doomed>>
    PROVE  UNCHANGED Store!storeVars
  BY DEF Store!storeVars, Values, Unsaved, Doomed

(* The files whose discarding has been asked for. *)
IsDoomed(d) == \E u \in Threads : local[u].op = "RETIRE_DISCARD" /\ local[u].file = d

DoomedFiles == \A d : d \in Doomed <=> IsDoomed(d)

LEMMA DoomedBefore == DoomedFiles
  BY DEF DoomedFiles, Doomed, IsDoomed

LEMMA DoomedAfter == DoomedFiles'
  BY DoomedBefore, PTL

LEMMA DoomedMoves ==
    ASSUME TasksOK, NEW t \in Threads, OthersWait(t), TaskMoves(t)
    PROVE  \/ Doomed' = Doomed
           \/ /\ local[t].op = "RETIRE_DISCARD" /\ pc[t] \in {"retire", "drain"}
              /\ Doomed' = Doomed \ {local[t].file}
  <1>1. \A u \in Threads \ {t} : local'[u].op = local[u].op /\ local'[u].file = local[u].file
    BY DEF OthersWait, SameWork, SameCall
  <1>2. CASE local'[t].op = local[t].op /\ local'[t].file = local[t].file
    <2>1. \A d : IsDoomed(d)' <=> IsDoomed(d)
      BY <1>1, <1>2 DEF IsDoomed
    <2> QED BY <2>1, DoomedBefore, DoomedAfter DEF DoomedFiles
  <1>3. CASE local'[t].op = "NONE" /\ local[t].op # "RETIRE_DISCARD"
    <2>1. \A d : IsDoomed(d)' <=> IsDoomed(d)
      BY <1>1, <1>3 DEF IsDoomed
    <2> QED BY <2>1, DoomedBefore, DoomedAfter DEF DoomedFiles
  <1>4. CASE /\ local'[t].op = "NONE" /\ local[t].op = "RETIRE_DISCARD"
             /\ pc[t] \notin {"idle", "edited", "threw"}
    <2>1. pc[t] \in {"retire", "drain"}
      BY <1>4 DEF TasksOK
    <2>2. \A d : d # local[t].file => (IsDoomed(d)' <=> IsDoomed(d))
      BY <1>1, <1>4 DEF IsDoomed
    <2>3. IsDoomed(local[t].file)
      BY <1>4 DEF IsDoomed
    <2> PICK f : f = local[t].file
      OBVIOUS
    <2>4. CASE IsDoomed(f)'
      <3>1. \A d : d \in Doomed' <=> d \in Doomed
        BY <2>2, <2>3, <2>4, DoomedBefore, DoomedAfter DEF DoomedFiles
      <3> QED BY <3>1
    <2>5. CASE ~IsDoomed(f)'
      <3>1. \A d : d \in Doomed' <=> d \in Doomed \ {f}
        BY <2>2, <2>3, <2>5, DoomedBefore, DoomedAfter DEF DoomedFiles
      <3> QED BY <1>4, <2>1, <3>1
    <2> QED BY <2>4, <2>5
  <1> QED BY <1>2, <1>3, <1>4 DEF TaskMoves, SameTask

LEMMA DoomedCall ==
    ASSUME TInv, TasksOK, NEW t \in Threads, NEW op \in Operations, NEW p \in PageId, Call(t, op, p)
    PROVE  Doomed' = Doomed \/ Doomed' = Doomed \cup {p.file}
  <1>1. /\ \A u \in Threads \ {t} : local'[u] = local[u]
        /\ local'[t].op = op /\ local'[t].file = p.file /\ local[t].op # "RETIRE_DISCARD"
    BY CallTask DEF Alone, TasksOK
  <1>2. CASE op # "RETIRE_DISCARD"
    <2>1. \A d : IsDoomed(d)' <=> IsDoomed(d)
      BY <1>1, <1>2 DEF IsDoomed
    <2>2. \A d : d \in Doomed' <=> d \in Doomed
      BY <2>1, DoomedBefore, DoomedAfter DEF DoomedFiles
    <2> QED BY <2>2
  <1>3. CASE op = "RETIRE_DISCARD"
    <2>1. \A d : IsDoomed(d)' <=> IsDoomed(d) \/ d = p.file
      BY <1>1, <1>3 DEF IsDoomed
    <2>2. \A d : d \in Doomed' <=> d \in Doomed \cup {p.file}
      BY <2>1, DoomedBefore, DoomedAfter DEF DoomedFiles
    <2> QED BY <2>2
  <1> QED BY <1>2, <1>3

(* What the mapping says of a page. *)
StoreFacts ==
    /\ Values = [p \in PageId |-> Value(p)] /\ Unsaved \subseteq PageId
    /\ \A p \in PageId : Values[p] = Value(p) /\ Value(p) \in Int /\ (p \in Unsaved <=> Dirty(p))

LEMMA FactsBefore == TInv /\ Structure => StoreFacts
  <1> SUFFICES ASSUME TInv, Structure PROVE StoreFacts
    OBVIOUS
  <1>1. ASSUME NEW p \in PageId PROVE Value(p) \in Int
    <2>1. PICK f : f = page_table[p].frame
      OBVIOUS
    <2>2. InMemory(p) => f \in Frames
      BY <2>1, CachedPage
    <2>3. InMemory(p) => Value(p) = Published(f)
      BY <2>1 DEF Value
    <2> QED BY <2>2, <2>3, ContentsTypes DEF Value
  <1> QED BY <1>1 DEF StoreFacts, Values, Unsaved

LEMMA FactsAfter == TInv' /\ Structure' => StoreFacts'
  BY FactsBefore, PTL

LEMMA NothingMapped ==
    ASSUME StoreFacts, StoreFacts', \A p \in PageId : PageKept(p)
    PROVE  UNCHANGED <<Values, Unsaved>>
  <1>1. Values' = Values
    BY DEF StoreFacts, PageKept
  <1>2. Unsaved' = Unsaved
    BY DEF StoreFacts, PageKept
  <1> QED BY <1>1, <1>2

(* A step in memory publishes a page, settles one, gives up a file, or cannot be seen.      *)
LEMMA MemoryImplements ==
    ASSUME TInv, TInv', Structure, Structure', Contents, DiskBehind, TasksOK, NEW t \in Threads,
           OthersWait(t), TaskMoves(t),
           UNCHANGED <<cache, stable>>, \A f \in Frames : FrameMoves(t, f)
    PROVE  Store!StoreNext \/ UNCHANGED Store!storeVars
  <1>0. /\ StoreFacts /\ StoreFacts' /\ stable' = stable
        /\ \A p \in PageId : PageMoves(t, p)
    BY FactsBefore, FactsAfter, PagesMove
  <1>1. ASSUME \A p \in PageId : PageKept(p) PROVE Store!StoreNext \/ UNCHANGED Store!storeVars
    <2>1. UNCHANGED <<Values, Unsaved, stable>>
      BY <1>0, <1>1, NothingMapped
    <2>2. CASE Doomed' = Doomed
      BY <2>1, <2>2, MappedStutter
    <2>3. CASE local[t].op = "RETIRE_DISCARD" /\ Doomed' = Doomed \ {local[t].file}
      <3>1. PICK p \in PageId : p.file = local[t].file
        BY <2>3 DEF TasksOK
      <3> QED BY <2>1, <2>3, <3>1, MappedAsk
    <2> QED BY <2>2, <2>3, DoomedMoves
  <1>2. ASSUME NEW p \in PageId, ~PageKept(p), Publishes(t, p)
        PROVE  Store!StoreNext
    <2>1. /\ pc[t] \in {"edited", "build"} /\ Doomed' = Doomed
          /\ \A q \in PageId : Publishes(t, q) => q = p
      BY <1>2, DoomedMoves DEF Publishes, Builds
    <2>2. \A q \in PageId : ~WritesBack(t, q) /\ ~GivesUp(t, q.file)
      BY <2>1 DEF WritesBack, GivesUp, Evicts, Flushes, IoLabels
    <2>3. \A q \in PageId \ {p} : PageKept(q)
      BY <1>0, <2>1, <2>2 DEF PageMoves
    <2>4. Value(p)' = Value(p) + 1 /\ Dirty(p)'
      BY <1>0, <1>2, <2>2 DEF PageMoves
    <2>5. Values' = [Values EXCEPT ![p] = @ + 1]
      BY <1>0, <2>3, <2>4 DEF StoreFacts, PageKept
    <2>6. Unsaved' = Unsaved \cup {p}
      BY <1>0, <2>3, <2>4 DEF StoreFacts, PageKept
    <2> QED BY <1>0, <2>1, <2>5, <2>6, MappedPublish
  <1>3. ASSUME NEW p \in PageId, ~PageKept(p), WritesBack(t, p)
        PROVE  Store!StoreNext
    <2>1. /\ pc[t] \in {"copy", "write", "sync", "wrote"} /\ Doomed' = Doomed
          /\ \A q \in PageId : WritesBack(t, q) => q = p
      BY <1>3, DoomedMoves DEF WritesBack, Evicts, Flushes, IoLabels
    <2>2. \A q \in PageId : ~Publishes(t, q) /\ ~GivesUp(t, q.file)
      BY <2>1 DEF Publishes, Builds, GivesUp
    <2>3. \A q \in PageId \ {p} : PageKept(q)
      BY <1>0, <2>1, <2>2 DEF PageMoves
    <2>4. Value(p)' = Value(p) /\ stable[p] = Value(p) /\ ~Dirty(p)'
      BY <1>0, <1>3, <2>2 DEF PageMoves
    <2>5. Values' = Values
      BY <1>0, <2>3, <2>4 DEF StoreFacts, PageKept
    <2>6. Unsaved' = Unsaved \ {p}
      BY <1>0, <2>3, <2>4 DEF StoreFacts, PageKept
    <2>7. stable[p] = Values[p]
      BY <1>0, <2>4 DEF StoreFacts
    <2> QED BY <1>0, <2>1, <2>5, <2>6, <2>7, MappedSettle
  <1>4. ASSUME NEW q \in PageId, ~PageKept(q), GivesUp(t, q.file)
        PROVE  Store!StoreNext
    <2> PICK d : d = q.file
      OBVIOUS
    <2>1. /\ pc[t] \in {"retire", "drain"} /\ local[t].op = "RETIRE_DISCARD" /\ local[t].file = d
          /\ files'[d] = Closed /\ d \in Files
      BY <1>4, PageIdFields DEF GivesUp
    <2>2. \A p \in PageId : ~Publishes(t, p) /\ ~WritesBack(t, p) /\ (GivesUp(t, p.file) => p.file = d)
      BY <2>1 DEF Publishes, Builds, WritesBack, Evicts, Flushes, IoLabels, GivesUp
    <2>3. \A p \in PageId : PageKept(p) \/ (p.file = d /\ Value(p)' =< Value(p) /\ Dirty(p))
      BY <1>0, <2>2 DEF PageMoves
    <2>4. \A p \in PageId : p.file = d => ~Dirty(p)'
      <3>1. files'[d].state = "CLOSED"
        BY <2>1 DEF Closed
      <3>2. \A p \in PageId : p.file = d => page_table'[p].state = "ABSENT"
        BY <2>1, <3>1 DEF Structure, ClosedOwnsNothing
      <3> QED BY <3>2 DEF Dirty, InMemory
    <2>5. Values' \in [PageId -> Int]
      BY <1>0 DEF StoreFacts
    <2>6. \A p \in PageId : \/ Values'[p] = Values[p]
                            \/ p \in Unsaved /\ p.file = d /\ Values'[p] < Values[p]
      <3>1. ASSUME NEW p \in PageId
            PROVE  \/ Values'[p] = Values[p]
                   \/ p \in Unsaved /\ p.file = d /\ Values'[p] < Values[p]
        <4>1. /\ Values[p] = Value(p) /\ Values'[p] = Value(p)' /\ Value(p) \in Int /\ Value(p)' \in Int
              /\ p \in Unsaved <=> Dirty(p)
          BY <1>0 DEF StoreFacts
        <4> QED BY <2>3, <4>1 DEF PageKept
      <3> QED BY <3>1
    <2>7. Unsaved' = {p \in Unsaved : p.file # d}
      <3>1. \A p \in PageId : p \in Unsaved' <=> p \in Unsaved /\ p.file # d
        BY <1>0, <2>3, <2>4 DEF StoreFacts, PageKept
      <3> QED BY <1>0, <3>1 DEF StoreFacts
    <2>8. d \in Doomed /\ Doomed' \in {Doomed, Doomed \ {d}}
      BY <2>1, DoomedMoves, DoomedBefore DEF DoomedFiles, IsDoomed
    <2> QED BY <1>0, <2>5, <2>6, <2>7, <2>8, MappedDiscard
  <1> QED BY <1>0, <1>1, <1>2, <1>3, <1>4 DEF PageMoves

(* A step of I/O lets stable storage catch up, or cannot be seen.                            *)
LEMMA DiskImplements ==
    ASSUME TInv, TInv', Structure, Structure', Contents, DiskBehind, TasksOK, NEW t \in Threads,
           OthersWait(t), TaskMoves(t), UNCHANGED <<frames, page_table, files>>,
           pc[t] # "edited", pc'[t] # "edited", \A p \in PageId : DiskMoves(t, p)
    PROVE  Store!StoreNext \/ UNCHANGED Store!storeVars
  <1>0. StoreFacts /\ StoreFacts' /\ \A p \in PageId : PageKept(p)
    BY FactsBefore, FactsAfter, DiskKeepsValue DEF PageKept
  <1>1. UNCHANGED <<Values, Unsaved>>
    BY <1>0, NothingMapped
  <1>2. CASE stable' = stable /\ Doomed' = Doomed
    BY <1>1, <1>2, MappedStutter
  <1>3. CASE stable' = stable /\ Doomed' # Doomed
    <2>1. local[t].op = "RETIRE_DISCARD" /\ Doomed' = Doomed \ {local[t].file}
      BY <1>3, DoomedMoves
    <2>2. PICK p \in PageId : p.file = local[t].file
      BY <2>1 DEF TasksOK
    <2> QED BY <1>1, <1>3, <2>1, <2>2, MappedAsk
  <1>4. CASE stable' # stable
    <2>1. stable \in [PageId -> Int] /\ stable' \in [PageId -> Int]
      BY DEF TInv, DiskOK, Version
    <2>2. pc[t] \in {"sync", "extend"}
      <3>1. PICK p \in PageId : stable'[p] # stable[p]
        BY <1>4, <2>1
      <3> QED BY <3>1 DEF DiskMoves
    <2>3. Doomed' = Doomed
      BY <2>2, DoomedMoves
    <2>4. ASSUME NEW p \in PageId
          PROVE  \/ stable'[p] \in {stable[p], Values[p]}
                 \/ p \in Unsaved /\ stable'[p] =< Values[p]
      <3>1. Values[p] = Value(p) /\ (p \in Unsaved <=> Dirty(p))
        BY <1>0 DEF StoreFacts
      <3>2. CASE stable'[p] = stable[p]
        BY <3>2
      <3>3. CASE stable'[p] = cache[p]
        <4>1. CASE ~InMemory(p)
          BY <3>1, <3>3, <4>1 DEF Value
        <4>2. CASE InMemory(p) /\ Dirty(p)
          BY <3>1, <3>3, <4>2 DEF DiskBehind, PageBetween
        <4>3. CASE InMemory(p) /\ ~Dirty(p)
          <5>1. PICK f : f = page_table[p].frame
            OBVIOUS
          <5>2. f \in Frames /\ Cached(f) /\ frames[f].page = p /\ ~frames[f].dirty /\ Value(p) = Published(f)
            BY <4>3, <5>1, CachedPage DEF Dirty, Value
          <5>3. Published(f) = cache[p]
            BY <5>2 DEF Contents, FrameContents
          <5> QED BY <3>1, <3>3, <5>2, <5>3
        <4> QED BY <4>1, <4>2, <4>3
      <3>4. CASE pc[t] = "extend" /\ p.no = physical[p.file] /\ stable'[p] = 0
        <4>1. cache[p] = 0 /\ p.no \in Int
          BY <3>4, PageIdFields DEF DiskBehind, TailBlank, Blank
        <4>2. ~InMemory(p)
          BY <3>4, <4>1, MappedInFile, PageIdFields DEF InMemory, Contents, TInv, DiskOK
        <4> QED BY <3>1, <3>4, <4>1, <4>2 DEF Value
      <3> QED BY <3>2, <3>3, <3>4 DEF DiskMoves
    <2> QED BY <1>1, <2>1, <2>3, <2>4, MappedPersist
  <1> QED BY <1>2, <1>3, <1>4

LEMMA CallImplements ==
    ASSUME TInv, TInv', Structure, Structure', TasksOK,
           NEW t \in Threads, NEW op \in Operations, NEW p \in PageId, Call(t, op, p)
    PROVE  Store!StoreNext \/ UNCHANGED Store!storeVars
  <1>1. /\ OthersWait(t) /\ pc[t] # "edited" /\ pc'[t] # "edited"
        /\ UNCHANGED <<frames, page_table, cache, stable>>
    BY CallTask, AloneWaits DEF poolVars, diskVars
  <1>2. ASSUME NEW q \in PageId PROVE PageKept(q)
    <2>1. PICK f : f = page_table[q].frame
      OBVIOUS
    <2>2. Published(f)' = Published(f) /\ page_table' = page_table
      BY <1>1, PublishedKept
    <2>3. Published(page_table[q].frame)' = Published(f)'
      BY <2>1, <2>2
    <2> QED BY <1>1, <2>1, <2>2, <2>3 DEF PageKept, Value, Dirty, InMemory
  <1>3. UNCHANGED <<Values, Unsaved, stable>>
    BY <1>1, <1>2, FactsBefore, FactsAfter, NothingMapped
  <1>4. CASE Doomed' = Doomed
    BY <1>3, <1>4, MappedStutter
  <1>5. CASE Doomed' = Doomed \cup {p.file}
    BY <1>3, <1>5, MappedAsk
  <1> QED BY <1>4, <1>5, DoomedCall

LEMMA StutterImplements ==
    ASSUME TInv, TInv', Structure, Structure', UNCHANGED vars
    PROVE  UNCHANGED Store!storeVars
  <1>1. ASSUME NEW q \in PageId PROVE PageKept(q)
    <2>1. PICK f : f = page_table[q].frame
      OBVIOUS
    <2>2. Published(f)' = Published(f) /\ page_table' = page_table
      BY DEF Published, LatchHolders, vars
    <2>3. Published(page_table[q].frame)' = Published(f)'
      BY <2>1, <2>2
    <2> QED BY <2>1, <2>2, <2>3 DEF PageKept, Value, Dirty, InMemory, vars
  <1>2. UNCHANGED <<Values, Unsaved>>
    BY <1>1, FactsBefore, FactsAfter, NothingMapped
  <1>3. UNCHANGED <<stable, Doomed>>
    BY DEF vars, Doomed
  <1> QED BY <1>2, <1>3, MappedStutter

LEMMA InitImplements == Init => Store!StoreInit
  <1> SUFFICES ASSUME Init PROVE Store!StoreInit
    OBVIOUS
  <1>1. \A p \in PageId : Value(p) = cache[p] /\ ~Dirty(p)
    BY DEF Init, Value, Dirty, InMemory, Absent
  <1>2. cache = [p \in PageId |-> IF p.no =< InitialPages THEN 1 ELSE 0] /\ stable = cache
    BY DEF Init
  <1>3. [p \in PageId |-> Value(p)] = cache
    BY <1>1, <1>2
  <1>4. cache \in [PageId -> {0, 1}]
    BY <1>2
  <1>5. {p \in PageId : Dirty(p)} = {}
    BY <1>1
  <1>6. {local[t].file : t \in {u \in Threads : local[u].op = "RETIRE_DISCARD"}} = {}
    BY DEF Init, Fresh
  <1> QED BY <1>2, <1>3, <1>4, <1>5, <1>6 DEF Store!StoreInit

(* The steps of the pool: one of a call that goes on or ends, a new call, or none.          *)
LEMMA TasksOfNext ==
    ASSUME CoordinatedClients, ContentsInv, TasksOK, [Next]_vars
    PROVE  /\ TasksOK'
           /\ \/ \E t \in Threads : Effect(t) /\ TaskMoves(t)
              \/ \E t \in Threads, op \in Operations, p \in PageId : Call(t, op, p)
              \/ UNCHANGED vars
  <1>1. /\ TInv /\ TInv' /\ OwnershipInv /\ OwnershipInv' /\ Structure /\ Structure' /\ Contents /\ CallsOK
    BY StepsOfNext DEF ContentsInv, PoolInv
  <1>2. ASSUME NEW t \in Threads, Step(t) PROVE Effect(t) /\ TaskMoves(t) /\ TasksOK'
    <2>1. Effect(t) /\ TaskMoves(t)
      BY <1>1, <1>2, StepEffect, StepTask
    <2> QED BY <2>1, TasksStep DEF Effect
  <1>3. ASSUME NEW t \in Threads, NEW op \in Operations, NEW p \in PageId, Call(t, op, p)
        PROVE  TasksOK'
    BY <1>1, <1>3, TasksCall
  <1>4. ASSUME UNCHANGED vars PROVE TasksOK'
    BY <1>4 DEF TasksOK, vars
  <1> QED BY <1>2, <1>3, <1>4 DEF Next, Terminated

TasksInv == BehindInv /\ TasksOK

LEMMA InitTasksInv == Init => TasksInv
  BY InitContentsInv, InitBehind, InitTasks DEF TasksInv, BehindInv

LEMMA OwnedCoordinate == OwnedFiles => CoordinatedClients
  BY DEF OwnedFiles, OneOwner, Owners, CoordinatedClients, OneRetirer

LEMMA NextTasks ==
    ASSUME OwnedFiles, TasksInv, [Next]_vars
    PROVE  TasksInv'
  BY OwnedCoordinate, NextBehind, TasksOfNext DEF TasksInv, BehindInv

LEMMA NextImplements ==
    ASSUME OwnedFiles, TasksInv, [Next]_vars
    PROVE  Store!StoreNext \/ UNCHANGED Store!storeVars
  <1>1. /\ TInv /\ TInv' /\ Structure /\ Structure' /\ Contents /\ DiskBehind /\ TasksOK
    BY OwnedCoordinate, StepsOfNext DEF TasksInv, BehindInv
  <1>2. \/ \E t \in Threads : Effect(t) /\ TaskMoves(t)
        \/ \E t \in Threads, op \in Operations, p \in PageId : Call(t, op, p)
        \/ UNCHANGED vars
    BY OwnedCoordinate, TasksOfNext DEF TasksInv, BehindInv
  <1>3. ASSUME NEW t \in Threads, Effect(t), TaskMoves(t)
        PROVE  Store!StoreNext \/ UNCHANGED Store!storeVars
    BY <1>1, <1>3, MemoryImplements, DiskImplements DEF Effect, StoreMoves
  <1> QED BY <1>1, <1>2, <1>3, CallImplements, StutterImplements

(* The pool implements PageStore, the store of pages that has no cache: every step of every  *)
(* thread publishes one page, lets stable storage catch up, settles a page, asks for or      *)
(* carries out a discard, or cannot be seen by the owners of pages at all.                   *)
THEOREM PoolIsAStore ==
    ASSUME OwnedFiles
    PROVE  Spec => ImplementsPageStore
  <1>1. TasksInv /\ [Next]_vars => TasksInv'
    BY NextTasks
  <1>2. TasksInv /\ [Next]_vars => [Store!StoreNext]_(Store!storeVars)
    BY NextImplements
  <1>3. TasksInv /\ [][Next]_vars => [][Store!StoreNext]_(Store!storeVars)
    BY <1>1, <1>2, PTL
  <1> QED BY <1>3, InitTasksInv, InitImplements, PTL DEF Spec, ImplementsPageStore, Store!StoreSpec

-----------------------------------------------------------------------------
(* FlushPage.                                                               *)

(* Contents as new as g are in stable storage, or the pool knows that they are not.          *)
GoalHeld(q, g) == Value(q) >= g /\ (stable[q] >= g \/ Dirty(q))

LEMMA GoalStep ==
    ASSUME TInv, TInv', Structure, Structure', Contents, DiskBehind, NEW t \in Threads, Effect(t),
           NEW q \in PageId, ~GivesUp(t, q.file), NEW g \in Int, g >= 1, GoalHeld(q, g)
    PROVE  GoalHeld(q, g)'
  <1>0. /\ Value(q) \in Int /\ Value(q)' \in Int /\ stable[q] \in Int /\ cache[q] \in Int
    BY FactsBefore, FactsAfter, ContentsTypes DEF StoreFacts
  <1>1. Value(q)' >= g
    BY <1>0, ValueMoves DEF GoalHeld
  <1>2. CASE UNCHANGED <<cache, stable>> /\ \A f \in Frames : FrameMoves(t, f)
    <2>1. PageMoves(t, q) /\ stable'[q] = stable[q]
      BY <1>2, PagesMove
    <2> QED BY <1>0, <1>1, <2>1 DEF PageMoves, PageKept, GoalHeld
  <1>3. CASE /\ UNCHANGED <<frames, page_table, files>> /\ pc[t] # "edited" /\ pc'[t] # "edited"
             /\ DiskMoves(t, q)
    <2>1. Value(q)' = Value(q) /\ (Dirty(q)' <=> Dirty(q))
      BY <1>3, DiskKeepsValue DEF Effect
    <2>2. CASE Dirty(q)
      BY <1>1, <2>1, <2>2 DEF GoalHeld
    <2>3. CASE ~Dirty(q)
      <3>1. Value(q) = cache[q]
        <4>1. CASE InMemory(q)
          <5>1. PICK f : f = page_table[q].frame
            OBVIOUS
          <5>2. f \in Frames /\ Cached(f) /\ frames[f].page = q /\ ~frames[f].dirty /\ Value(q) = Published(f)
            BY <2>3, <4>1, <5>1, CachedPage DEF Dirty, Value
          <5> QED BY <5>2 DEF Contents, FrameContents
        <4> QED BY <4>1 DEF Value
      <3>2. ~(pc[t] = "extend" /\ q.no = physical[q.file] /\ cache'[q] = 0 /\ stable'[q] = 0)
        BY <1>0, <3>1, PageIdFields DEF DiskBehind, TailBlank, Blank, GoalHeld
      <3>3. stable'[q] \in {stable[q], cache[q]}
        BY <1>3, <3>2 DEF DiskMoves
      <3> QED BY <1>0, <1>1, <2>3, <3>1, <3>3 DEF GoalHeld
    <2> QED BY <2>2, <2>3
  <1> QED BY <1>2, <1>3 DEF Effect, StoreMoves

(* Only a thread's own steps end its call. *)
LEMMA ReturnsByStep ==
    ASSUME TInv, TInv', CallsOK, OwnershipInv, Contents, [Next]_vars, ~UNCHANGED vars,
           NEW t \in Threads, pc[t] # "idle", pc'[t] = "idle"
    PROVE  Step(t) /\ Effect(t)
  <1>1. ASSUME NEW u \in Threads, Step(u) PROVE u = t
    <2>1. Effect(u)
      BY <1>1, StepEffect
    <2> QED BY <2>1 DEF Effect, OthersWait
  <1>2. ASSUME NEW u \in Threads, NEW op \in Operations, NEW p \in PageId, Call(u, op, p)
        PROVE  FALSE
    <2>1. Alone(u) /\ pc[u] = "idle" /\ pc'[u] # "idle"
      BY <1>2, CallTask
    <2> QED BY <2>1 DEF Alone
  <1>3. Step(t)
    BY <1>1, <1>2 DEF Next, Terminated
  <1> QED BY <1>3, StepEffect

(* FlushPage has one page to flush, until it has failed.                                    *)
OnePage(l) == l.todo \subseteq {l.page} /\ (l.failed \/ l.page \in l.todo)

GoalsOK ==
    \A t \in Threads :
       local[t].op = "FLUSH_PAGE" =>
          /\ pc[t] \in {"start_flush", "flush", "copy"} \cup IoLabels
          /\ pc[t] # "start_flush" => OnePage(local[t])
          /\ \A q \in PageId :
                local[t].goal[q] > 0 => q = local[t].page /\ GoalHeld(q, local[t].goal[q])

(* A step of FlushPage: it returns, or it still has its page to flush.                      *)
FlushMoves(t) ==
    \/ /\ pc'[t] = "idle" /\ UNCHANGED stable
       /\ \A p \in PageId : local'[t].result = "ok" /\ p = local[t].page => ~Dirty(p)'
    \/ pc'[t] \in {"flush", "copy"} \cup IoLabels /\ OnePage(local'[t])

LEMMA FlushOnePage ==
    ASSUME TInv, NEW t \in Threads, NEW l \in Local, l.op = "FLUSH_PAGE", l.page = local[t].page,
           l.page \in PageId, OnePage(l), NEW fr, NEW fs, NEW aw, FlushPages(t, l, fr, fs, aw),
           UNCHANGED stable
    PROVE  FlushMoves(t)
  <1>0. PageLeq(l.page, l.page)
    BY PageIdFields, ConstantsAssumption DEF PageLeq
  <1>1. ASSUME \A p \in l.todo : ~Unflushed(fr, p), FlushDone(t, l, fr, fs, aw) PROVE FlushMoves(t)
    <2>1. /\ frames' = fr /\ page_table' = page_table
          /\ Return(t, IF l.failed THEN "error" ELSE "ok")
      BY <1>1 DEF FlushDone
    <2>2. pc'[t] = "idle" /\ local'[t].result = IF l.failed THEN "error" ELSE "ok"
      BY <2>1 DEF Return, Goto, TInv, ControlOK, Fresh
    <2>3. local'[t].result = "ok" => ~Unflushed(fr, l.page)
      BY <1>1, <2>2 DEF OnePage
    <2> QED BY <2>1, <2>2, <2>3 DEF FlushMoves, Dirty, InMemory, Unflushed
  <1>2. ASSUME NEW p \in l.todo, NEW n \in {"flush", "copy"}, Goto(t, n),
               NEW r, local' = [local EXCEPT ![t] = r], r.page = l.page, r.failed = l.failed,
               r.todo = {q \in l.todo : PageLeq(p, q)}
        PROVE  FlushMoves(t)
    <2>1. p = l.page
      BY <1>2 DEF OnePage
    <2>2. OnePage(r)
      BY <1>0, <1>2, <2>1 DEF OnePage
    <2>3. pc'[t] = n /\ local'[t] = r
      BY <1>2 DEF Goto, TInv, ControlOK
    <2> QED BY <1>2, <2>2, <2>3 DEF FlushMoves
  <1>3. ASSUME NEW p \in l.todo,
               LET f == page_table[p].frame
                   rest == [l EXCEPT !.todo = {q \in l.todo : PageLeq(p, q)}, !.target = p]
               IN  \/ /\ Goto(t, "flush")
                      /\ local' = [local EXCEPT ![t] = rest]
                   \/ /\ Goto(t, "copy")
                      /\ local' = [local EXCEPT ![t] = [rest EXCEPT !.frame = f, !.epoch = fr[f].epoch]]
        PROVE  FlushMoves(t)
    <2> DEFINE rest == [l EXCEPT !.todo = {q \in l.todo : PageLeq(p, q)}, !.target = p]
               copy == [rest EXCEPT !.frame = page_table[p].frame, !.epoch = fr[page_table[p].frame].epoch]
    <2>1. /\ rest.page = l.page /\ rest.failed = l.failed /\ rest.todo = {q \in l.todo : PageLeq(p, q)}
          /\ copy.page = l.page /\ copy.failed = l.failed /\ copy.todo = {q \in l.todo : PageLeq(p, q)}
      BY DEF Local
    <2>2. \/ Goto(t, "flush") /\ local' = [local EXCEPT ![t] = rest]
          \/ Goto(t, "copy") /\ local' = [local EXCEPT ![t] = copy]
      BY <1>3, Zenon
    <2> HIDE DEF rest, copy
    <2> QED BY <1>2, <2>1, <2>2
  <1> QED BY <1>1, <1>3, ZenonT(30) DEF FlushPages

(* A thread on its way with an image keeps its task and its list. *)
LEMMA ImageGoesOn ==
    ASSUME TInv, NEW t \in Threads, CopyImage(t) \/ WriteImage(t) \/ SyncFile(t)
    PROVE  /\ pc'[t] \in IoLabels /\ local'[t].page = local[t].page
           /\ local'[t].todo = local[t].todo /\ local'[t].failed = local[t].failed
  <1> DEFINE Carries == /\ pc'[t] \in IoLabels /\ local'[t].page = local[t].page
                     /\ local'[t].todo = local[t].todo /\ local'[t].failed = local[t].failed
  <1>1. local[t] \in Local
    BY DEF TInv, ControlOK
  <1>2. ASSUME NEW n \in IoLabels, Goto(t, n), NEW r, local' = [local EXCEPT ![t] = r],
               r.page = local[t].page, r.todo = local[t].todo, r.failed = local[t].failed
        PROVE  Carries
    BY <1>2 DEF Goto, TInv, ControlOK
  <1> SUFFICES Carries
    OBVIOUS
  <1> HIDE DEF Carries
  <1>3. CASE CopyImage(t)
    <2>1. PICK x, y : /\ Goto(t, "write")
                      /\ local' = [local EXCEPT ![t] = [local[t] EXCEPT !.img = x, !.gen = y]]
      BY <1>3 DEF CopyImage
    <2> DEFINE r == [local[t] EXCEPT !.img = x, !.gen = y]
    <2>2. r.page = local[t].page /\ r.todo = local[t].todo /\ r.failed = local[t].failed
      BY <1>1 DEF Local
    <2>3. local' = [local EXCEPT ![t] = r]
      BY <2>1
    <2> HIDE DEF r
    <2> QED BY <1>2, <2>1, <2>2, <2>3 DEF IoLabels
  <1>4. CASE WriteImage(t)
    <2>1. CASE Goto(t, "sync") /\ UNCHANGED local
      <3>1. local' = [local EXCEPT ![t] = local[t]]
        BY <2>1 DEF TInv, ControlOK
      <3> QED BY <1>2, <2>1, <3>1 DEF IoLabels
    <2>2. CASE Goto(t, "wrote") /\ local' = [local EXCEPT ![t] = [local[t] EXCEPT !.ok = FALSE]]
      <3> DEFINE r == [local[t] EXCEPT !.ok = FALSE]
      <3>1. r.page = local[t].page /\ r.todo = local[t].todo /\ r.failed = local[t].failed
        BY <1>1 DEF Local
      <3>2. local' = [local EXCEPT ![t] = r]
        BY <2>2
      <3> HIDE DEF r
      <3> QED BY <1>2, <2>2, <3>1, <3>2 DEF IoLabels
    <2> QED BY <1>4, <2>1, <2>2 DEF WriteImage
  <1>5. CASE SyncFile(t)
    <2>1. PICK x : /\ Goto(t, "wrote")
                   /\ local' = [local EXCEPT ![t] = [local[t] EXCEPT !.ok = x]]
      BY <1>5 DEF SyncFile
    <2> DEFINE r == [local[t] EXCEPT !.ok = x]
    <2>2. r.page = local[t].page /\ r.todo = local[t].todo /\ r.failed = local[t].failed
      BY <1>1 DEF Local
    <2>3. local' = [local EXCEPT ![t] = r]
      BY <2>1
    <2> HIDE DEF r
    <2> QED BY <1>2, <2>1, <2>2, <2>3 DEF IoLabels
  <1> QED BY <1>3, <1>4, <1>5

LEMMA FlushPageMoves ==
    ASSUME TInv, CallsOK, GoalsOK, NEW t \in Threads, local[t].op = "FLUSH_PAGE",
           \/ Flush(t) \/ FlushWake(t) \/ CopyImage(t) \/ WriteImage(t) \/ SyncFile(t) \/ Reconcile(t)
    PROVE  FlushMoves(t)
  <1>0. /\ local[t] \in Local /\ local[t].page \in PageId
        /\ pc[t] # "start_flush" => OnePage(local[t])
    BY DEF TInv, ControlOK, ThreadOK, GoalsOK
  <1>1. CASE Flush(t)
    <2> DEFINE r == [local[t] EXCEPT !.todo = {local[t].page}]
    <2>1. FlushPages(t, r, frames, files, asleep) /\ UNCHANGED stable
      BY <1>1 DEF Flush, diskVars
    <2>2. r \in Local /\ r.op = "FLUSH_PAGE" /\ r.page = local[t].page /\ OnePage(r)
      BY <1>0 DEF Local, OnePage
    <2> HIDE DEF r
    <2> QED BY <1>0, <2>1, <2>2, FlushOnePage
  <1>2. CASE FlushWake(t)
    <2>1. /\ FlushPages(t, local[t], frames, files, asleep) /\ UNCHANGED stable
          /\ OnePage(local[t])
      BY <1>0, <1>2 DEF FlushWake, At, diskVars
    <2> QED BY <1>0, <2>1, FlushOnePage
  <1>3. CASE Reconcile(t)
    <2> DEFINE l == local[t]
               rest == [l EXCEPT !.todo = l.todo \ GivenUp(l),
                                 !.failed = l.failed \/ ~l.ok, !.ok = TRUE,
                                 !.frame = NoFrame, !.img = 0, !.gen = 0, !.epoch = 0]
    <2>1. PICK fr : FlushPages(t, rest, fr, files, {})
      BY <1>3 DEF Reconcile
    <2>2. UNCHANGED stable /\ OnePage(l)
      BY <1>0, <1>3 DEF Reconcile, diskVars, At
    <2>3. /\ l.todo \ GivenUp(l) \in SUBSET PageId /\ (l.failed \/ ~l.ok) \in BOOLEAN
          /\ TRUE \in BOOLEAN /\ 0 \in Version /\ 0 \in Nat
      BY <1>0 DEF Local, Version
    <2>4. rest \in Local /\ rest.op = "FLUSH_PAGE" /\ rest.page = l.page
      BY <1>0, <2>3 DEF Local
    <2>5. rest.todo = l.todo \ GivenUp(l) /\ rest.failed = (l.failed \/ ~l.ok)
      BY <1>0 DEF Local
    <2>6. OnePage(rest)
      BY <2>2, <2>4, <2>5 DEF OnePage, GivenUp
    <2> HIDE DEF rest
    <2> QED BY <1>0, <2>1, <2>2, <2>4, <2>6, FlushOnePage
  <1>4. CASE CopyImage(t) \/ WriteImage(t) \/ SyncFile(t)
    <2>1. OnePage(local[t])
      BY <1>0, <1>4 DEF CopyImage, WriteImage, SyncFile, At
    <2> QED BY <1>4, <2>1, ImageGoesOn DEF FlushMoves, OnePage
  <1> QED BY <1>1, <1>2, <1>3, <1>4

LEMMA FlushPageStep ==
    ASSUME TInv, CallsOK, GoalsOK, NEW t \in Threads, local[t].op = "FLUSH_PAGE", Step(t)
    PROVE  FlushMoves(t)
  <1>1. pc[t] \in {"start_flush", "flush", "copy"} \cup IoLabels
    BY DEF GoalsOK
  <1>2. ~(\/ FetchRefused(t) \/ PinResident(t) \/ AwaitEviction(t) \/ JoinLoad(t) \/ JoinWake(t)
          \/ LoadPage(t) \/ ReadPage(t) \/ FinishLoad(t))
    BY <1>1 DEF FetchRefused, PinResident, AwaitEviction, JoinLoad, JoinWake, LoadPage, ReadPage,
                FinishLoad, At, IoLabels
  <1>3. ~(\/ Latch(t) \/ Edit(t) \/ MarkDirty(t) \/ ReleaseLatch(t) \/ Unpin(t)
          \/ NewPage(t) \/ ReserveNewPageNo(t) \/ BindNewPage(t) \/ FinishNewPage(t))
    BY <1>1 DEF Latch, Edit, MarkDirty, ReleaseLatch, Unpin, NewPage, ReserveNewPageNo, BindNewPage,
                FinishNewPage, At, IoLabels
  <1>4. ~FinishEviction(t)
    BY DEF FinishEviction
  <1>5. ~(\/ Retire(t) \/ RetireWake(t) \/ Shutdown(t) \/ ReadPageCount(t) \/ RegisterFile(t))
    BY <1>1 DEF Retire, RetireWake, Shutdown, ReadPageCount, RegisterFile, At, IoLabels
  <1> QED BY <1>2, <1>3, <1>4, <1>5, FlushPageMoves DEF Step

(* No client throws unsaved pages away.                                                     *)
NoDiscards == \A t \in Threads : "RETIRE_DISCARD" \notin Menu[t]

LEMMA NothingGivesUp ==
    ASSUME NoDiscards, CallsOK, NEW t \in Threads, NEW d
    PROVE  ~GivesUp(t, d)
  BY DEF NoDiscards, CallsOK, GivesUp

LEMMA GoalTypes ==
    ASSUME TInv, NEW t \in Threads, NEW q \in PageId
    PROVE  local[t].goal[q] \in Int
  BY DEF TInv, ControlOK, ThreadOK, Local, Version

LEMMA GoalsKept ==
    ASSUME NoDiscards, CallsOK, TInv, TInv', Structure, Structure', Contents, DiskBehind, GoalsOK,
           NEW t \in Threads, Effect(t), NEW u \in Threads, local[u].op = "FLUSH_PAGE",
           local'[u].goal = local[u].goal, local'[u].page = local[u].page,
           NEW q \in PageId, local'[u].goal[q] > 0
    PROVE  /\ q = local'[u].page
           /\ GoalHeld(q, local[u].goal[q])'
  <1>1. PICK g \in Int : g = local[u].goal[q]
    BY GoalTypes
  <1>2. g >= 1 /\ q = local[u].page /\ GoalHeld(q, g)
    BY <1>1 DEF GoalsOK
  <1>3. GoalHeld(q, g)'
    BY <1>2, GoalStep, NothingGivesUp
  <1> QED BY <1>1, <1>2, <1>3 DEF GoalHeld

LEMMA GoalsStep ==
    ASSUME NoDiscards, CallsOK, TInv, TInv', Structure, Structure', Contents, DiskBehind, GoalsOK,
           NEW t \in Threads, Step(t), Effect(t), TaskMoves(t)
    PROVE  GoalsOK'
  <1> SUFFICES ASSUME NEW u \in Threads, local'[u].op = "FLUSH_PAGE"
               PROVE  /\ pc'[u] \in {"start_flush", "flush", "copy"} \cup IoLabels
                      /\ pc'[u] # "start_flush" => OnePage(local'[u])
                      /\ \A q \in PageId :
                            local'[u].goal[q] > 0 =>
                               q = local'[u].page /\ GoalHeld(q, local[u].goal[q])'
    BY DEF GoalsOK
  <1>1. CASE u # t
    <2>1. pc'[u] = pc[u] /\ SameWork(local[u], local'[u])
      BY <1>1 DEF Effect, OthersWait
    <2>2. /\ local[u].op = "FLUSH_PAGE" /\ local'[u].goal = local[u].goal /\ local'[u].page = local[u].page
          /\ local'[u].todo = local[u].todo /\ local'[u].failed = local[u].failed
      BY <2>1 DEF SameWork, SameCall
    <2>3. /\ pc[u] \in {"start_flush", "flush", "copy"} \cup IoLabels
          /\ pc[u] # "start_flush" => OnePage(local[u])
      BY <2>2 DEF GoalsOK
    <2> QED BY <2>1, <2>2, <2>3, GoalsKept DEF OnePage
  <1>2. CASE u = t
    <2>1. SameTask(local[t], local'[t]) /\ pc'[t] # "idle"
      BY <1>2 DEF TaskMoves
    <2>2. /\ local[t].op = "FLUSH_PAGE" /\ local'[t].goal = local[t].goal /\ local'[t].page = local[t].page
      BY <1>2, <2>1 DEF SameTask
    <2>3. pc'[t] \in {"flush", "copy"} \cup IoLabels /\ OnePage(local'[t])
      BY <2>1, <2>2, FlushPageStep DEF FlushMoves
    <2> QED BY <1>2, <2>2, <2>3, GoalsKept
  <1> QED BY <1>1, <1>2

(* What is asked of FlushPage is what the page holds now, if that is not saved already.      *)
LEMMA GoalsCall ==
    ASSUME NoDiscards, CallsOK, TInv, TInv', Structure, Structure', Contents, DiskBehind, GoalsOK,
           NEW t \in Threads, NEW op \in Operations, NEW p \in PageId, Call(t, op, p)
    PROVE  GoalsOK'
  <1> SUFFICES ASSUME NEW u \in Threads, local'[u].op = "FLUSH_PAGE"
               PROVE  /\ pc'[u] \in {"start_flush", "flush", "copy"} \cup IoLabels
                      /\ pc'[u] # "start_flush" => OnePage(local'[u])
                      /\ \A q \in PageId :
                            local'[u].goal[q] > 0 =>
                               q = local'[u].page /\ GoalHeld(q, local[u].goal[q])'
    BY DEF GoalsOK
  <1>0. Alone(t) /\ Effect(t)
    BY CallTask, CallEffect
  <1>1. CASE u # t
    <2>1. pc'[u] = pc[u] /\ local'[u] = local[u]
      BY <1>0, <1>1 DEF Alone
    <2>2. /\ pc[u] \in {"start_flush", "flush", "copy"} \cup IoLabels
          /\ pc[u] # "start_flush" => OnePage(local[u])
      BY <2>1 DEF GoalsOK
    <2> QED BY <1>0, <2>1, <2>2, GoalsKept
  <1>2. CASE u = t
    <2>1. op = "FLUSH_PAGE" /\ local'[t].page = p /\ pc'[t] = "start_flush" /\ local'[t].goal = Goal(op, p)
      BY <1>2, CallTask
    <2>2. ASSUME NEW q \in PageId, local'[t].goal[q] > 0
          PROVE  q = p /\ GoalHeld(q, local[t].goal[q])'
      <3>1. PICK g : g = local'[t].goal[q]
        OBVIOUS
      <3>2. g \in Int
        BY <3>1, <2>2 DEF TInv, ControlOK, ThreadOK, Local, Version
      <3>3. q = p /\ InMemory(q) /\ frames[page_table[q].frame].dirty /\ g = Published(page_table[q].frame)
        BY <2>1, <2>2, <3>1 DEF Goal
      <3>4. GoalHeld(q, g)
        BY <3>2, <3>3 DEF GoalHeld, Value, Dirty
      <3>5. GoalHeld(q, g)'
        BY <1>0, <2>2, <3>1, <3>2, <3>4, GoalStep, NothingGivesUp
      <3> QED BY <3>1, <3>3, <3>5 DEF GoalHeld
    <2> QED BY <1>2, <2>1, <2>2
  <1> QED BY <1>1, <1>2

LEMMA GoalsStutter ==
    ASSUME GoalsOK, UNCHANGED vars
    PROVE  GoalsOK'
  <1>1. ASSUME NEW q \in PageId PROVE Value(q)' = Value(q) /\ (Dirty(q)' <=> Dirty(q))
    <2>1. PICK f : f = page_table[q].frame
      OBVIOUS
    <2>2. Published(f)' = Published(f) /\ page_table' = page_table
      BY DEF Published, LatchHolders, vars
    <2>3. Published(page_table[q].frame)' = Published(f)'
      BY <2>1, <2>2
    <2> QED BY <2>1, <2>2, <2>3 DEF Value, Dirty, InMemory, vars
  <1> QED BY <1>1 DEF GoalsOK, GoalHeld, OnePage, vars

FlushInv == TasksInv /\ GoalsOK

LEMMA InitFlushInv == Init => FlushInv
  <1>1. Init => GoalsOK
    BY DEF Init, GoalsOK, Fresh
  <1> QED BY <1>1, InitTasksInv DEF FlushInv

LEMMA NextFlush ==
    ASSUME OwnedFiles, NoDiscards, FlushInv, [Next]_vars
    PROVE  FlushInv'
  <1>1. /\ TInv /\ TInv' /\ OwnershipInv /\ Structure /\ Structure' /\ Contents /\ DiskBehind
        /\ CallsOK /\ GoalsOK
    BY OwnedCoordinate, StepsOfNext DEF FlushInv, TasksInv, BehindInv, ContentsInv, PoolInv
  <1>2. ASSUME NEW t \in Threads, Step(t) PROVE GoalsOK'
    BY <1>1, <1>2, StepEffect, StepTask, GoalsStep
  <1>3. ASSUME NEW t \in Threads, NEW op \in Operations, NEW p \in PageId, Call(t, op, p)
        PROVE  GoalsOK'
    BY <1>1, <1>3, GoalsCall
  <1>4. ASSUME UNCHANGED vars PROVE GoalsOK'
    BY <1>1, <1>4, GoalsStutter
  <1> QED BY <1>2, <1>3, <1>4, NextTasks DEF Next, Terminated, FlushInv

(* A FlushPage that returns success has what it was asked to save in stable storage.         *)
LEMMA FlushSaves ==
    ASSUME NoDiscards, CallsOK, TInv, TInv', Structure, Structure', Contents, DiskBehind, GoalsOK,
           NEW t \in Threads, Step(t), Effect(t), Succeeds(t, {"FLUSH_PAGE"})
    PROVE  GoalIsStable(t)
  <1> SUFFICES ASSUME NEW q \in PageId, local[t].goal[q] > 0 PROVE stable[q] >= local[t].goal[q]
    BY DEF GoalIsStable
  <1>1. local[t].op = "FLUSH_PAGE" /\ pc'[t] = "idle" /\ local'[t].result = "ok"
    BY DEF Succeeds
  <1>2. PICK g \in Int : g = local[t].goal[q]
    BY GoalTypes
  <1>3. g >= 1 /\ q = local[t].page /\ GoalHeld(q, g)
    BY <1>1, <1>2 DEF GoalsOK
  <1>4. stable' = stable /\ ~Dirty(q)'
    BY <1>1, <1>3, FlushPageStep DEF FlushMoves, IoLabels
  <1>5. GoalHeld(q, g)'
    BY <1>3, GoalStep, NothingGivesUp
  <1> QED BY <1>2, <1>4, <1>5 DEF GoalHeld

(* When FlushPage returns success, what the page held when it was called is in stable        *)
(* storage, if no client discards unsaved pages: written by the call, by the flush it joined *)
(* or by the eviction it waited for, and not undone by a torn write or a retirement since.   *)
THEOREM FlushedPagesAreStable ==
    ASSUME OwnedFiles, NoDiscards
    PROVE  Spec => FlushPageIsStable
  <1>1. FlushInv /\ [Next]_vars => FlushInv'
    BY NextFlush
  <1>2. FlushInv /\ [Next]_vars
        => [\A t \in Threads : Succeeds(t, {"FLUSH_PAGE"}) => GoalIsStable(t)]_vars
    <2>1. SUFFICES ASSUME FlushInv, [Next]_vars, NEW t \in Threads, Succeeds(t, {"FLUSH_PAGE"}),
                          ~UNCHANGED vars
                   PROVE  GoalIsStable(t)
      BY Zenon
    <2>2. /\ TInv /\ TInv' /\ OwnershipInv /\ Structure /\ Structure' /\ Contents /\ DiskBehind
          /\ CallsOK /\ GoalsOK
      BY <2>1, OwnedCoordinate, StepsOfNext DEF FlushInv, TasksInv, BehindInv, ContentsInv, PoolInv
    <2>3. pc[t] # "idle" /\ pc'[t] = "idle"
      BY <2>1 DEF Succeeds
    <2>4. Step(t) /\ Effect(t)
      BY <2>1, <2>2, <2>3, ReturnsByStep
    <2> QED BY <2>1, <2>2, <2>4, FlushSaves
  <1> QED BY <1>1, <1>2, InitFlushInv, PTL DEF Spec, FlushPageIsStable

-----------------------------------------------------------------------------
(* Shutdown.                                                                *)

(* The pool is idle but for writebacks, and stays so: nothing new is let in.                 *)
AllResident == \A p \in PageId : page_table[p].state \in {"ABSENT", "RESIDENT"}

Quiet ==
    /\ quiescing /\ AllResident
    /\ \A f \in Frames : frames[f].pin = 0 /\ (frames[f].io # "NONE" => frames[f].dirty)
    /\ \A d \in Files : ~files[d].creating

(* Nobody loads, evicts, creates or holds a guard. *)
LEMMA QuietThreads ==
    ASSUME TInv, OwnershipInv, Quiet, NEW t \in Threads
    PROVE  /\ ~Reads(t) /\ ~Evicts(t) /\ ~Creates(t)
           /\ pc[t] \notin {"latch", "reading", "writing", "edited", "unpin"}
  <1>1. ThreadOwns(t)
    BY DEF OwnershipInv, Structure, ThreadsOwn
  <1>2. local[t] \in Local /\ ThreadOK(pc[t], local[t])
    BY DEF TInv, ControlOK
  <1>3. ~Reads(t) /\ ~Evicts(t)
    BY <1>1 DEF ThreadOwns, Maps, Quiet, AllResident
  <1>4. ~Creates(t)
    <2>1. Creates(t) => files[local[t].file].creating /\ local[t].file \in Files
      BY <1>1, <1>2 DEF ThreadOwns, ThreadOK, Creates, Holds, Builds, IoLabels
    <2> QED BY <2>1 DEF Quiet
  <1>5. pc[t] \notin {"latch", "reading", "writing", "edited", "unpin"}
    <2>1. SUFFICES ASSUME pc[t] \in {"latch", "reading", "writing", "edited", "unpin"} PROVE FALSE
      OBVIOUS
    <2>2. local[t].frame \in Frames /\ t \in Pinners(local[t].frame)
      BY <1>2, <2>1 DEF ThreadOK, FrameLabels, Pinners, HoldsPin
    <2> QED BY <2>2, NotPinned DEF OwnershipInv, Quiet
  <1> QED BY <1>3, <1>4, <1>5

LEMMA QuietStays ==
    ASSUME Quiet, UNCHANGED <<poolVars, quiescing>>
    PROVE  Quiet'
  BY DEF Quiet, AllResident, poolVars

LEMMA QuietCloses ==
    ASSUME TInv, AllResident, NEW t \in Threads, NEW l, NEW fr \in [Frames -> Frame],
           NEW fs \in [Files -> FileEntry], CloseFile(t, l, fr, fs), quiescing',
           \A f \in Frames : fr[f].pin = 0 /\ (fr[f].io # "NONE" => fr[f].dirty),
           \A d \in Files : ~fs[d].creating
    PROVE  Quiet'
  <1>1. ASSUME NEW f \in Frames
        PROVE  frames'[f].pin = 0 /\ (frames'[f].io # "NONE" => frames'[f].dirty)
    <2>1. ResetFrame(fr, f)[f].pin = 0 /\ ResetFrame(fr, f)[f].io = "NONE"
      BY DEF ResetFrame, Frame
    <2> QED BY <2>1 DEF CloseFile
  <1>2. \A p \in PageId : page_table'[p].state \in {"ABSENT", "RESIDENT"}
    BY DEF CloseFile, AllResident, Absent
  <1>3. \A d \in Files : ~files'[d].creating
    BY DEF CloseFile, Closed
  <1> QED BY <1>1, <1>2, <1>3 DEF Quiet, AllResident

LEMMA QuietFlushes ==
    ASSUME TInv, AllResident, NEW t \in Threads, NEW l \in Local, NEW fr \in [Frames -> Frame],
           NEW fs \in [Files -> FileEntry], NEW aw, FlushPages(t, l, fr, fs, aw), quiescing',
           \A f \in Frames : fr[f].pin = 0 /\ (fr[f].io # "NONE" => fr[f].dirty),
           \A d \in Files : ~fs[d].creating
    PROVE  Quiet'
  <1>1. CASE FlushDone(t, l, fr, fs, aw)
    <2>1. CASE CloseFile(t, l, fr, fs)
      BY <2>1, QuietCloses
    <2>2. CASE frames' = fr /\ files' = fs /\ UNCHANGED page_table
      BY <2>2 DEF Quiet, AllResident
    <2> QED BY <1>1, <2>1, <2>2 DEF FlushDone
  <1>2. CASE /\ files' = fs /\ UNCHANGED page_table
             /\ \E p \in l.todo : /\ Unflushed(fr, p)
                                  /\ \/ frames' = fr
                                     \/ frames' = [fr EXCEPT ![page_table[p].frame].io = "WRITEBACK_IN_PROGRESS"]
    <2>1. PICK p \in l.todo : /\ Unflushed(fr, p)
                              /\ \/ frames' = fr
                                 \/ frames' = [fr EXCEPT ![page_table[p].frame].io = "WRITEBACK_IN_PROGRESS"]
      BY <1>2
    <2>2. p \in PageId
      BY DEF Local
    <2>3. fr[page_table[p].frame].dirty
      BY <2>1, <2>2 DEF Unflushed, AllResident
    <2>4. ASSUME NEW f \in Frames
          PROVE  frames'[f].pin = 0 /\ (frames'[f].io # "NONE" => frames'[f].dirty)
      BY <2>1, <2>3 DEF Frame
    <2> QED BY <1>2, <2>4 DEF Quiet, AllResident
  <1> QED BY <1>1, <1>2, ZenonT(30) DEF FlushPages

LEMMA QuietFrames ==
    ASSUME TInv, Quiet
    PROVE  /\ AllResident /\ frames \in [Frames -> Frame] /\ files \in [Files -> FileEntry]
           /\ \A f \in Frames : frames[f].pin = 0 /\ (frames[f].io # "NONE" => frames[f].dirty)
           /\ \A d \in Files : ~files[d].creating
  BY DEF TInv, PoolOK, Quiet

(* The flush loop after a writeback goes on with what is left to do. *)
LEMMA ReconcileFlushes ==
    ASSUME TInv, NEW t \in Threads, Reconcile(t)
    PROVE  \E rest \in Local, fr \in [Frames -> Frame] :
              /\ FlushPages(t, rest, fr, files, {})
              /\ \A g \in Frames : /\ fr[g].pin = frames[g].pin
                                   /\ fr[g].io = "NONE" \/ fr[g] = frames[g]
                                   /\ fr[g].dirty => frames[g].dirty
              /\ rest.op = local[t].op
              /\ rest.todo = local[t].todo \ GivenUp(local[t])
              /\ rest.failed = (local[t].failed \/ ~local[t].ok)
  <1> DEFINE l == local[t]
             f == l.frame
             b == frames[f].dirty /\ ~ImageIsCurrent(l)
             td == l.todo \ GivenUp(l)
             fl == l.failed \/ ~l.ok
             fr == [frames EXCEPT ![f] = [@ EXCEPT !.io = "NONE", !.dirty = b]]
             rest == [l EXCEPT !.todo = td, !.failed = fl, !.ok = TRUE,
                               !.frame = NoFrame, !.img = 0, !.gen = 0, !.epoch = 0]
  <1>1. /\ l \in Local /\ f \in Frames /\ frames \in [Frames -> Frame]
        /\ td \in SUBSET PageId /\ fl \in BOOLEAN /\ 0 \in Nat /\ 0 \in Int
    BY DEF Reconcile, At, TInv, ControlOK, ThreadOK, FrameLabels, PoolOK, Local
  <1>2. b \in BOOLEAN /\ (b => frames[f].dirty)
    BY <1>1 DEF ImageIsCurrent, Frame
  <1>3. FlushPages(t, rest, fr, files, {})
    BY DEF Reconcile
  <1> HIDE DEF b, td, fl
  <1>4. fr \in [Frames -> Frame]
    <2>1. [frames[f] EXCEPT !.io = "NONE", !.dirty = b] \in Frame
      <3>1. frames[f] \in Frame
        BY <1>1
      <3> QED BY <1>2, <3>1, Zenon DEF Frame
    <2> QED BY <1>1, <2>1
  <1>5. rest \in Local
    BY <1>1, Zenon DEF Local, Version
  <1>6. \A g \in Frames : /\ fr[g].pin = frames[g].pin
                          /\ fr[g].io = "NONE" \/ fr[g] = frames[g]
                          /\ fr[g].dirty => frames[g].dirty
    BY <1>1, <1>2 DEF Frame
  <1>7. rest.op = l.op /\ rest.todo = td /\ rest.failed = fl
    BY <1>1 DEF Local
  <1> HIDE DEF rest, fr
  <1> QED BY <1>3, <1>4, <1>5, <1>6, <1>7 DEF td, fl

LEMMA QuietLasts ==
    ASSUME TInv, OwnershipInv, Quiet, NEW t \in Threads, Step(t)
    PROVE  Quiet'
  <1>0. /\ ~Reads(t) /\ ~Evicts(t) /\ ~Creates(t)
        /\ pc[t] \notin {"latch", "reading", "writing", "edited", "unpin"}
    BY QuietThreads
  <1>1. local[t] \in Local /\ ThreadOK(pc[t], local[t])
    BY DEF TInv, ControlOK
  <1>2. CASE \/ FetchRefused(t) \/ PinResident(t) \/ AwaitEviction(t) \/ JoinLoad(t) \/ JoinWake(t)
             \/ LoadPage(t)
    BY <1>2, QuietStays DEF FetchRefused, PinResident, AwaitEviction, JoinLoad, JoinWake, LoadPage,
                            Fetchable, Quiet
  <1>3. ~(ReadPage(t) \/ FinishLoad(t) \/ FinishEviction(t))
    BY <1>0 DEF ReadPage, FinishLoad, FinishEviction, At, Reads, Evicts, IoLabels, Requests, Fetches
  <1>4. ~(Latch(t) \/ Edit(t) \/ MarkDirty(t) \/ ReleaseLatch(t) \/ Unpin(t))
    BY <1>0 DEF Latch, Edit, MarkDirty, ReleaseLatch, Unpin, At
  <1>5. ~(ReserveNewPageNo(t) \/ BindNewPage(t) \/ FinishNewPage(t))
    BY <1>0 DEF ReserveNewPageNo, BindNewPage, FinishNewPage, At, Creates, Holds, Builds
  <1>6. CASE NewPage(t) \/ CopyImage(t) \/ WriteImage(t) \/ SyncFile(t) \/ ReadPageCount(t)
    BY <1>6, QuietStays DEF NewPage, CopyImage, WriteImage, SyncFile, ReadPageCount, Quiet
  <1>7. CASE Flush(t)
    <2>1. quiescing'
      BY <1>7 DEF Flush, Quiet
    <2>2. CASE UNCHANGED poolVars
      BY <1>7, <2>2, QuietStays DEF Flush
    <2>3. CASE \E s \in SUBSET PageId : FlushPages(t, [local[t] EXCEPT !.todo = s], frames, files, asleep)
      <3>1. PICK s \in SUBSET PageId : FlushPages(t, [local[t] EXCEPT !.todo = s], frames, files, asleep)
        BY <2>3
      <3>2. [local[t] EXCEPT !.todo = s] \in Local
        BY <1>1 DEF Local
      <3> QED BY <2>1, <3>1, <3>2, QuietFrames, QuietFlushes
    <2>4. local[t].op = "FLUSH_PAGE" => {local[t].page} \in SUBSET PageId
      BY <1>1 DEF ThreadOK
    <2>5. \A d : DirtyResident(d) \in SUBSET PageId
      BY DEF DirtyResident
    <2> QED BY <1>7, <2>2, <2>3, <2>4, <2>5 DEF Flush
  <1>8. CASE FlushWake(t)
    BY <1>1, <1>8, QuietFrames, QuietFlushes DEF FlushWake, Quiet
  <1>9. CASE Reconcile(t)
    <2>1. PICK rest \in Local, fr \in [Frames -> Frame] :
             /\ FlushPages(t, rest, fr, files, {})
             /\ \A g \in Frames : /\ fr[g].pin = frames[g].pin
                                  /\ fr[g].io = "NONE" \/ fr[g] = frames[g]
      BY <1>9, ReconcileFlushes
    <2>2. quiescing' /\ \A g \in Frames : fr[g].pin = 0 /\ (fr[g].io # "NONE" => fr[g].dirty)
      BY <1>9, <2>1, QuietFrames DEF Reconcile, Quiet
    <2> QED BY <2>1, <2>2, QuietFrames, QuietFlushes
  <1>a. CASE Retire(t) \/ RetireWake(t)
    <2>1. quiescing'
      BY <1>a DEF Retire, RetireWake, Quiet
    <2>2. CASE UNCHANGED poolVars
      BY <1>a, <2>2, QuietStays DEF Retire, RetireWake
    <2>3. CASE \E aw : \/ Drain(t, files, aw)
                       \/ Drain(t, [files EXCEPT ![local[t].file].state = "RETIRING"], aw)
      <3>1. PICK aw, fs : fs \in {files, [files EXCEPT ![local[t].file].state = "RETIRING"]} /\ Drain(t, fs, aw)
        BY <2>3
      <3>2. fs \in [Files -> FileEntry] /\ \A d \in Files : ~fs[d].creating
        BY <3>1, QuietFrames DEF FileEntry
      <3>3. CASE files' = fs /\ UNCHANGED <<frames, free_list, page_table, local>>
        BY <2>1, <3>2, <3>3 DEF Quiet, AllResident
      <3>4. CASE FlushPages(t, [local[t] EXCEPT !.todo = DirtyResident(local[t].file)], frames, fs, aw)
        <4>1. [local[t] EXCEPT !.todo = DirtyResident(local[t].file)] \in Local
          BY <1>1 DEF Local, DirtyResident
        <4> QED BY <2>1, <3>2, <3>4, <4>1, QuietFrames, QuietFlushes
      <3>5. CASE CloseFile(t, local[t], frames, fs)
        BY <2>1, <3>2, <3>5, QuietFrames, QuietCloses
      <3> QED BY <3>1, <3>3, <3>4, <3>5 DEF Drain
    <2> QED BY <1>a, <2>2, <2>3 DEF Retire, RetireWake
  <1>b. CASE Shutdown(t)
    <2>1. quiescing'
      BY <1>b DEF Shutdown, Quiet
    <2>2. CASE UNCHANGED poolVars
      BY <2>1, <2>2, QuietStays DEF Quiet
    <2>3. CASE \E aw : FlushPages(t, [local[t] EXCEPT !.todo = DirtyResident(NoFrame)], frames, files, aw)
      <3>1. [local[t] EXCEPT !.todo = DirtyResident(NoFrame)] \in Local
        BY <1>1 DEF Local, DirtyResident
      <3> QED BY <2>1, <2>3, <3>1, QuietFrames, QuietFlushes
    <2> QED BY <1>b, <2>2, <2>3 DEF Shutdown, AwaitIdle
  <1>c. CASE RegisterFile(t)
    BY <1>c DEF RegisterFile, Quiet, AllResident
  <1> QED BY <1>2, <1>3, <1>4, <1>5, <1>6, <1>7, <1>8, <1>9, <1>a, <1>b, <1>c DEF Step

(* While the pool is quiet no page becomes dirty. *)
LEMMA QuietCleans ==
    ASSUME TInv, TInv', OwnershipInv, Structure', Quiet, NEW t \in Threads, Effect(t),
           NEW p \in PageId, Dirty(p)'
    PROVE  Dirty(p)
  <1>1. Structure /\ ~Reads(t) /\ ~Builds(t) /\ pc[t] # "edited"
    BY QuietThreads DEF OwnershipInv, Creates
  <1>2. CASE UNCHANGED <<frames, page_table>>
    BY <1>2 DEF Dirty, InMemory
  <1>3. CASE \A f \in Frames : FrameMoves(t, f)
    <2>1. PICK f : f = page_table'[p].frame
      OBVIOUS
    <2>2. f \in Frames /\ Cached(f)' /\ frames'[f].page = p /\ frames'[f].dirty
      BY <2>1, CachedAfter DEF Dirty, CachedPages
    <2>3. Keeps(t, f)
      BY <1>1, <1>3, <2>2 DEF FrameMoves, Leaves, Fills, Opens, Changes, Cleans, Reads
    <2>4. Cached(f) /\ frames[f].page = p /\ frames[f].dirty
      BY <2>2, <2>3 DEF Keeps
    <2> QED BY <1>1, <2>2, <2>4, CachedPage DEF Dirty
  <1> QED BY <1>2, <1>3 DEF Effect, StoreMoves

(* A Shutdown that flushes has every unsaved page on its list, until it has failed. *)
Tracks(l) == l.failed \/ \A p \in PageId : Dirty(p) => p \in l.todo

ShutdownsOK ==
    \A t \in Threads :
       local[t].op = "SHUTDOWN" =>
          /\ pc[t] \in {"quiesce", "shutdown", "flush", "copy"} \cup IoLabels
          /\ pc[t] = "shutdown" => quiescing
          /\ pc[t] \notin {"quiesce", "shutdown"} => Quiet /\ Tracks(local[t])

(* A step of Shutdown: it waits, returns, or goes on with every unsaved page on its list.   *)
ShutdownMoves(t) ==
    \/ pc'[t] = "shutdown" /\ quiescing'
    \/ /\ pc'[t] = "idle" /\ Quiet'
       /\ local'[t].result = "ok" => \A p \in PageId : ~Dirty(p)'
    \/ /\ pc'[t] \in {"flush", "copy"} \cup IoLabels /\ Quiet'
       /\ local'[t].failed \/ \A p \in PageId : Dirty(p)' => p \in local'[t].todo

LEMMA ShutdownFlushes ==
    ASSUME TInv, Structure, Quiet', NEW t \in Threads, NEW l \in Local, l.op = "SHUTDOWN",
           NEW fr \in [Frames -> Frame], NEW fs, NEW aw, FlushPages(t, l, fr, fs, aw),
           l.failed \/ \A p \in PageId : Unflushed(fr, p) => p \in l.todo
    PROVE  ShutdownMoves(t)
  <1>0. \A p \in PageId : InMemory(p) => page_table[p].frame \in Frames
    BY CachedPage
  <1>1. ASSUME \A p \in l.todo : ~Unflushed(fr, p), FlushDone(t, l, fr, fs, aw) PROVE ShutdownMoves(t)
    <2>1. /\ frames' = fr /\ page_table' = page_table
          /\ Return(t, IF l.failed THEN "error" ELSE "ok")
      BY <1>1 DEF FlushDone
    <2>2. pc'[t] = "idle" /\ local'[t].result = IF l.failed THEN "error" ELSE "ok"
      BY <2>1 DEF Return, Goto, TInv, ControlOK, Fresh
    <2>3. local'[t].result = "ok" => \A p \in PageId : ~Unflushed(fr, p)
      BY <1>1, <2>2
    <2> QED BY <2>1, <2>2, <2>3 DEF ShutdownMoves, Dirty, InMemory, Unflushed
  <1>2. ASSUME UNCHANGED page_table, \A f \in Frames : frames'[f].dirty = fr[f].dirty,
               NEW p \in l.todo, \A q \in l.todo : Unflushed(fr, q) => PageLeq(p, q),
               NEW n \in {"flush", "copy"}, Goto(t, n),
               NEW r, local' = [local EXCEPT ![t] = r], r.failed = l.failed,
               r.todo = {q \in l.todo : PageLeq(p, q)}
        PROVE  ShutdownMoves(t)
    <2>1. pc'[t] = n /\ local'[t] = r
      BY <1>2 DEF Goto, TInv, ControlOK
    <2>2. ASSUME NEW q \in PageId, Dirty(q)' PROVE Unflushed(fr, q)
      BY <1>0, <1>2, <2>2 DEF Dirty, InMemory, Unflushed
    <2> QED BY <1>2, <2>1, <2>2 DEF ShutdownMoves
  <1>3. ASSUME NEW p \in l.todo, Unflushed(fr, p),
               \A q \in {s \in l.todo : Unflushed(fr, s)} : PageLeq(p, q), UNCHANGED page_table,
               LET f == page_table[p].frame
                   rest == [l EXCEPT !.todo = {q \in l.todo : PageLeq(p, q)}, !.target = p]
               IN  \/ /\ frames' = fr
                      /\ Goto(t, "flush")
                      /\ local' = [local EXCEPT ![t] = rest]
                   \/ /\ frames' = [fr EXCEPT ![f].io = "WRITEBACK_IN_PROGRESS"]
                      /\ Goto(t, "copy")
                      /\ local' = [local EXCEPT ![t] = [rest EXCEPT !.frame = f, !.epoch = fr[f].epoch]]
        PROVE  ShutdownMoves(t)
    <2> DEFINE rest == [l EXCEPT !.todo = {q \in l.todo : PageLeq(p, q)}, !.target = p]
               copy == [rest EXCEPT !.frame = page_table[p].frame, !.epoch = fr[page_table[p].frame].epoch]
               marked == [fr EXCEPT ![page_table[p].frame].io = "WRITEBACK_IN_PROGRESS"]
    <2>1. /\ rest.failed = l.failed /\ rest.todo = {q \in l.todo : PageLeq(p, q)}
          /\ copy.failed = l.failed /\ copy.todo = {q \in l.todo : PageLeq(p, q)}
      BY DEF Local
    <2>2. \A f \in Frames : marked[f].dirty = fr[f].dirty
      BY DEF Frame
    <2>3. \/ Goto(t, "flush") /\ local' = [local EXCEPT ![t] = rest] /\ frames' = fr
          \/ Goto(t, "copy") /\ local' = [local EXCEPT ![t] = copy] /\ frames' = marked
      BY <1>3, Zenon
    <2> HIDE DEF rest, copy, marked
    <2>4. \A f \in Frames : frames'[f].dirty = fr[f].dirty
      BY <2>2, <2>3
    <2> QED BY <1>2, <1>3, <2>1, <2>3, <2>4
  <1> QED BY <1>1, <1>3, ZenonT(30) DEF FlushPages

LEMMA TracksKept ==
    ASSUME TInv, TInv', OwnershipInv, Structure', Quiet, NEW t \in Threads, Effect(t),
           NEW l, Tracks(l), NEW m, m.todo = l.todo, m.failed = l.failed
    PROVE  m.failed \/ \A p \in PageId : Dirty(p)' => p \in m.todo
  BY QuietCleans DEF Tracks

LEMMA ShutdownStep ==
    ASSUME TInv, TInv', OwnershipInv, Structure', ShutdownsOK, NEW t \in Threads,
           local[t].op = "SHUTDOWN", Step(t), Effect(t)
    PROVE  ShutdownMoves(t)
  <1>0. /\ pc[t] \in {"quiesce", "shutdown", "flush", "copy"} \cup IoLabels
        /\ pc[t] \notin {"quiesce", "shutdown"} => Quiet /\ Tracks(local[t]) /\ Quiet'
        /\ Structure /\ local[t] \in Local
    BY QuietLasts DEF ShutdownsOK, OwnershipInv, TInv, ControlOK
  <1>1. ~(\/ FetchRefused(t) \/ PinResident(t) \/ AwaitEviction(t) \/ JoinLoad(t) \/ JoinWake(t)
          \/ LoadPage(t) \/ ReadPage(t) \/ FinishLoad(t) \/ FinishEviction(t))
    BY <1>0 DEF FetchRefused, PinResident, AwaitEviction, JoinLoad, JoinWake, LoadPage, ReadPage,
                FinishLoad, FinishEviction, At, IoLabels
  <1>2. ~(\/ Latch(t) \/ Edit(t) \/ MarkDirty(t) \/ ReleaseLatch(t) \/ Unpin(t)
          \/ NewPage(t) \/ ReserveNewPageNo(t) \/ BindNewPage(t) \/ FinishNewPage(t))
    BY <1>0 DEF Latch, Edit, MarkDirty, ReleaseLatch, Unpin, NewPage, ReserveNewPageNo, BindNewPage,
                FinishNewPage, At, IoLabels
  <1>3. ~(Flush(t) \/ Retire(t) \/ RetireWake(t) \/ ReadPageCount(t) \/ RegisterFile(t))
    BY <1>0 DEF Flush, Retire, RetireWake, ReadPageCount, RegisterFile, At, IoLabels
  <1>4. CASE Shutdown(t)
    <2>3. quiescing'
      <3>1. pc[t] = "shutdown" => quiescing
        BY DEF ShutdownsOK
      <3>2. quiescing' = TRUE \/ (pc[t] = "shutdown" /\ quiescing' = quiescing)
        BY <1>4 DEF Shutdown, At
      <3> QED BY <3>1, <3>2
    <2>1. CASE Goto(t, "shutdown")
      BY <2>1, <2>3 DEF Goto, TInv, ControlOK, ShutdownMoves
    <2>2. CASE /\ PoolIdle /\ quiescing'
               /\ \E aw : FlushPages(t, [local[t] EXCEPT !.todo = DirtyResident(NoFrame)], frames, files, aw)
      <3> DEFINE r == [local[t] EXCEPT !.todo = DirtyResident(NoFrame)]
      <3>1. PICK aw : FlushPages(t, r, frames, files, aw)
        BY <2>2
      <3>2. r \in Local /\ r.op = "SHUTDOWN" /\ r.todo = DirtyResident(NoFrame)
        BY <1>0 DEF Local, DirtyResident
      <3>3. /\ AllResident /\ frames \in [Frames -> Frame] /\ files \in [Files -> FileEntry]
            /\ \A f \in Frames : frames[f].pin = 0 /\ (frames[f].io # "NONE" => frames[f].dirty)
            /\ \A d \in Files : ~files[d].creating
        BY <2>2 DEF PoolIdle, AllResident, TInv, PoolOK
      <3> HIDE DEF r
      <3>4. Quiet'
        BY <2>2, <3>1, <3>2, <3>3, QuietFlushes
      <3>5. \A p \in PageId : Unflushed(frames, p) => p \in r.todo
        BY <3>2, <3>3 DEF Unflushed, DirtyResident, AllResident
      <3> QED BY <1>0, <3>1, <3>2, <3>3, <3>4, <3>5, ShutdownFlushes
    <2> QED BY <1>4, <2>1, <2>2, <2>3 DEF Shutdown, AwaitIdle
  <1>5. CASE FlushWake(t)
    <2>1. pc[t] = "flush" /\ FlushPages(t, local[t], frames, files, asleep)
      BY <1>5 DEF FlushWake, At
    <2>2. Quiet /\ Tracks(local[t]) /\ Quiet'
      BY <1>0, <2>1
    <2>3. local[t].failed \/ \A p \in PageId : Unflushed(frames, p) => p \in local[t].todo
      BY <2>2 DEF Tracks, Unflushed, Dirty, InMemory, Quiet, AllResident
    <2> QED BY <1>0, <2>1, <2>2, <2>3, QuietFrames, ShutdownFlushes
  <1>6. CASE Reconcile(t)
    <2>1. Quiet /\ Tracks(local[t]) /\ Quiet'
      BY <1>0, <1>6 DEF Reconcile, At
    <2>2. PICK rest \in Local, fr \in [Frames -> Frame] :
             /\ FlushPages(t, rest, fr, files, {})
             /\ \A g \in Frames : fr[g].dirty => frames[g].dirty
             /\ rest.op = local[t].op
             /\ rest.todo = local[t].todo \ GivenUp(local[t])
             /\ rest.failed = (local[t].failed \/ ~local[t].ok)
      BY <1>6, ReconcileFlushes
    <2>3. ASSUME NEW p \in PageId, Unflushed(fr, p) PROVE Dirty(p)
      <3>1. page_table[p].state = "RESIDENT" /\ fr[page_table[p].frame].dirty
        BY <2>1, <2>3 DEF Unflushed, Quiet, AllResident
      <3> QED BY <1>0, <2>2, <3>1, CachedPage DEF Dirty, InMemory
    <2>4. rest.failed \/ \A p \in PageId : Unflushed(fr, p) => p \in rest.todo
      BY <2>1, <2>2, <2>3 DEF Tracks, GivenUp
    <2> QED BY <1>0, <2>1, <2>2, <2>4, ShutdownFlushes
  <1>7. CASE CopyImage(t) \/ WriteImage(t) \/ SyncFile(t)
    <2>1. Quiet /\ Tracks(local[t]) /\ Quiet'
      BY <1>0, <1>7 DEF CopyImage, WriteImage, SyncFile, At
    <2>2. /\ pc'[t] \in IoLabels /\ local'[t].todo = local[t].todo /\ local'[t].failed = local[t].failed
      BY <1>7, ImageGoesOn
    <2> QED BY <1>0, <2>1, <2>2, TracksKept DEF ShutdownMoves
  <1> QED BY <1>1, <1>2, <1>3, <1>4, <1>5, <1>6, <1>7 DEF Step

LEMMA QuiescingStays ==
    ASSUME NEW t \in Threads, Step(t), quiescing
    PROVE  quiescing'
  <1>1. CASE \/ FetchRefused(t) \/ PinResident(t) \/ AwaitEviction(t) \/ JoinLoad(t) \/ JoinWake(t)
             \/ LoadPage(t) \/ ReadPage(t) \/ FinishLoad(t) \/ FinishEviction(t)
    BY <1>1 DEF FetchRefused, PinResident, AwaitEviction, JoinLoad, JoinWake, LoadPage, ReadPage,
                FinishLoad, FinishEviction
  <1>2. CASE \/ Latch(t) \/ Edit(t) \/ MarkDirty(t) \/ ReleaseLatch(t) \/ Unpin(t)
             \/ NewPage(t) \/ ReserveNewPageNo(t) \/ BindNewPage(t) \/ FinishNewPage(t)
    BY <1>2 DEF Latch, Edit, MarkDirty, ReleaseLatch, Unpin, NewPage, ReserveNewPageNo, BindNewPage,
                FinishNewPage
  <1>3. CASE \/ CopyImage(t) \/ WriteImage(t) \/ SyncFile(t) \/ Flush(t) \/ FlushWake(t) \/ Reconcile(t)
             \/ Retire(t) \/ RetireWake(t) \/ ReadPageCount(t) \/ RegisterFile(t)
    BY <1>3 DEF CopyImage, WriteImage, SyncFile, Flush, FlushWake, Reconcile, Retire, RetireWake,
                ReadPageCount, RegisterFile
  <1>4. CASE Shutdown(t)
    BY <1>4 DEF Shutdown
  <1> QED BY <1>1, <1>2, <1>3, <1>4 DEF Step

LEMMA ShutdownsStep ==
    ASSUME TInv, TInv', OwnershipInv, Structure', ShutdownsOK, NEW t \in Threads,
           Step(t), Effect(t), TaskMoves(t)
    PROVE  ShutdownsOK'
  <1> SUFFICES ASSUME NEW u \in Threads, local'[u].op = "SHUTDOWN"
               PROVE  /\ pc'[u] \in {"quiesce", "shutdown", "flush", "copy"} \cup IoLabels
                      /\ pc'[u] = "shutdown" => quiescing'
                      /\ pc'[u] \notin {"quiesce", "shutdown"} =>
                            /\ Quiet'
                            /\ local'[u].failed \/ \A p \in PageId : Dirty(p)' => p \in local'[u].todo
    BY DEF ShutdownsOK, Tracks
  <1>1. CASE u # t
    <2>1. pc'[u] = pc[u] /\ SameWork(local[u], local'[u])
      BY <1>1 DEF Effect, OthersWait
    <2>2. local[u].op = "SHUTDOWN" /\ local'[u].todo = local[u].todo /\ local'[u].failed = local[u].failed
      BY <2>1 DEF SameWork, SameCall
    <2>3. /\ pc[u] \in {"quiesce", "shutdown", "flush", "copy"} \cup IoLabels
          /\ pc[u] = "shutdown" => quiescing
          /\ pc[u] \notin {"quiesce", "shutdown"} => Quiet /\ Tracks(local[u])
      BY <2>2 DEF ShutdownsOK
    <2> QED BY <2>1, <2>2, <2>3, QuiescingStays, QuietLasts, TracksKept
  <1>2. CASE u = t
    <2>1. local[t].op = "SHUTDOWN" /\ pc'[t] # "idle"
      BY <1>2 DEF TaskMoves, SameTask
    <2>2. ShutdownMoves(t)
      BY <2>1, ShutdownStep
    <2> QED BY <1>2, <2>1, <2>2 DEF ShutdownMoves, IoLabels
  <1> QED BY <1>1, <1>2

LEMMA ShutdownsCall ==
    ASSUME TInv, TInv', OwnershipInv, Structure', ShutdownsOK,
           NEW t \in Threads, NEW op \in Operations, NEW p \in PageId, Call(t, op, p)
    PROVE  ShutdownsOK'
  <1>1. /\ Alone(t) /\ UNCHANGED <<frames, page_table, files, quiescing>>
        /\ local'[t].op = "SHUTDOWN" => pc'[t] = "quiesce"
    BY CallTask DEF Call, poolVars
  <1>2. (Quiet => Quiet') /\ \A q \in PageId : Dirty(q)' <=> Dirty(q)
    BY <1>1 DEF Quiet, AllResident, Dirty, InMemory
  <1> SUFFICES ASSUME NEW u \in Threads, local'[u].op = "SHUTDOWN"
               PROVE  /\ pc'[u] \in {"quiesce", "shutdown", "flush", "copy"} \cup IoLabels
                      /\ pc'[u] = "shutdown" => quiescing'
                      /\ pc'[u] \notin {"quiesce", "shutdown"} =>
                            /\ Quiet'
                            /\ local'[u].failed \/ \A q \in PageId : Dirty(q)' => q \in local'[u].todo
    BY DEF ShutdownsOK, Tracks
  <1>3. CASE u = t
    BY <1>1, <1>3
  <1>4. CASE u # t
    <2>1. pc'[u] = pc[u] /\ local'[u] = local[u] /\ quiescing' = quiescing
      BY <1>1, <1>4 DEF Alone
    <2> QED BY <1>2, <2>1 DEF ShutdownsOK, Tracks
  <1> QED BY <1>3, <1>4

ShutdownInv == ContentsInv /\ TasksOK /\ ShutdownsOK

LEMMA InitShutdownInv == Init => ShutdownInv
  <1>1. Init => ShutdownsOK
    BY DEF Init, ShutdownsOK, Fresh
  <1> QED BY <1>1, InitContentsInv, InitTasks DEF ShutdownInv

LEMMA NextShutdown ==
    ASSUME CoordinatedClients, ShutdownInv, [Next]_vars
    PROVE  ShutdownInv'
  <1>1. TInv /\ TInv' /\ OwnershipInv /\ Structure' /\ Contents /\ CallsOK /\ ShutdownsOK
    BY StepsOfNext DEF ShutdownInv, ContentsInv, PoolInv
  <1>2. ASSUME NEW t \in Threads, Step(t) PROVE ShutdownsOK'
    BY <1>1, <1>2, StepEffect, StepTask, ShutdownsStep
  <1>3. ASSUME NEW t \in Threads, NEW op \in Operations, NEW p \in PageId, Call(t, op, p)
        PROVE  ShutdownsOK'
    BY <1>1, <1>3, ShutdownsCall
  <1>4. ASSUME UNCHANGED vars PROVE ShutdownsOK'
    BY <1>1, <1>4 DEF ShutdownsOK, Quiet, AllResident, Tracks, Dirty, InMemory, vars
  <1>5. ContentsInv' /\ TasksOK'
    BY NextContents, TasksOfNext DEF ShutdownInv
  <1> QED BY <1>2, <1>3, <1>4, <1>5 DEF Next, Terminated, ShutdownInv

(* A quiet pool without an unsaved page is idle: every writeback is one of an unsaved page.  *)
AllSaved == \A p \in PageId : ~Dirty(p)

LEMMA QuietAndSaved == TInv /\ Structure /\ Contents /\ Quiet /\ AllSaved => PoolIdle
  <1> SUFFICES ASSUME TInv, Structure, Contents, Quiet, AllSaved PROVE PoolIdle
    OBVIOUS
  <1>1. ASSUME NEW f \in Frames, frames[f].dirty PROVE FALSE
    <2>1. Cached(f)
      BY <1>1 DEF Contents, FrameContents
    <2> QED BY <1>1, <2>1, CachedPage DEF AllSaved, Dirty
  <1> QED BY <1>1 DEF PoolIdle, Quiet, AllResident

(* When Shutdown returns success the pool has no pin, no I/O, no creation and no unsaved page: *)
(* once it has found the pool idle nothing but flushes and retirements can get in, and the    *)
(* pages they write or drop are pages it waits for itself.                                   *)
THEOREM ShutdownLeavesNothing ==
    ASSUME CoordinatedClients
    PROVE  Spec => ShutdownIsClean
  <1>1. ShutdownInv /\ [Next]_vars => ShutdownInv'
    BY NextShutdown
  <1>2. ShutdownInv /\ [Next]_vars
        => [\A t \in Threads :
               Succeeds(t, {"SHUTDOWN"}) => PoolIdle' /\ \A p \in PageId : ~Dirty(p)']_vars
    <2>1. SUFFICES ASSUME ShutdownInv, [Next]_vars, NEW t \in Threads, Succeeds(t, {"SHUTDOWN"}),
                          ~UNCHANGED vars
                   PROVE  PoolIdle' /\ \A p \in PageId : ~Dirty(p)'
      BY Zenon
    <2>2. /\ TInv /\ TInv' /\ OwnershipInv /\ Structure' /\ Contents /\ Contents'
          /\ CallsOK /\ ShutdownsOK
      BY <2>1, StepsOfNext, NextContents DEF ShutdownInv, ContentsInv, PoolInv
    <2>3. local[t].op = "SHUTDOWN" /\ pc[t] # "idle" /\ pc'[t] = "idle" /\ local'[t].result = "ok"
      BY <2>1 DEF Succeeds
    <2>4. Step(t) /\ Effect(t)
      BY <2>1, <2>2, <2>3, ReturnsByStep
    <2>5. ShutdownMoves(t)
      BY <2>2, <2>3, <2>4, ShutdownStep
    <2>6. Quiet' /\ \A p \in PageId : ~Dirty(p)'
      BY <2>3, <2>5 DEF ShutdownMoves, IoLabels
    <2>7. PoolIdle'
      <3>1. AllSaved'
        BY <2>6 DEF AllSaved
      <3> QED BY <2>2, <2>6, <3>1, QuietAndSaved, PTL
    <2> QED BY <2>6, <2>7
  <1> QED BY <1>1, <1>2, InitShutdownInv, PTL DEF Spec, ShutdownIsClean

-----------------------------------------------------------------------------
(* What the pool promises of a page.                                        *)

(* A page is marked clean, or gives its frame away, only when the contents its next reader   *)
(* would see are in stable storage: no mutation published during a writeback, no failed      *)
(* pwrite and no failed fdatasync makes the pool forget that a page is dirty; only a         *)
(* RetireFile that discards gives dirty pages up.                                           *)
THEOREM DirtyUntilStable ==
    ASSUME CoordinatedClients
    PROVE  Spec => CleanOnlyWhenStable
  <1>1. ContentsInv /\ [Next]_vars => ContentsInv'
    BY NextContents
  <1>2. ContentsInv /\ [Next]_vars
        => [\A p \in PageId :
               Dirty(p) /\ ~Dirty(p)' => stable[p] = Value(p) \/ Discards(p.file)]_vars
    <2>1. SUFFICES ASSUME ContentsInv, [Next]_vars, NEW p \in PageId, Dirty(p), ~Dirty(p)',
                          ~UNCHANGED vars
                   PROVE  stable[p] = Value(p) \/ Discards(p.file)
      BY Zenon
    <2> QED BY <2>1, StepsOfNext, EffectCleans, GivingUpDiscards
  <1> QED BY <1>1, <1>2, InitContentsInv, PTL DEF Spec, CleanOnlyWhenStable

LEMMA InitBehindInv == Init => BehindInv
  BY InitContentsInv, InitBehind DEF BehindInv

(* Neither the file nor stable storage holds contents of a cached page that its writer has   *)
(* not published: an image is copied under the shared latch or from an unpinned victim, and  *)
(* no image that is on its way while the page is evicted, reloaded or retired arrives late.  *)
THEOREM DiskStaysBehind ==
    ASSUME OwnedFiles
    PROVE  Spec => []DiskNeverAhead
  <1>1. BehindInv /\ [Next]_vars => BehindInv'
    BY OwnedCoordinate, NextBehind
  <1>2. BehindInv => DiskNeverAhead
    BY DEF BehindInv, DiskBehind, PageBetween, DiskNeverAhead
  <1> QED BY <1>1, <1>2, InitBehindInv, PTL DEF Spec

(* What the next reader of a page sees moves on by one published mutation at a time: no      *)
(* eviction, reload, writeback, failed or torn write, new page or retirement that flushes    *)
(* takes a page back to older contents; only a RetireFile that discards may.                 *)
THEOREM UpdatesAreKept ==
    ASSUME OwnedFiles
    PROVE  Spec => NoLostUpdate
  <1>1. BehindInv /\ [Next]_vars => BehindInv'
    BY OwnedCoordinate, NextBehind
  <1>2. BehindInv /\ [Next]_vars
        => [\A p \in PageId :
               \/ Value(p)' = Value(p)
               \/ Value(p)' = Value(p) + 1
               \/ Discards(p.file)]_vars
    <2>1. SUFFICES ASSUME BehindInv, [Next]_vars, NEW p \in PageId, ~UNCHANGED vars
                   PROVE  \/ Value(p)' = Value(p)
                          \/ Value(p)' = Value(p) + 1
                          \/ Discards(p.file)
      BY Zenon
    <2>2. ContentsInv /\ DiskBehind
      BY <2>1 DEF BehindInv
    <2> QED BY <2>1, <2>2, OwnedCoordinate, StepsOfNext, ValueMoves, GivingUpDiscards
  <1> QED BY <1>1, <1>2, InitBehindInv, PTL DEF Spec, NoLostUpdate

(* What holds of published pages after a step of thread t.                                   *)
LEMMA InitialisedStep ==
    ASSUME NoRegistration, TInv, TInv', Structure, Structure', CallsOK, Contents, DiskBehind,
           PublishedIsInitialised, NEW t \in Threads, Effect(t)
    PROVE  PublishedIsInitialised'
  <1> SUFFICES ASSUME NEW p \in PageId, p.no < files'[p.file].published
               PROVE  Value(p)' >= 1
    BY DEF PublishedIsInitialised
  <1>1. /\ p.file \in Files /\ p.no \in Int /\ p.no >= 1 /\ BoundMoves(t, p.file)
        /\ files[p.file].published \in Nat
    BY PageIdFields DEF Effect, TInv, PoolOK, FileEntry
  <1>2. Value(p) \in Int
    <2>1. PICK f : f = page_table[p].frame
      OBVIOUS
    <2>2. InMemory(p) => f \in Frames
      BY <2>1, CachedPage
    <2>3. InMemory(p) => Value(p) = Published(f)
      BY <2>1 DEF Value
    <2> QED BY <2>2, <2>3, ContentsTypes DEF Value
  <1>3. files'[p.file] # Closed
    BY <1>1 DEF Closed
  <1>4. Value(p)' = Value(p) \/ Value(p)' = Value(p) + 1
    BY <1>3, ValueMoves DEF GivesUp
  <1>5. CASE files'[p.file].published = files[p.file].published
    BY <1>2, <1>4, <1>5 DEF PublishedIsInitialised
  <1>6. CASE /\ Builds(t) /\ p.file = local[t].page.file /\ (\E f \in Frames : Opens(t, f))
             /\ files'[p.file].published = local[t].page.no + 1
    <2>1. PICK f \in Frames : Opens(t, f)
      BY <1>6
    <2>2. /\ local[t].page \in PageId /\ local[t].page.no = files[p.file].published
          /\ frames[f].page = local[t].page /\ frames'[f].page = local[t].page
      BY <1>6, <2>1, BuiltAtEnd, OwnersBefore DEF Opens, OwnersFrames
    <2>3. CASE p.no < files[p.file].published
      BY <1>2, <1>4, <2>3 DEF PublishedIsInitialised
    <2>4. CASE p.no = files[p.file].published
      <3>1. p = local[t].page
        BY <1>6, <2>2, <2>4 DEF PageId
      <3>2. InMemory(p)' /\ page_table'[p].frame = f
        BY <2>1, <2>2, <3>1, CachedAfter DEF CachedPages, Opens
      <3>3. Published(page_table[p].frame)' = Published(f)'
        BY <3>2
      <3> QED BY <2>1, <3>2, <3>3 DEF Value, Opens
    <2> QED BY <1>1, <1>6, <2>2, <2>3, <2>4
  <1>7. pc[t] # "emplace"
    BY DEF CallsOK, NoRegistration, OpAt
  <1> QED BY <1>1, <1>3, <1>5, <1>6, <1>7 DEF BoundMoves

LEMMA InitInitialised == Init => PublishedIsInitialised
  <1> SUFFICES ASSUME Init, NEW p \in PageId, p.no < files[p.file].published PROVE Value(p) >= 1
    BY DEF PublishedIsInitialised
  <1>1. /\ p.file \in Files /\ p.no \in Int /\ p.no >= 1 /\ InitialPages \in Int
    BY PageIdFields, ConstantsAssumption
  <1>2. p.no =< InitialPages /\ page_table[p].state = "ABSENT"
    BY <1>1 DEF Init, Closed, Absent
  <1> QED BY <1>2 DEF Init, Value, InMemory

LEMMA InitialisedStutters ==
    ASSUME PublishedIsInitialised, UNCHANGED vars
    PROVE  PublishedIsInitialised'
  <1> SUFFICES ASSUME NEW p \in PageId, p.no < files'[p.file].published
               PROVE  Value(p)' >= 1
    BY DEF PublishedIsInitialised
  <1>1. PICK f : f = page_table[p].frame
    OBVIOUS
  <1>2. Published(f)' = Published(f) /\ page_table' = page_table
    BY DEF Published, LatchHolders, vars
  <1>3. Published(page_table[p].frame)' = Published(f)'
    BY <1>1, <1>2
  <1> QED BY <1>1, <1>2, <1>3 DEF PublishedIsInitialised, Value, InMemory, vars

(* Whoever fetches a published page finds a valid image of it, never the zeroes of a page    *)
(* NewPage has only reserved nor the remains of a torn write: the bound passes a page when   *)
(* its initialised image is in the pool, and that image stays dirty until it is on disk.     *)
THEOREM PublishedPagesAreInitialised ==
    ASSUME NoRegistration
    PROVE  Spec => []PublishedIsInitialised
  <1>1. OwnedFiles /\ CoordinatedClients
    BY DEF OwnedFiles, CoordinatedClients
  <1>2. BehindInv /\ PublishedIsInitialised /\ [Next]_vars => BehindInv' /\ PublishedIsInitialised'
    <2>1. SUFFICES ASSUME BehindInv, PublishedIsInitialised, [Next]_vars
                   PROVE  BehindInv' /\ PublishedIsInitialised'
      BY Zenon
    <2>2. ContentsInv /\ DiskBehind /\ CallsOK
      BY <2>1 DEF BehindInv, ContentsInv, PoolInv
    <2> QED BY <1>1, <2>1, <2>2, NextBehind, StepsOfNext, InitialisedStep, InitialisedStutters
  <1> QED BY <1>2, InitBehindInv, InitInitialised, PTL DEF Spec
=============================================================================
