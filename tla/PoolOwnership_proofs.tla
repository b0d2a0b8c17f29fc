------------------------ MODULE PoolOwnership_proofs ------------------------
(***************************************************************************)
(* Theorems about the types of the pool's variables and about who owns its  *)
(* frames and pages, for any number of threads, frames, files and pages.    *)
(***************************************************************************)
EXTENDS BufferPoolProperties, FiniteSetTheorems, TLAPS

-----------------------------------------------------------------------------
(* What TypeOK needs to be inductive: what a call knows about its own locals  *)
(* at each label, and that the files stay within the bound of the disk.       *)

Fetches == {"FETCH_READ", "FETCH_WRITE"}

FrameLabels == {"read", "loaded", "write", "sync", "wrote", "copy", "latch", "reading",
                "writing", "edited", "unpin", "extend", "extended", "build"}

ThreadOK(l, r) ==
    /\ l # "idle" => r.op \in Operations /\ r.file \in Files
    /\ r.op \in Fetches \cup {"FLUSH_PAGE"} => r.page \in PageId
    /\ l \in {"pin", "join", "read", "loaded"} => r.op \in Fetches
    /\ l \in {"turn", "extend", "extended", "build"} => r.op = "NEW_PAGE"
    /\ l = "build" => r.page \in PageId
    /\ l \in FrameLabels => r.frame \in Frames
    /\ l = "extended" /\ r.ok => r.count =< MaxPageNo

ControlOK ==
    /\ pc \in [Threads -> Labels]
    /\ local \in [Threads -> Local]
    /\ \A t \in Threads : ThreadOK(pc[t], local[t])

PoolOK ==
    /\ frames \in [Frames -> Frame]
    /\ free_list \subseteq Frames
    /\ page_table \in [PageId -> Entry]
    /\ files \in [Files -> FileEntry]

DiskOK ==
    /\ cache \in [PageId -> Version]
    /\ stable \in [PageId -> Version]
    /\ physical \in [Files -> Nat]
    /\ \A d \in Files : physical[d] =< MaxPageNo + 1

RestOK == quiescing \in BOOLEAN /\ asleep \subseteq Threads /\ calls \in Nat

TInv == ControlOK /\ PoolOK /\ DiskOK /\ RestOK

LEMMA TInvTypeOK == TInv => TypeOK
  BY DEF TInv, ControlOK, PoolOK, DiskOK, RestOK, TypeOK

-----------------------------------------------------------------------------
(* Constants and updates of records.                                       *)

LEMMA AbsentType == Absent \in Entry /\ Intent \in Entry
  BY ConstantsAssumption DEF Absent, Intent, Entry

LEMMA ClosedType == Closed \in FileEntry
  BY DEF Closed, FileEntry

LEMMA FreshOK ==
    ASSUME NEW res \in {"none", "ok", "error"}
    PROVE  /\ [Fresh EXCEPT !.result = res] \in Local
           /\ ThreadOK("idle", [Fresh EXCEPT !.result = res])
  <1>1. Fresh \in Local
    BY ConstantsAssumption DEF Fresh, Local, Version
  <1> QED BY <1>1 DEF Fresh, Local, ThreadOK, FrameLabels, Fetches

(* One thread takes a step, after which the locals of the others are those in lo. *)
LEMMA OneThread ==
    ASSUME ControlOK, NEW t \in Threads, NEW l \in Labels, NEW r \in Local, ThreadOK(l, r),
           NEW lo \in [Threads -> Local], \A j \in Threads : ThreadOK(pc[j], lo[j]),
           pc' = [pc EXCEPT ![t] = l], local' = [lo EXCEPT ![t] = r]
    PROVE  ControlOK'
  BY DEF ControlOK

LEMMA OnlyThread ==
    ASSUME ControlOK, NEW t \in Threads, NEW l \in Labels, NEW r \in Local, ThreadOK(l, r),
           pc' = [pc EXCEPT ![t] = l], local' = [local EXCEPT ![t] = r]
    PROVE  ControlOK'
  BY DEF ControlOK

LEMMA ReturnOK ==
    ASSUME ControlOK, NEW t \in Threads, NEW res \in {"none", "ok", "error"}, Return(t, res)
    PROVE  ControlOK'
  BY FreshOK, OnlyThread DEF Return, Goto, Labels

LEMMA ResolveOK ==
    ASSUME ControlOK, NEW p, NEW r \in Frames \cup {"FAILED"}
    PROVE  /\ Resolve(p, r) \in [Threads -> Local]
           /\ \A j \in Threads : ThreadOK(pc[j], Resolve(p, r)[j])
  <1>1. ASSUME NEW j \in Threads
        PROVE  /\ [local[j] EXCEPT !.load = r] \in Local
               /\ ThreadOK(pc[j], [local[j] EXCEPT !.load = r])
    <2>1. local[j] \in Local /\ ThreadOK(pc[j], local[j])
      BY DEF ControlOK
    <2>2. [local[j] EXCEPT !.load = r] \in Local
      BY <2>1, Zenon DEF Local
    <2> QED BY <2>1, <2>2 DEF Local, ThreadOK
  <1> QED BY <1>1 DEF ControlOK, Resolve

LEMMA ResetFrameType ==
    ASSUME NEW fr \in [Frames -> Frame], NEW f \in Frames
    PROVE  ResetFrame(fr, f) \in [Frames -> Frame]
  <1>1. 0 \in Nat /\ 0 \in Int
    OBVIOUS
  <1> QED BY <1>1, Zenon DEF ResetFrame, Frame, Version

LEMMA BindType ==
    ASSUME NEW fr \in [Frames -> Frame], NEW f \in Frames, NEW p \in PageId,
           NEW io \in {"NONE", "READ_IN_PROGRESS", "WRITEBACK_IN_PROGRESS"}
    PROVE  Bind(fr, f, p, io) \in [Frames -> Frame]
  <1>1. 0 \in Int /\ fr[f].epoch + 1 \in Nat
    BY DEF Frame
  <1> QED BY <1>1, Zenon DEF Bind, Frame, Version

-----------------------------------------------------------------------------
(* AcquireFrame.                                                           *)

LEMMA GrantedOK ==
    ASSUME TInv, NEW t \in Threads, NEW f \in Frames,
           NEW fr \in [Frames -> Frame], NEW pt \in [PageId -> Entry],
           pc[t] # "idle", local[t].op \in Fetches \cup {"NEW_PAGE"}, Granted(t, f, fr, pt)
    PROVE  /\ ControlOK'
           /\ frames' \in [Frames -> Frame]
           /\ page_table' \in [PageId -> Entry]
  <1> DEFINE p == local[t].page
  <1>0. local[t] \in Local /\ ThreadOK(pc[t], local[t])
    BY DEF TInv, ControlOK
  <1>1. CASE local[t].op = "NEW_PAGE"
    <2> DEFINE n == files[local[t].file].published
               r == [local[t] EXCEPT !.frame = f, !.count = n]
    <2>1. n \in Nat
      BY <1>0 DEF TInv, PoolOK, FileEntry, ThreadOK
    <2>2. r \in Local
      BY <1>0, <2>1, Zenon DEF Local
    <2>3. ThreadOK("extend", r)
      BY <1>0, <1>1, <2>1 DEF ThreadOK, Local, Fetches, FrameLabels
    <2>4. ControlOK'
      <3> HIDE DEF r
      <3>1. pc' = [pc EXCEPT ![t] = "extend"] /\ local' = [local EXCEPT ![t] = r]
        BY <1>1 DEF Granted, Goto, r
      <3> QED BY <2>2, <2>3, <3>1, OnlyThread DEF TInv, Labels
    <2> QED BY <1>1, <2>4 DEF Granted
  <1>2. CASE local[t].op \in Fetches
    <2> DEFINE r == [local[t] EXCEPT !.frame = f]
    <2>1. p \in PageId
      BY <1>0, <1>2 DEF ThreadOK
    <2>2. r \in Local
      BY <1>0 DEF Local
    <2>3. ThreadOK("read", r)
      BY <1>0, <1>2 DEF ThreadOK, Local, Fetches, FrameLabels
    <2>4. ControlOK'
      <3> HIDE DEF r
      <3>1. pc' = [pc EXCEPT ![t] = "read"] /\ local' = [local EXCEPT ![t] = r]
        BY <1>2 DEF Granted, Goto, r, Fetches
      <3> QED BY <2>2, <2>3, <3>1, OnlyThread DEF TInv, Labels
    <2>5. frames' \in [Frames -> Frame]
      BY <1>2, <2>1, BindType DEF Granted, Fetches
    <2>6. [pt[p] EXCEPT !.state = "LOADING", !.frame = f] \in Entry
      BY <2>1, Zenon DEF Entry
    <2>7. page_table' \in [PageId -> Entry]
      BY <1>2, <2>1, <2>6 DEF Granted, Fetches
    <2> QED BY <2>4, <2>5, <2>7
  <1> QED BY <1>1, <1>2

LEMMA RefusedOK ==
    ASSUME TInv, NEW t \in Threads, NEW pt \in [PageId -> Entry], NEW fs \in [Files -> FileEntry],
           Refused(t, pt, fs)
    PROVE  /\ ControlOK'
           /\ files' \in [Files -> FileEntry]
           /\ page_table' \in [PageId -> Entry]
           /\ asleep' = {}
  <1> DEFINE r == [Fresh EXCEPT !.result = "error"]
  <1>1. r \in Local /\ ThreadOK("idle", r)
    BY FreshOK
  <1> HIDE DEF r
  <1>2. asleep' = {} /\ pc' = [pc EXCEPT ![t] = "idle"]
    BY DEF Refused, NotifyAll, Goto
  <1>3. CASE local[t].op = "NEW_PAGE"
    <2>1. local' = [local EXCEPT ![t] = r] /\ page_table' = pt
          /\ files' = [fs EXCEPT ![local[t].file].creating = FALSE]
      BY <1>3 DEF Refused, r
    <2>2. files' \in [Files -> FileEntry]
      BY <2>1 DEF FileEntry
    <2> QED BY <1>1, <1>2, <2>1, <2>2, OnlyThread DEF TInv, Labels
  <1>4. CASE local[t].op # "NEW_PAGE"
    <2> DEFINE lo == Resolve(local[t].page, "FAILED")
    <2>1. lo \in [Threads -> Local] /\ \A j \in Threads : ThreadOK(pc[j], lo[j])
      BY ResolveOK DEF TInv
    <2>2. local' = [lo EXCEPT ![t] = r] /\ files' = fs
          /\ page_table' = [pt EXCEPT ![local[t].page] = Absent]
      BY <1>4 DEF Refused, r
    <2> HIDE DEF lo
    <2>3. ControlOK'
      BY <1>1, <1>2, <2>1, <2>2, OneThread DEF TInv, Labels
    <2> QED BY <1>2, <2>2, <2>3, AbsentType
  <1> QED BY <1>3, <1>4

LEMMA AcquireFrameOK ==
    ASSUME TInv, NEW t \in Threads, NEW pt \in [PageId -> Entry], NEW fs \in [Files -> FileEntry],
           pc[t] # "idle", local[t].op \in Fetches \cup {"NEW_PAGE"}, AcquireFrame(t, pt, fs)
    PROVE  ControlOK' /\ PoolOK' /\ asleep' \subseteq Threads
  <1>0. /\ frames \in [Frames -> Frame] /\ free_list \subseteq Frames /\ asleep \subseteq Threads
        /\ local[t] \in Local /\ ThreadOK(pc[t], local[t])
    BY DEF TInv, PoolOK, RestOK, ControlOK
  <1>1. ASSUME NEW f \in free_list, free_list' = free_list \ {f}, Granted(t, f, frames, pt),
               files' = fs, UNCHANGED asleep
        PROVE  ControlOK' /\ PoolOK' /\ asleep' \subseteq Threads
    BY <1>0, <1>1, GrantedOK DEF PoolOK
  <1>2. ASSUME NEW f \in Frames, NotifyAll, files' = fs, UNCHANGED free_list,
               Granted(t, f, ResetFrame(frames, f), [pt EXCEPT ![frames[f].page] = Absent])
        PROVE  ControlOK' /\ PoolOK' /\ asleep' \subseteq Threads
    <2>1. ResetFrame(frames, f) \in [Frames -> Frame]
      BY <1>0, ResetFrameType
    <2>2. [pt EXCEPT ![frames[f].page] = Absent] \in [PageId -> Entry]
      BY AbsentType
    <2>3. ControlOK' /\ frames' \in [Frames -> Frame] /\ page_table' \in [PageId -> Entry]
      BY <1>2, <2>1, <2>2, GrantedOK
    <2> QED BY <1>0, <1>2, <2>3 DEF PoolOK, NotifyAll
  <1>3. ASSUME NEW f \in Frames,
               frames' = [frames EXCEPT ![f] = [@ EXCEPT !.state = "EVICTING",
                                                         !.io = "WRITEBACK_IN_PROGRESS"]],
               page_table' = [pt EXCEPT ![frames[f].page].state = "EVICTING"],
               local' = [local EXCEPT ![t] = [@ EXCEPT !.frame = f, !.target = frames[f].page,
                                                       !.img = frames[f].ver]],
               Goto(t, "write"), files' = fs, UNCHANGED <<free_list, asleep>>
        PROVE  ControlOK' /\ PoolOK' /\ asleep' \subseteq Threads
    <2> DEFINE r == [local[t] EXCEPT !.frame = f, !.target = frames[f].page, !.img = frames[f].ver]
    <2>1. frames[f] \in Frame /\ frames[f].page \in PageId \cup {NoPage} /\ frames[f].ver \in Version
      BY <1>0 DEF Frame
    <2>2. [frames[f] EXCEPT !.state = "EVICTING", !.io = "WRITEBACK_IN_PROGRESS"] \in Frame
      BY <2>1, Zenon DEF Frame
    <2>3. frames' \in [Frames -> Frame]
      BY <1>0, <1>3, <2>2
    <2>4. page_table' \in [PageId -> Entry]
      BY <1>3 DEF Entry
    <2>5. r \in Local
      BY <1>0, <2>1, Zenon DEF Local
    <2>6. ThreadOK("write", r)
      BY <1>0 DEF ThreadOK, Local, FrameLabels, Fetches
    <2>7. ControlOK'
      <3> HIDE DEF r
      <3>1. pc' = [pc EXCEPT ![t] = "write"] /\ local' = [local EXCEPT ![t] = r]
        BY <1>3 DEF Goto, r
      <3> QED BY <2>5, <2>6, <3>1, OnlyThread DEF TInv, Labels
    <2> QED BY <1>0, <1>3, <2>3, <2>4, <2>7 DEF PoolOK
  <1>4. ASSUME Refused(t, pt, fs), UNCHANGED <<frames, free_list>>
        PROVE  ControlOK' /\ PoolOK' /\ asleep' \subseteq Threads
    BY <1>0, <1>4, RefusedOK DEF PoolOK
  <1> QED BY <1>1, <1>2, <1>3, <1>4 DEF AcquireFrame

LEMMA FinishEvictionOK ==
    ASSUME TInv, NEW t \in Threads, FinishEviction(t)
    PROVE  TInv'
  <1> DEFINE f == local[t].frame
             victim == local[t].target
  <1>0. /\ frames \in [Frames -> Frame] /\ free_list \subseteq Frames
        /\ page_table \in [PageId -> Entry] /\ files \in [Files -> FileEntry]
        /\ pc[t] = "wrote" /\ local[t].op \in Fetches \cup {"NEW_PAGE"} /\ f \in Frames
    BY DEF TInv, PoolOK, ControlOK, FinishEviction, At, ThreadOK, FrameLabels, Fetches
  <1>1. CASE /\ Granted(t, f, ResetFrame(frames, f), [page_table EXCEPT ![victim] = Absent])
             /\ NotifyAll /\ UNCHANGED files
    <2>1. [page_table EXCEPT ![victim] = Absent] \in [PageId -> Entry]
      BY <1>0, AbsentType
    <2>2. ResetFrame(frames, f) \in [Frames -> Frame]
      BY <1>0, ResetFrameType
    <2>3. ControlOK' /\ frames' \in [Frames -> Frame] /\ page_table' \in [PageId -> Entry]
      BY <1>0, <1>1, <2>1, <2>2, GrantedOK
    <2> QED BY <1>0, <1>1, <2>3
            DEF TInv, PoolOK, DiskOK, RestOK, FinishEviction, NotifyAll, diskVars
  <1>2. CASE /\ frames' = [frames EXCEPT ![f] = [@ EXCEPT !.state = "RESIDENT", !.io = "NONE"]]
             /\ Refused(t, [page_table EXCEPT ![victim].state = "RESIDENT"], files)
    <2>1. [page_table EXCEPT ![victim].state = "RESIDENT"] \in [PageId -> Entry]
      BY <1>0 DEF Entry
    <2>2. frames[f] \in Frame
      BY <1>0
    <2>3. [frames[f] EXCEPT !.state = "RESIDENT", !.io = "NONE"] \in Frame
      BY <2>2, Zenon DEF Frame
    <2>4. frames' \in [Frames -> Frame]
      BY <1>0, <1>2, <2>3
    <2> QED BY <1>0, <1>2, <2>1, <2>4, RefusedOK
            DEF TInv, PoolOK, DiskOK, RestOK, FinishEviction, diskVars
  <1> QED BY <1>1, <1>2 DEF FinishEviction

-----------------------------------------------------------------------------
(* Fetching and guards.                                                    *)

(* A step that leaves the disk and the pool's flags alone. *)
LEMMA PoolStep ==
    ASSUME TInv, ControlOK', PoolOK', asleep' \subseteq Threads, quiescing' \in BOOLEAN,
           calls' \in Nat, UNCHANGED diskVars
    PROVE  TInv'
  BY DEF TInv, DiskOK, RestOK, diskVars

LEMMA FetchOK ==
    ASSUME TInv, NEW t \in Threads,
           FetchRefused(t) \/ PinResident(t) \/ AwaitEviction(t) \/ JoinLoad(t) \/ JoinWake(t)
    PROVE  TInv'
  <1>0. /\ ControlOK /\ PoolOK /\ asleep \subseteq Threads /\ quiescing \in BOOLEAN /\ calls \in Nat
        /\ local[t] \in Local /\ ThreadOK(pc[t], local[t])
    BY DEF TInv, RestOK, ControlOK
  <1>1. CASE FetchRefused(t)
    <2>1. ControlOK'
      BY <1>0, <1>1, ReturnOK DEF FetchRefused
    <2> QED BY <1>0, <1>1, <2>1, PoolStep DEF FetchRefused, PoolOK, poolVars
  <1>2. CASE PinResident(t)
    <2> DEFINE p == local[t].page
               f == page_table[p].frame
               r == [local[t] EXCEPT !.frame = f]
    <2>1. p \in PageId /\ f \in Frames /\ pc[t] = "pin"
      BY <1>0, <1>2 DEF PinResident, At, ThreadOK, Fetches, PoolOK, Entry
    <2>2. r \in Local
      BY <1>0, <2>1 DEF Local
    <2>3. ThreadOK("latch", r)
      BY <1>0, <2>1 DEF ThreadOK, Local, FrameLabels, Fetches
    <2>4. frames' \in [Frames -> Frame]
      <3>1. frames \in [Frames -> Frame] /\ frames' = [frames EXCEPT ![f].pin = @ + 1]
        BY <1>0, <1>2 DEF PinResident, PoolOK
      <3> HIDE DEF f
      <3>2. frames[f].pin + 1 \in Nat
        BY <2>1, <3>1 DEF Frame
      <3> QED BY <2>1, <3>1, <3>2 DEF Frame
    <2>5. pc' = [pc EXCEPT ![t] = "latch"] /\ local' = [local EXCEPT ![t] = r]
      BY <1>2 DEF PinResident, Goto
    <2> HIDE DEF r
    <2>6. ControlOK'
      BY <1>0, <2>2, <2>3, <2>5, OnlyThread DEF Labels
    <2> QED BY <1>0, <1>2, <2>4, <2>6, PoolStep DEF PinResident, PoolOK
  <1>3. CASE AwaitEviction(t)
    BY <1>0, <1>3, PoolStep DEF AwaitEviction, ControlOK, PoolOK, poolVars
  <1>4. CASE JoinLoad(t)
    <2> DEFINE p == local[t].page
               r == [local[t] EXCEPT !.load = "PENDING"]
    <2>1. p \in PageId /\ pc[t] = "pin"
      BY <1>0, <1>4 DEF JoinLoad, At, ThreadOK, Fetches
    <2>2. r \in Local
      BY <1>0 DEF Local
    <2>3. ThreadOK("join", r)
      BY <1>0, <2>1 DEF ThreadOK, Local, FrameLabels, Fetches
    <2>4. page_table' \in [PageId -> Entry]
      BY <1>0, <1>4, <2>1 DEF JoinLoad, PoolOK, Entry
    <2>5. pc' = [pc EXCEPT ![t] = "join"] /\ local' = [local EXCEPT ![t] = r]
      BY <1>4 DEF JoinLoad, Goto
    <2> HIDE DEF r
    <2>6. ControlOK'
      BY <1>0, <2>2, <2>3, <2>5, OnlyThread DEF Labels
    <2> QED BY <1>0, <1>4, <2>4, <2>6, PoolStep DEF JoinLoad, PoolOK
  <1>5. CASE JoinWake(t)
    <2>1. CASE local[t].load = "PENDING" /\ asleep' = asleep \cup {t} /\ UNCHANGED <<pc, local>>
      BY <1>0, <1>5, <2>1, PoolStep DEF JoinWake, ControlOK, PoolOK, poolVars
    <2>2. CASE Return(t, "error") /\ UNCHANGED asleep
      <3>1. ControlOK'
        BY <1>0, <2>2, ReturnOK
      <3> QED BY <1>0, <1>5, <2>2, <3>1, PoolStep DEF JoinWake, PoolOK, poolVars
    <2>3. CASE /\ local[t].load \in Frames
               /\ Goto(t, "latch")
               /\ local' = [local EXCEPT ![t] = [@ EXCEPT !.frame = local[t].load, !.load = "NONE"]]
               /\ UNCHANGED asleep
      <3> DEFINE r == [local[t] EXCEPT !.frame = local[t].load, !.load = "NONE"]
      <3>1. r \in Local
        BY <1>0, <2>3, Zenon DEF Local
      <3>2. ThreadOK("latch", r)
        BY <1>0, <1>5, <2>3 DEF ThreadOK, Local, FrameLabels, Fetches, JoinWake, At
      <3>3. pc' = [pc EXCEPT ![t] = "latch"] /\ local' = [local EXCEPT ![t] = r]
        BY <2>3 DEF Goto
      <3> HIDE DEF r
      <3>4. ControlOK'
        BY <1>0, <3>1, <3>2, <3>3, OnlyThread DEF Labels
      <3> QED BY <1>0, <1>5, <2>3, <3>4, PoolStep DEF JoinWake, PoolOK, poolVars
    <2> QED BY <1>5, <2>1, <2>2, <2>3 DEF JoinWake
  <1> QED BY <1>1, <1>2, <1>3, <1>4, <1>5

LEMMA LoadPageOK ==
    ASSUME TInv, NEW t \in Threads, LoadPage(t)
    PROVE  TInv'
  <1> DEFINE pt == [page_table EXCEPT ![local[t].page] = Intent]
  <1>1. /\ pt \in [PageId -> Entry] /\ files \in [Files -> FileEntry]
        /\ pc[t] # "idle" /\ local[t].op \in Fetches
    BY AbsentType DEF TInv, PoolOK, ControlOK, ThreadOK, LoadPage, At
  <1>2. AcquireFrame(t, pt, files)
    BY DEF LoadPage
  <1> HIDE DEF pt
  <1>3. ControlOK' /\ PoolOK' /\ asleep' \subseteq Threads
    BY <1>1, <1>2, AcquireFrameOK
  <1> QED BY <1>3, PoolStep DEF LoadPage, TInv, RestOK

(* A step that only moves thread t to label l. *)
LEMMA GotoOK ==
    ASSUME TInv, NEW t \in Threads, NEW l \in Labels, Goto(t, l), ThreadOK(l, local[t]),
           UNCHANGED local
    PROVE  ControlOK'
  BY DEF TInv, ControlOK, Goto

(* A step that changes the version in a frame. *)
LEMMA VersionType ==
    ASSUME NEW fr \in [Frames -> Frame], NEW f \in Frames, NEW v \in Int
    PROVE  [fr EXCEPT ![f].ver = v] \in [Frames -> Frame]
  BY DEF Frame, Version

LEMMA ReadPageOK ==
    ASSUME TInv, NEW t \in Threads, ReadPage(t)
    PROVE  TInv'
  <1> DEFINE f == local[t].frame
  <1>0. /\ local[t] \in Local /\ ThreadOK(pc[t], local[t]) /\ pc[t] = "read"
        /\ frames \in [Frames -> Frame] /\ PoolOK /\ ControlOK
    BY DEF TInv, ControlOK, PoolOK, ReadPage, At
  <1>1. f \in Frames /\ cache[local[t].page] \in Int
    BY <1>0 DEF ThreadOK, FrameLabels, Fetches, TInv, DiskOK, Version
  <1>2. PICK ok \in BOOLEAN :
             /\ frames' = [frames EXCEPT ![f].ver = IF ok THEN cache[local[t].page] ELSE -1]
             /\ local' = [local EXCEPT ![t].ok = ok]
    BY DEF ReadPage, MayFail
  <1>3. frames' \in [Frames -> Frame]
    <2> DEFINE v == IF ok THEN cache[local[t].page] ELSE -1
    <2>1. v \in Int
      BY <1>1
    <2>2. frames' = [frames EXCEPT ![f].ver = v]
      BY <1>2
    <2> HIDE DEF v, f
    <2> QED BY <1>0, <1>1, <2>1, <2>2, VersionType
  <1>4. ControlOK'
    <2> DEFINE r == [local[t] EXCEPT !.ok = ok]
    <2>1. r \in Local
      BY <1>0 DEF Local
    <2>2. ThreadOK("loaded", r)
      BY <1>0 DEF ThreadOK, Local, FrameLabels, Fetches
    <2>3. pc' = [pc EXCEPT ![t] = "loaded"] /\ local' = [local EXCEPT ![t] = r]
      BY <1>2 DEF ReadPage, Goto
    <2> HIDE DEF r
    <2> QED BY <1>0, <2>1, <2>2, <2>3, OnlyThread DEF Labels
  <1> QED BY <1>0, <1>3, <1>4, PoolStep DEF ReadPage, PoolOK, TInv, RestOK

LEMMA FinishLoadOK ==
    ASSUME TInv, NEW t \in Threads, FinishLoad(t)
    PROVE  TInv'
  <1> DEFINE p == local[t].page
             f == local[t].frame
  <1>0. /\ local[t] \in Local /\ ThreadOK(pc[t], local[t]) /\ pc[t] = "loaded" /\ ControlOK
        /\ PoolOK /\ frames \in [Frames -> Frame] /\ page_table \in [PageId -> Entry]
        /\ asleep' = {} /\ quiescing' \in BOOLEAN /\ calls' \in Nat
    BY DEF TInv, ControlOK, PoolOK, RestOK, FinishLoad, At, NotifyAll
  <1>1. f \in Frames /\ p \in PageId
    BY <1>0 DEF ThreadOK, FrameLabels, Fetches
  <1>2. CASE /\ frames' = ResetFrame(frames, f)
             /\ free_list' = free_list \cup {f}
             /\ page_table' = [page_table EXCEPT ![p] = Absent]
             /\ local' = [Resolve(p, "FAILED") EXCEPT ![t] = [Fresh EXCEPT !.result = "error"]]
             /\ Goto(t, "idle")
    <2> DEFINE lo == Resolve(p, "FAILED")
               r == [Fresh EXCEPT !.result = "error"]
    <2>1. /\ lo \in [Threads -> Local] /\ \A j \in Threads : ThreadOK(pc[j], lo[j])
          /\ r \in Local /\ ThreadOK("idle", r)
      BY <1>0, ResolveOK, FreshOK
    <2>2. ControlOK'
      <3> HIDE DEF lo, r
      <3>1. pc' = [pc EXCEPT ![t] = "idle"] /\ local' = [lo EXCEPT ![t] = r]
        BY <1>2 DEF Goto, lo, r
      <3> QED BY <1>0, <2>1, <3>1, OneThread DEF Labels
    <2>3. PoolOK'
      BY <1>0, <1>1, <1>2, ResetFrameType, AbsentType DEF PoolOK, FinishLoad
    <2> QED BY <1>0, <2>2, <2>3, PoolStep DEF FinishLoad
  <1>3. CASE /\ frames' = [frames EXCEPT ![f] = [@ EXCEPT !.state = "RESIDENT", !.io = "NONE",
                                                           !.pin = page_table[p].claims]]
             /\ page_table' = [page_table EXCEPT ![p] = [@ EXCEPT !.state = "RESIDENT", !.claims = 0]]
             /\ local' = Resolve(p, f)
             /\ Goto(t, "latch")
             /\ UNCHANGED free_list
    <2> DEFINE lo == Resolve(p, f)
    <2>1. lo \in [Threads -> Local] /\ \A j \in Threads : ThreadOK(pc[j], lo[j])
      BY <1>0, <1>1, ResolveOK
    <2>2. lo[t] = local[t]
      BY <1>0 DEF Resolve, Joiners
    <2>3. ThreadOK("latch", lo[t])
      BY <1>0, <2>2 DEF ThreadOK, FrameLabels, Fetches
    <2>4. ControlOK'
      <3> HIDE DEF lo
      <3>1. pc' = [pc EXCEPT ![t] = "latch"] /\ local' = lo
        BY <1>3 DEF Goto, lo
      <3> QED BY <1>0, <2>1, <2>3, <3>1 DEF ControlOK, Labels
    <2>5. frames[f] \in Frame /\ page_table[p] \in Entry /\ page_table[p].claims \in Nat /\ 0 \in Nat
      BY <1>0, <1>1 DEF Entry
    <2>6. [frames[f] EXCEPT !.state = "RESIDENT", !.io = "NONE", !.pin = page_table[p].claims] \in Frame
      BY <2>5, Zenon DEF Frame
    <2>7. [page_table[p] EXCEPT !.state = "RESIDENT", !.claims = 0] \in Entry
      BY <2>5, Zenon DEF Entry
    <2>8. PoolOK'
      BY <1>0, <1>1, <1>3, <2>6, <2>7 DEF PoolOK, FinishLoad
    <2> QED BY <1>0, <2>4, <2>8, PoolStep DEF FinishLoad
  <1> QED BY <1>2, <1>3 DEF FinishLoad

LEMMA GuardOK ==
    ASSUME TInv, NEW t \in Threads,
           Latch(t) \/ Edit(t) \/ MarkDirty(t) \/ ReleaseLatch(t) \/ Unpin(t)
    PROVE  TInv'
  <1> DEFINE f == local[t].frame
  <1>0. /\ local[t] \in Local /\ ThreadOK(pc[t], local[t]) /\ ControlOK
        /\ PoolOK /\ frames \in [Frames -> Frame]
        /\ asleep \subseteq Threads /\ quiescing \in BOOLEAN /\ calls \in Nat
    BY DEF TInv, ControlOK, PoolOK, RestOK
  <1>1. CASE Latch(t)
    <2>1. ThreadOK("reading", local[t]) /\ ThreadOK("writing", local[t])
      BY <1>0, <1>1 DEF Latch, At, ThreadOK, FrameLabels, Fetches
    <2>2. ControlOK'
      BY <1>1, <2>1, GotoOK DEF Latch, Labels
    <2> QED BY <1>0, <1>1, <2>2, PoolStep DEF Latch, PoolOK, poolVars
  <1>2. CASE Edit(t)
    <2>1. f \in Frames /\ ThreadOK("edited", local[t])
      BY <1>0, <1>2 DEF Edit, At, ThreadOK, FrameLabels, Fetches
    <2>2. ControlOK'
      BY <1>2, <2>1, GotoOK DEF Edit, Labels
    <2>3. frames' \in [Frames -> Frame]
      <3>1. frames' = [frames EXCEPT ![f].ver = @ + 1]
        BY <1>2 DEF Edit
      <3> HIDE DEF f
      <3>2. frames[f].ver + 1 \in Int
        BY <1>0, <2>1 DEF Frame, Version
      <3> QED BY <1>0, <2>1, <3>1, <3>2, VersionType
    <2> QED BY <1>0, <1>2, <2>2, <2>3, PoolStep DEF Edit, PoolOK
  <1>3. CASE MarkDirty(t)
    <2>1. f \in Frames /\ ThreadOK("writing", local[t])
      BY <1>0, <1>3 DEF MarkDirty, At, ThreadOK, FrameLabels, Fetches
    <2>2. ControlOK'
      BY <1>3, <2>1, GotoOK DEF MarkDirty, Labels
    <2>3. frames' \in [Frames -> Frame]
      <3>1. frames' = [frames EXCEPT ![f] = [@ EXCEPT !.gen = frames[f].gen + 1, !.dirty = TRUE]]
        BY <1>3 DEF MarkDirty
      <3> HIDE DEF f
      <3>2. frames[f] \in Frame /\ frames[f].gen + 1 \in Nat
        BY <1>0, <2>1 DEF Frame
      <3>3. [frames[f] EXCEPT !.gen = frames[f].gen + 1, !.dirty = TRUE] \in Frame
        BY <3>2, Zenon DEF Frame
      <3> QED BY <1>0, <3>1, <3>3
    <2> QED BY <1>0, <1>3, <2>2, <2>3, PoolStep DEF MarkDirty, PoolOK
  <1>4. CASE ReleaseLatch(t)
    <2>1. ThreadOK("unpin", local[t])
      BY <1>0, <1>4 DEF ReleaseLatch, At, ThreadOK, FrameLabels, Fetches
    <2>2. ControlOK'
      BY <1>4, <2>1, GotoOK DEF ReleaseLatch, Labels
    <2> QED BY <1>0, <1>4, <2>2, PoolStep DEF ReleaseLatch, PoolOK, poolVars
  <1>5. CASE Unpin(t)
    <2>1. f \in Frames
      BY <1>0, <1>5 DEF Unpin, At, ThreadOK, FrameLabels
    <2>2. ControlOK'
      BY <1>0, <1>5, ReturnOK DEF Unpin
    <2>3. frames' \in [Frames -> Frame]
      <3>1. frames' = [frames EXCEPT ![f].pin = IF @ = 0 THEN 0 ELSE @ - 1]
        BY <1>5 DEF Unpin
      <3> HIDE DEF f
      <3> DEFINE n == IF frames[f].pin = 0 THEN 0 ELSE frames[f].pin - 1
      <3>2. n \in Nat
        BY <1>0, <2>1 DEF Frame
      <3>3. frames' = [frames EXCEPT ![f].pin = n]
        BY <3>1
      <3> HIDE DEF n
      <3> QED BY <1>0, <2>1, <3>2, <3>3 DEF Frame
    <2>4. asleep' \subseteq Threads
      BY <1>0, <1>5 DEF Unpin
    <2> QED BY <1>0, <1>5, <2>2, <2>3, <2>4, PoolStep DEF Unpin, PoolOK
  <1> QED BY <1>1, <1>2, <1>3, <1>4, <1>5

-----------------------------------------------------------------------------
(* New pages.                                                              *)

LEMMA TurnType ==
    ASSUME NEW fs \in [Files -> FileEntry], NEW d, NEW b \in BOOLEAN
    PROVE  [fs EXCEPT ![d].creating = b] \in [Files -> FileEntry]
  BY DEF FileEntry

LEMMA NewPageOK ==
    ASSUME TInv, NEW t \in Threads, NewPage(t)
    PROVE  TInv'
  <1> DEFINE d == local[t].file
             fs == [files EXCEPT ![d].creating = TRUE]
  <1>0. /\ local[t] \in Local /\ ThreadOK(pc[t], local[t]) /\ ControlOK /\ PoolOK /\ pc[t] = "turn"
        /\ asleep \subseteq Threads /\ quiescing' \in BOOLEAN /\ calls' \in Nat /\ UNCHANGED diskVars
    BY DEF TInv, ControlOK, RestOK, NewPage, At
  <1>1. CASE Return(t, "error") /\ UNCHANGED <<poolVars, asleep>>
    <2>1. ControlOK'
      BY <1>0, <1>1, ReturnOK
    <2> QED BY <1>0, <1>1, <2>1, PoolStep DEF PoolOK, poolVars
  <1>2. CASE asleep' = asleep \cup {t} /\ UNCHANGED <<poolVars, pc, local>>
    BY <1>0, <1>2, PoolStep DEF ControlOK, PoolOK, poolVars
  <1>3. CASE AcquireFrame(t, page_table, fs)
    <2>1. /\ page_table \in [PageId -> Entry] /\ fs \in [Files -> FileEntry]
          /\ pc[t] # "idle" /\ local[t].op = "NEW_PAGE"
      BY <1>0, TurnType DEF PoolOK, ThreadOK
    <2> HIDE DEF fs
    <2>2. ControlOK' /\ PoolOK' /\ asleep' \subseteq Threads
      BY <1>3, <2>1, AcquireFrameOK
    <2> QED BY <1>0, <2>2, PoolStep
  <1> QED BY <1>1, <1>2, <1>3 DEF NewPage

LEMMA DiskUpdate ==
    ASSUME NEW c \in [PageId -> Version], NEW k
    PROVE  [c EXCEPT ![k] = 0] \in [PageId -> Version]
  <1> DEFINE z == 0
  <1>1. z \in Version
    BY DEF Version
  <1> HIDE DEF z
  <1>2. [c EXCEPT ![k] = z] \in [PageId -> Version]
    BY <1>1
  <1> QED BY <1>2 DEF z

LEMMA ReserveNewPageNoOK ==
    ASSUME TInv, NEW t \in Threads, ReserveNewPageNo(t)
    PROVE  TInv'
  <1> DEFINE d == local[t].file
             old == physical[d]
  <1>0. /\ local[t] \in Local /\ ThreadOK(pc[t], local[t]) /\ ControlOK /\ PoolOK /\ DiskOK
        /\ pc[t] = "extend" /\ RestOK /\ pc' = [pc EXCEPT ![t] = "extended"]
    BY DEF TInv, ControlOK, ReserveNewPageNo, At, Goto
  <1>1. /\ local[t].op = "NEW_PAGE" /\ d \in Files /\ local[t].frame \in Frames
        /\ old \in Nat /\ old =< MaxPageNo + 1 /\ local[t].count \in Nat
    BY <1>0 DEF ThreadOK, FrameLabels, DiskOK, Local
  <1>2. PoolOK' /\ RestOK'
    BY <1>0 DEF ReserveNewPageNo, PoolOK, RestOK, poolVars
  <1>3. CASE local' = [local EXCEPT ![t].ok = FALSE] /\ UNCHANGED diskVars
    <2> DEFINE r == [local[t] EXCEPT !.ok = FALSE]
    <2>1. r \in Local
      BY <1>0 DEF Local
    <2>2. ThreadOK("extended", r)
      BY <1>0, <1>1 DEF ThreadOK, Local, FrameLabels, Fetches
    <2>3. local' = [local EXCEPT ![t] = r]
      BY <1>3
    <2> HIDE DEF r
    <2>4. ControlOK'
      BY <1>0, <2>1, <2>2, <2>3, OnlyThread DEF Labels
    <2> QED BY <1>0, <1>2, <1>3, <2>4 DEF TInv, DiskOK, diskVars
  <1>4. CASE /\ old > local[t].count
             /\ local' = [local EXCEPT ![t].ok = TRUE]
             /\ UNCHANGED diskVars
    <2> DEFINE r == [local[t] EXCEPT !.ok = TRUE]
    <2>1. r \in Local
      BY <1>0 DEF Local
    <2>2. local[t].count =< MaxPageNo
      BY <1>1, <1>4, ConstantsAssumption
    <2>3. ThreadOK("extended", r)
      BY <1>0, <1>1, <2>2 DEF ThreadOK, Local, FrameLabels, Fetches
    <2>4. local' = [local EXCEPT ![t] = r]
      BY <1>4
    <2> HIDE DEF r
    <2>5. ControlOK'
      BY <1>0, <2>1, <2>3, <2>4, OnlyThread DEF Labels
    <2> QED BY <1>0, <1>2, <1>4, <2>5 DEF TInv, DiskOK, diskVars
  <1>5. CASE /\ old =< MaxPageNo
             /\ physical' = [physical EXCEPT ![d] = old + 1]
             /\ cache' = [cache EXCEPT ![[file |-> d, no |-> old]] = 0]
             /\ stable' = [stable EXCEPT ![[file |-> d, no |-> old]] = 0]
             /\ local' = [local EXCEPT ![t] = [@ EXCEPT !.ok = TRUE, !.count = old]]
    <2> DEFINE r == [local[t] EXCEPT !.ok = TRUE, !.count = old]
    <2>1. r \in Local
      BY <1>0, <1>1, Zenon DEF Local
    <2>2. ThreadOK("extended", r)
      BY <1>0, <1>1, <1>5 DEF ThreadOK, Local, FrameLabels, Fetches
    <2>3. local' = [local EXCEPT ![t] = r]
      BY <1>5
    <2>4. DiskOK'
      <3> HIDE DEF d, old
      <3>1. physical' \in [Files -> Nat] /\ \A e \in Files : physical'[e] =< MaxPageNo + 1
        BY <1>0, <1>1, <1>5, ConstantsAssumption DEF DiskOK
      <3>2. cache' \in [PageId -> Version] /\ stable' \in [PageId -> Version]
        <4> DEFINE k == [file |-> d, no |-> old]
        <4>1. cache' = [cache EXCEPT ![k] = 0] /\ stable' = [stable EXCEPT ![k] = 0]
          BY <1>5 DEF old, d
        <4>2. cache \in [PageId -> Version] /\ stable \in [PageId -> Version]
          BY <1>0 DEF DiskOK
        <4> HIDE DEF k
        <4> QED BY <4>1, <4>2, DiskUpdate
      <3> QED BY <3>1, <3>2 DEF DiskOK
    <2> HIDE DEF r
    <2>5. ControlOK'
      BY <1>0, <2>1, <2>2, <2>3, OnlyThread DEF Labels
    <2> QED BY <1>2, <2>4, <2>5 DEF TInv
  <1> QED BY <1>3, <1>4, <1>5 DEF ReserveNewPageNo

LEMMA BindNewPageOK ==
    ASSUME TInv, NEW t \in Threads, BindNewPage(t)
    PROVE  TInv'
  <1> DEFINE d == local[t].file
             f == local[t].frame
             p == [file |-> d, no |-> local[t].count]
             reserved == local[t].ok /\ local[t].count # 0 /\ local[t].count = files[d].published
  <1>0. /\ local[t] \in Local /\ ThreadOK(pc[t], local[t]) /\ ControlOK /\ PoolOK
        /\ pc[t] = "extended" /\ asleep \subseteq Threads
        /\ quiescing' \in BOOLEAN /\ calls' \in Nat /\ UNCHANGED diskVars
    BY DEF TInv, ControlOK, RestOK, BindNewPage, At
  <1>1. f \in Frames /\ d \in Files /\ local[t].op = "NEW_PAGE" /\ local[t].count \in Nat
    BY <1>0 DEF ThreadOK, FrameLabels, Local
  <1>2. CASE /\ free_list' = free_list \cup {f}
             /\ files' = EndTurn(d)
             /\ NotifyAll
             /\ Return(t, "error")
             /\ UNCHANGED <<frames, page_table>>
    <2>1. ControlOK'
      BY <1>0, <1>2, ReturnOK
    <2>2. PoolOK'
      BY <1>0, <1>1, <1>2, TurnType DEF PoolOK, EndTurn
    <2> QED BY <1>0, <1>2, <2>1, <2>2, PoolStep DEF NotifyAll
  <1>3. CASE /\ reserved
             /\ frames' = Bind(frames, f, p, "NONE")
             /\ page_table' = [page_table EXCEPT ![p] =
                                  [state |-> "LOADING", frame |-> f, claims |-> 0]]
             /\ local' = [local EXCEPT ![t] = [@ EXCEPT !.page = p, !.count = 0]]
             /\ Goto(t, "build")
             /\ UNCHANGED <<free_list, files, asleep>>
    <2> DEFINE r == [local[t] EXCEPT !.page = p, !.count = 0]
    <2>1. p \in PageId
      <3>1. local[t].count \in 1..MaxPageNo
        BY <1>0, <1>1, <1>3, ConstantsAssumption DEF ThreadOK
      <3> QED BY <1>1, <3>1 DEF PageId
    <2>2. r \in Local
      <3> HIDE DEF p
      <3>1. 0 \in Nat
        OBVIOUS
      <3> QED BY <1>0, <2>1, <3>1, Zenon DEF Local
    <2>3. ThreadOK("build", r)
      <3> HIDE DEF p
      <3> QED BY <1>0, <1>1, <2>1 DEF ThreadOK, Local, FrameLabels, Fetches
    <2>4. pc' = [pc EXCEPT ![t] = "build"] /\ local' = [local EXCEPT ![t] = r]
      BY <1>3 DEF Goto
    <2>5. PoolOK'
      <3>1. [state |-> "LOADING", frame |-> f, claims |-> 0] \in Entry
        BY <1>1 DEF Entry
      <3> HIDE DEF p
      <3>2. frames' \in [Frames -> Frame]
        BY <1>0, <1>1, <1>3, <2>1, BindType DEF PoolOK
      <3> QED BY <1>0, <1>3, <3>1, <3>2 DEF PoolOK
    <2> HIDE DEF r
    <2>6. ControlOK'
      BY <1>0, <2>2, <2>3, <2>4, OnlyThread DEF Labels
    <2> QED BY <1>0, <1>3, <2>5, <2>6, PoolStep
  <1> QED BY <1>2, <1>3 DEF BindNewPage

LEMMA FinishNewPageOK ==
    ASSUME TInv, NEW t \in Threads, FinishNewPage(t)
    PROVE  TInv'
  <1> DEFINE d == local[t].file
             f == local[t].frame
             p == local[t].page
  <1>0. /\ local[t] \in Local /\ ThreadOK(pc[t], local[t]) /\ ControlOK /\ PoolOK
        /\ pc[t] = "build" /\ asleep' = {}
        /\ quiescing' \in BOOLEAN /\ calls' \in Nat /\ UNCHANGED diskVars
    BY DEF TInv, ControlOK, RestOK, FinishNewPage, At, NotifyAll
  <1>1. f \in Frames /\ d \in Files /\ local[t].op = "NEW_PAGE" /\ p \in PageId
    BY <1>0 DEF ThreadOK, FrameLabels
  <1>2. CASE /\ page_table' = [page_table EXCEPT ![p] = Absent]
             /\ frames' = ResetFrame(frames, f)
             /\ free_list' = free_list \cup {f}
             /\ files' = EndTurn(d)
             /\ Return(t, "error")
    <2>1. ControlOK'
      BY <1>0, <1>2, ReturnOK
    <2>2. PoolOK'
      BY <1>0, <1>1, <1>2, TurnType, AbsentType, ResetFrameType DEF PoolOK, EndTurn
    <2> QED BY <1>0, <2>1, <2>2, PoolStep
  <1>3. CASE /\ files' = [files EXCEPT ![d] = [@ EXCEPT !.published = p.no + 1, !.creating = FALSE]]
             /\ frames' = [frames EXCEPT ![f] = [@ EXCEPT !.state = "RESIDENT", !.pin = 1,
                                                          !.dirty = TRUE, !.ver = 1,
                                                          !.gen = frames[f].gen + 1]]
             /\ page_table' = [page_table EXCEPT ![p].state = "RESIDENT"]
             /\ Goto(t, "latch")
             /\ UNCHANGED <<free_list, local>>
    <2>1. ControlOK'
      <3>1. ThreadOK("latch", local[t])
        BY <1>0, <1>1 DEF ThreadOK, FrameLabels, Fetches
      <3> QED BY <1>3, <3>1, GotoOK DEF Labels
    <2>2. frames' \in [Frames -> Frame]
      <3> HIDE DEF f
      <3>1. /\ frames[f] \in Frame /\ frames[f].gen + 1 \in Nat /\ 1 \in Nat /\ 1 \in Int
            /\ frames \in [Frames -> Frame]
        BY <1>0, <1>1 DEF PoolOK, Frame
      <3>2. [frames[f] EXCEPT !.state = "RESIDENT", !.pin = 1, !.dirty = TRUE, !.ver = 1,
                              !.gen = frames[f].gen + 1] \in Frame
        BY <3>1, Zenon DEF Frame, Version
      <3> QED BY <1>3, <3>1, <3>2
    <2>3. files' \in [Files -> FileEntry]
      <3> HIDE DEF d
      <3>1. files \in [Files -> FileEntry] /\ files[d] \in FileEntry /\ p.no + 1 \in Nat
        BY <1>0, <1>1, ConstantsAssumption DEF PoolOK, PageId
      <3>2. [files[d] EXCEPT !.published = p.no + 1, !.creating = FALSE] \in FileEntry
        BY <3>1, Zenon DEF FileEntry
      <3> QED BY <1>3, <3>1, <3>2
    <2>4. page_table' \in [PageId -> Entry]
      <3> HIDE DEF p
      <3>1. page_table \in [PageId -> Entry] /\ page_table[p] \in Entry
        BY <1>0, <1>1 DEF PoolOK
      <3>2. [page_table[p] EXCEPT !.state = "RESIDENT"] \in Entry
        BY <3>1 DEF Entry
      <3> QED BY <1>3, <3>1, <3>2
    <2>5. PoolOK'
      BY <1>0, <1>3, <2>2, <2>3, <2>4 DEF PoolOK
    <2> QED BY <1>0, <2>1, <2>5, PoolStep
  <1> QED BY <1>2, <1>3 DEF FinishNewPage

-----------------------------------------------------------------------------
(* Writeback.                                                              *)

LEMMA WritebackOK ==
    ASSUME TInv, NEW t \in Threads, CopyImage(t) \/ WriteImage(t) \/ SyncFile(t)
    PROVE  TInv'
  <1> DEFINE f == local[t].frame
             q == local[t].target
  <1>0. /\ local[t] \in Local /\ ThreadOK(pc[t], local[t]) /\ ControlOK /\ PoolOK /\ DiskOK /\ RestOK
    BY DEF TInv, ControlOK
  <1>1. CASE CopyImage(t)
    <2> DEFINE r == [local[t] EXCEPT !.img = frames[f].ver, !.gen = frames[f].gen]
    <2>1. pc[t] = "copy" /\ f \in Frames
      BY <1>0, <1>1 DEF CopyImage, At, ThreadOK, FrameLabels
    <2>2. frames[f].ver \in Version /\ frames[f].gen \in Nat
      BY <1>0, <2>1 DEF PoolOK, Frame
    <2>3. r \in Local
      BY <1>0, <2>2, Zenon DEF Local
    <2>4. ThreadOK("write", r)
      BY <1>0, <2>1 DEF ThreadOK, Local, FrameLabels, Fetches
    <2>5. pc' = [pc EXCEPT ![t] = "write"] /\ local' = [local EXCEPT ![t] = r]
      BY <1>1 DEF CopyImage, Goto
    <2> HIDE DEF r
    <2>6. ControlOK'
      BY <1>0, <2>3, <2>4, <2>5, OnlyThread DEF Labels
    <2> QED BY <1>0, <1>1, <2>6, PoolStep DEF CopyImage, PoolOK, RestOK, poolVars
  <1>2. CASE WriteImage(t)
    <2>1. pc[t] = "write" /\ PoolOK' /\ RestOK' /\ UNCHANGED <<stable, physical>>
      BY <1>0, <1>2 DEF WriteImage, At, PoolOK, RestOK, poolVars
    <2>2. CASE cache' = [cache EXCEPT ![q] = local[t].img] /\ Goto(t, "sync") /\ UNCHANGED local
      <3>1. DiskOK'
        BY <1>0, <2>1, <2>2 DEF DiskOK, Local
      <3>2. ThreadOK("sync", local[t])
        BY <1>0, <2>1 DEF ThreadOK, FrameLabels, Fetches
      <3>3. ControlOK'
        BY <2>2, <3>2, GotoOK DEF Labels
      <3> QED BY <2>1, <3>1, <3>3 DEF TInv
    <2>3. CASE /\ cache' = cache \/ cache' = [cache EXCEPT ![q] = -1]
               /\ local' = [local EXCEPT ![t].ok = FALSE]
               /\ Goto(t, "wrote")
      <3> DEFINE r == [local[t] EXCEPT !.ok = FALSE]
      <3>1. DiskOK'
        BY <1>0, <2>1, <2>3 DEF DiskOK, Version
      <3>2. r \in Local
        BY <1>0 DEF Local
      <3>3. ThreadOK("wrote", r)
        BY <1>0, <2>1 DEF ThreadOK, Local, FrameLabels, Fetches
      <3>4. pc' = [pc EXCEPT ![t] = "wrote"] /\ local' = [local EXCEPT ![t] = r]
        BY <2>3 DEF Goto
      <3> HIDE DEF r
      <3>5. ControlOK'
        BY <1>0, <3>2, <3>3, <3>4, OnlyThread DEF Labels
      <3> QED BY <2>1, <3>1, <3>5 DEF TInv
    <2> QED BY <1>2, <2>2, <2>3 DEF WriteImage
  <1>3. CASE SyncFile(t)
    <2>1. pc[t] = "sync" /\ PoolOK' /\ RestOK' /\ UNCHANGED <<cache, physical>>
      BY <1>0, <1>3 DEF SyncFile, At, PoolOK, RestOK, poolVars
    <2>2. PICK ok \in BOOLEAN :
             /\ local' = [local EXCEPT ![t].ok = ok]
             /\ stable' = [p \in PageId |-> IF ok /\ p.file = q.file THEN cache[p] ELSE stable[p]]
      BY <1>3 DEF SyncFile, MayFail
    <2> DEFINE r == [local[t] EXCEPT !.ok = ok]
    <2>3. DiskOK'
      BY <1>0, <2>1, <2>2 DEF DiskOK
    <2>4. r \in Local
      BY <1>0 DEF Local
    <2>5. ThreadOK("wrote", r)
      BY <1>0, <2>1 DEF ThreadOK, Local, FrameLabels, Fetches
    <2>6. pc' = [pc EXCEPT ![t] = "wrote"] /\ local' = [local EXCEPT ![t] = r]
      BY <1>3, <2>2 DEF SyncFile, Goto
    <2> HIDE DEF r
    <2>7. ControlOK'
      BY <1>0, <2>4, <2>5, <2>6, OnlyThread DEF Labels
    <2> QED BY <2>1, <2>3, <2>7 DEF TInv
  <1> QED BY <1>1, <1>2, <1>3

-----------------------------------------------------------------------------
(* Flushing, retirement and shutdown.                                      *)

(* The locals of a call that may run the flush loop. *)
FlushLocal(l) ==
    /\ l \in Local
    /\ l.op \in Operations /\ l.file \in Files
    /\ l.op \in Fetches \cup {"FLUSH_PAGE"} => l.page \in PageId

LEMMA CloseFileOK ==
    ASSUME TInv, NEW t \in Threads, NEW l, FlushLocal(l), NEW fr \in [Frames -> Frame],
           NEW fs \in [Files -> FileEntry], CloseFile(t, l, fr, fs)
    PROVE  ControlOK' /\ PoolOK' /\ asleep' \subseteq Threads
  <1>1. ControlOK'
    BY ReturnOK DEF CloseFile, TInv
  <1>2. \A f \in Frames : ResetFrame(fr, f)[f] \in Frame
    BY ResetFrameType
  <1>3. /\ page_table \in [PageId -> Entry] /\ free_list \subseteq Frames
        /\ \A p \in PageId : page_table[p].frame \in Frames
    BY DEF TInv, PoolOK, Entry
  <1>4. page_table' \in [PageId -> Entry] /\ free_list' \subseteq Frames
    BY <1>3, AbsentType DEF CloseFile
  <1>5. frames' \in [Frames -> Frame]
    BY <1>2 DEF CloseFile
  <1>6. files' \in [Files -> FileEntry] /\ asleep' = {}
    BY ClosedType DEF CloseFile, NotifyAll
  <1> QED BY <1>1, <1>4, <1>5, <1>6 DEF PoolOK

LEMMA FlushPagesOK ==
    ASSUME TInv, NEW t \in Threads, NEW l, FlushLocal(l), NEW fr \in [Frames -> Frame],
           NEW fs \in [Files -> FileEntry], NEW aw \in SUBSET Threads,
           FlushPages(t, l, fr, fs, aw)
    PROVE  ControlOK' /\ PoolOK' /\ asleep' \subseteq Threads
  <1>0. /\ ControlOK /\ PoolOK /\ page_table \in [PageId -> Entry] /\ free_list \subseteq Frames
        /\ l \in Local /\ l.todo \subseteq PageId
    BY DEF TInv, PoolOK, FlushLocal, Local
  <1>1. CASE FlushDone(t, l, fr, fs, aw)
    <2>1. CASE CloseFile(t, l, fr, fs)
      BY <2>1, CloseFileOK
    <2>2. CASE /\ frames' = fr /\ files' = fs /\ asleep' = aw
               /\ Return(t, IF l.failed THEN "error" ELSE "ok")
               /\ UNCHANGED <<free_list, page_table>>
      <3> DEFINE res == IF l.failed THEN "error" ELSE "ok"
      <3>1. res \in {"none", "ok", "error"} /\ Return(t, res)
        BY <2>2
      <3> HIDE DEF res
      <3>2. ControlOK'
        BY <1>0, <3>1, ReturnOK
      <3> QED BY <1>0, <2>2, <3>2 DEF PoolOK
    <2> QED BY <1>1, <2>1, <2>2 DEF FlushDone
  <1>2. ASSUME NEW p \in l.todo, Unflushed(fr, p),
               NEW rest, rest = [l EXCEPT !.todo = {q \in l.todo : PageLeq(p, q)}, !.target = p],
               \/ /\ frames' = fr
                  /\ asleep' = aw \cup {t}
                  /\ Goto(t, "flush")
                  /\ local' = [local EXCEPT ![t] = rest]
               \/ /\ frames' = [fr EXCEPT ![page_table[p].frame].io = "WRITEBACK_IN_PROGRESS"]
                  /\ asleep' = aw
                  /\ Goto(t, "copy")
                  /\ local' = [local EXCEPT ![t] =
                                   [rest EXCEPT !.frame = page_table[p].frame,
                                                !.epoch = fr[page_table[p].frame].epoch]],
               files' = fs, UNCHANGED <<free_list, page_table>>
        PROVE  ControlOK' /\ PoolOK' /\ asleep' \subseteq Threads
    <2> DEFINE todo == {q \in l.todo : PageLeq(p, q)}
               f == page_table[p].frame
    <2>1. p \in PageId /\ todo \in SUBSET PageId /\ f \in Frames /\ fr[f].epoch \in Nat
      BY <1>0 DEF Entry, Frame
    <2>2. rest \in Local
      <3>1. rest = [l EXCEPT !.todo = todo, !.target = p]
        BY <1>2
      <3> HIDE DEF todo
      <3> QED BY <1>0, <2>1, <3>1, Zenon DEF Local
    <2>3. rest.op = l.op /\ rest.file = l.file /\ rest.page = l.page
      BY <1>0, <1>2 DEF Local
    <2>4. ThreadOK("flush", rest)
      BY <2>3 DEF ThreadOK, FlushLocal, Fetches, FrameLabels
    <2>5. CASE /\ frames' = fr
               /\ asleep' = aw \cup {t}
               /\ Goto(t, "flush")
               /\ local' = [local EXCEPT ![t] = rest]
      <3>1. ControlOK'
        BY <1>0, <2>2, <2>4, <2>5, OnlyThread DEF Labels, Goto
      <3> QED BY <1>0, <1>2, <2>5, <3>1 DEF PoolOK
    <2>6. CASE /\ frames' = [fr EXCEPT ![f].io = "WRITEBACK_IN_PROGRESS"]
               /\ asleep' = aw
               /\ Goto(t, "copy")
               /\ local' = [local EXCEPT ![t] = [rest EXCEPT !.frame = f, !.epoch = fr[f].epoch]]
      <3> HIDE DEF f
      <3> DEFINE r == [rest EXCEPT !.frame = f, !.epoch = fr[f].epoch]
      <3>1. r \in Local
        BY <2>1, <2>2, Zenon DEF Local
      <3>2. ThreadOK("copy", r)
        BY <2>1, <2>2, <2>3 DEF ThreadOK, FlushLocal, Fetches, FrameLabels, Local
      <3>3. frames' \in [Frames -> Frame]
        BY <2>1, <2>6 DEF Frame
      <3>4. pc' = [pc EXCEPT ![t] = "copy"] /\ local' = [local EXCEPT ![t] = r]
        BY <2>6 DEF Goto
      <3> HIDE DEF r
      <3>5. ControlOK'
        BY <1>0, <3>1, <3>2, <3>4, OnlyThread DEF Labels
      <3> QED BY <1>0, <1>2, <2>6, <3>3, <3>5 DEF PoolOK
    <2> QED BY <1>2, <2>5, <2>6
  <1> QED BY <1>1, <1>2 DEF FlushPages

(* The locals of a thread inside a call. *)
LEMMA InCall ==
    ASSUME TInv, NEW t \in Threads, pc[t] # "idle"
    PROVE  FlushLocal(local[t])
  BY DEF TInv, ControlOK, ThreadOK, FlushLocal

LEMMA TodoType ==
    ASSUME NEW l, FlushLocal(l), NEW s \in SUBSET PageId
    PROVE  FlushLocal([l EXCEPT !.todo = s])
  <1>1. [l EXCEPT !.todo = s] \in Local
    BY DEF FlushLocal, Local
  <1> QED BY <1>1 DEF FlushLocal, Local

LEMMA FlushOK ==
    ASSUME TInv, NEW t \in Threads, Flush(t) \/ FlushWake(t) \/ Reconcile(t)
    PROVE  TInv'
  <1>0. /\ ControlOK /\ PoolOK /\ frames \in [Frames -> Frame] /\ files \in [Files -> FileEntry]
        /\ asleep \in SUBSET Threads /\ quiescing' \in BOOLEAN /\ calls' \in Nat /\ UNCHANGED diskVars
        /\ pc[t] # "idle" /\ FlushLocal(local[t])
    BY InCall DEF TInv, PoolOK, RestOK, Flush, FlushWake, Reconcile, At
  <1>1. CASE Flush(t)
    <2>1. ASSUME NEW s \in SUBSET PageId,
                 FlushPages(t, [local[t] EXCEPT !.todo = s], frames, files, asleep)
          PROVE  TInv'
      <3>1. FlushLocal([local[t] EXCEPT !.todo = s])
        BY <1>0, TodoType
      <3>2. ControlOK' /\ PoolOK' /\ asleep' \subseteq Threads
        BY <1>0, <2>1, <3>1, FlushPagesOK
      <3> QED BY <1>0, <3>2, PoolStep
    <2>2. CASE Return(t, "error") /\ UNCHANGED <<poolVars, asleep>>
      <3>1. ControlOK'
        BY <1>0, <2>2, ReturnOK
      <3> QED BY <1>0, <2>2, <3>1, PoolStep DEF PoolOK, poolVars
    <2>3. local[t].op = "FLUSH_PAGE" => {local[t].page} \in SUBSET PageId
      BY <1>0 DEF FlushLocal
    <2>4. DirtyResident(local[t].file) \in SUBSET PageId /\ DirtyResident(NoFrame) \in SUBSET PageId
      BY DEF DirtyResident
    <2> QED BY <1>1, <2>1, <2>2, <2>3, <2>4 DEF Flush
  <1>2. CASE FlushWake(t)
    <2>1. FlushPages(t, local[t], frames, files, asleep)
      BY <1>2 DEF FlushWake
    <2>2. ControlOK' /\ PoolOK' /\ asleep' \subseteq Threads
      BY <1>0, <2>1, FlushPagesOK
    <2> QED BY <1>0, <2>2, PoolStep
  <1>3. CASE Reconcile(t)
    <2> DEFINE l == local[t]
               f == l.frame
               fr == [frames EXCEPT ![f] = [@ EXCEPT !.io = "NONE",
                                                     !.dirty = frames[f].dirty /\ ~ImageIsCurrent(l)]]
               rest == [l EXCEPT !.todo = l.todo \ GivenUp(l),
                                 !.failed = l.failed \/ ~l.ok, !.ok = TRUE,
                                 !.frame = NoFrame, !.img = 0, !.gen = 0, !.epoch = 0]
    <2>1. f \in Frames
      BY <1>0, <1>3 DEF Reconcile, At, ControlOK, ThreadOK, FrameLabels
    <2>2. fr \in [Frames -> Frame]
      <3> DEFINE b == frames[f].dirty /\ ~ImageIsCurrent(l)
      <3>1. frames[f] \in Frame /\ b \in BOOLEAN
        BY <1>0, <2>1 DEF Frame, ImageIsCurrent
      <3> HIDE DEF b
      <3>2. [frames[f] EXCEPT !.io = "NONE", !.dirty = b] \in Frame
        BY <3>1, Zenon DEF Frame
      <3> QED BY <1>0, <3>2 DEF b
    <2>3. FlushLocal(rest)
      <3> DEFINE td == l.todo \ GivenUp(l)
                 fl == l.failed \/ ~l.ok
      <3>1. /\ l \in Local /\ td \in SUBSET PageId /\ fl \in BOOLEAN /\ 0 \in Nat /\ 0 \in Int
        BY <1>0 DEF FlushLocal, Local
      <3> HIDE DEF td, fl
      <3>2. [l EXCEPT !.todo = td, !.failed = fl, !.ok = TRUE, !.frame = NoFrame,
                      !.img = 0, !.gen = 0, !.epoch = 0] \in Local
        BY <3>1, Zenon DEF Local, Version
      <3>3. /\ rest.op = l.op /\ rest.file = l.file /\ rest.page = l.page
        BY <3>1 DEF Local
      <3>4. rest \in Local
        BY <3>2 DEF td, fl
      <3> HIDE DEF rest
      <3> QED BY <1>0, <3>3, <3>4 DEF FlushLocal
    <2>4. FlushPages(t, rest, fr, files, {})
      BY <1>3 DEF Reconcile
    <2> HIDE DEF rest, fr
    <2>5. ControlOK' /\ PoolOK' /\ asleep' \subseteq Threads
      BY <1>0, <2>2, <2>3, <2>4, FlushPagesOK
    <2> QED BY <1>0, <2>5, PoolStep
  <1> QED BY <1>1, <1>2, <1>3

LEMMA DrainOK ==
    ASSUME TInv, NEW t \in Threads, pc[t] # "idle", NEW fs \in [Files -> FileEntry],
           NEW aw \in SUBSET Threads, Drain(t, fs, aw)
    PROVE  ControlOK' /\ PoolOK' /\ asleep' \subseteq Threads
  <1>0. /\ FlushLocal(local[t]) /\ local[t] \in Local /\ ControlOK /\ PoolOK
        /\ frames \in [Frames -> Frame]
    BY InCall DEF TInv, ControlOK, PoolOK
  <1>1. CASE /\ asleep' = aw \cup {t} /\ files' = fs /\ Goto(t, "drain")
             /\ UNCHANGED <<frames, free_list, page_table, local>>
    <2>1. ThreadOK("drain", local[t])
      BY <1>0 DEF ThreadOK, FlushLocal, Fetches, FrameLabels
    <2>2. ControlOK'
      BY <1>1, <2>1, GotoOK DEF Labels
    <2> QED BY <1>0, <1>1, <2>2 DEF PoolOK
  <1>2. CASE FlushPages(t, [local[t] EXCEPT !.todo = DirtyResident(local[t].file)], frames, fs, aw)
    <2>1. FlushLocal([local[t] EXCEPT !.todo = DirtyResident(local[t].file)])
      BY <1>0, TodoType DEF DirtyResident
    <2> QED BY <1>0, <1>2, <2>1, FlushPagesOK
  <1>3. CASE CloseFile(t, local[t], frames, fs)
    BY <1>0, <1>3, CloseFileOK
  <1> QED BY <1>1, <1>2, <1>3 DEF Drain

LEMMA RetireOK ==
    ASSUME TInv, NEW t \in Threads, Retire(t) \/ RetireWake(t)
    PROVE  TInv'
  <1>0. /\ ControlOK /\ PoolOK /\ files \in [Files -> FileEntry] /\ FlushLocal(local[t])
        /\ asleep \in SUBSET Threads /\ quiescing' \in BOOLEAN /\ calls' \in Nat /\ UNCHANGED diskVars
        /\ pc[t] # "idle"
    BY InCall DEF TInv, PoolOK, RestOK, Retire, RetireWake, At
  <1>1. ASSUME NEW fs \in [Files -> FileEntry], NEW aw \in SUBSET Threads, Drain(t, fs, aw)
        PROVE  TInv'
    <2>1. ControlOK' /\ PoolOK' /\ asleep' \subseteq Threads
      BY <1>0, <1>1, DrainOK
    <2> QED BY <1>0, <2>1, PoolStep
  <1>2. CASE Return(t, "error") /\ UNCHANGED <<poolVars, asleep>>
    <2>1. ControlOK'
      BY <1>0, <1>2, ReturnOK
    <2> QED BY <1>0, <1>2, <2>1, PoolStep DEF PoolOK, poolVars
  <1>3. CASE Goto(t, "threw") /\ UNCHANGED <<poolVars, asleep, local>>
    <2>1. ThreadOK("threw", local[t])
      BY <1>0 DEF ThreadOK, FlushLocal, Fetches, FrameLabels
    <2>2. ControlOK'
      BY <1>3, <2>1, GotoOK DEF Labels
    <2> QED BY <1>0, <1>3, <2>2, PoolStep DEF PoolOK, poolVars
  <1>4. [files EXCEPT ![local[t].file].state = "RETIRING"] \in [Files -> FileEntry]
    BY <1>0 DEF FileEntry
  <1>5. CASE Retire(t)
    <2>1. CASE Drain(t, [files EXCEPT ![local[t].file].state = "RETIRING"], {})
      <3> DEFINE fs == [files EXCEPT ![local[t].file].state = "RETIRING"]
                 aw == {}
      <3>1. fs \in [Files -> FileEntry] /\ aw \in SUBSET Threads /\ Drain(t, fs, aw)
        BY <1>4, <2>1
      <3> HIDE DEF fs, aw
      <3> QED BY <1>1, <3>1
    <2>2. CASE Drain(t, files, asleep)
      BY <1>0, <1>1, <2>2
    <2> QED BY <1>2, <1>5, <2>1, <2>2 DEF Retire
  <1>6. CASE RetireWake(t)
    <2>1. CASE Drain(t, files, asleep)
      BY <1>0, <1>1, <2>1
    <2> QED BY <1>3, <1>6, <2>1 DEF RetireWake
  <1> QED BY <1>5, <1>6

LEMMA ShutdownOK ==
    ASSUME TInv, NEW t \in Threads, Shutdown(t)
    PROVE  TInv'
  <1>0. /\ ControlOK /\ PoolOK /\ files \in [Files -> FileEntry] /\ frames \in [Frames -> Frame]
        /\ asleep \in SUBSET Threads /\ quiescing' \in BOOLEAN /\ calls' \in Nat /\ UNCHANGED diskVars
        /\ pc[t] # "idle" /\ FlushLocal(local[t])
    BY InCall DEF TInv, PoolOK, RestOK, Shutdown, At
  <1>1. PICK aw \in SUBSET Threads : AwaitIdle(t, aw)
    BY <1>0 DEF Shutdown
  <1>2. CASE asleep' = aw \cup {t} /\ Goto(t, "shutdown") /\ UNCHANGED <<poolVars, local>>
    <2>1. ThreadOK("shutdown", local[t])
      BY <1>0 DEF ThreadOK, FlushLocal, Fetches, FrameLabels
    <2>2. ControlOK'
      BY <1>2, <2>1, GotoOK DEF Labels
    <2> QED BY <1>0, <1>2, <2>2, PoolStep DEF PoolOK, poolVars
  <1>3. CASE FlushPages(t, [local[t] EXCEPT !.todo = DirtyResident(NoFrame)], frames, files, aw)
    <2>1. FlushLocal([local[t] EXCEPT !.todo = DirtyResident(NoFrame)])
      BY <1>0, TodoType DEF DirtyResident
    <2>2. ControlOK' /\ PoolOK' /\ asleep' \subseteq Threads
      BY <1>0, <1>3, <2>1, FlushPagesOK
    <2> QED BY <1>0, <2>2, PoolStep
  <1> QED BY <1>1, <1>2, <1>3 DEF AwaitIdle

LEMMA RegisterOK ==
    ASSUME TInv, NEW t \in Threads, ReadPageCount(t) \/ RegisterFile(t)
    PROVE  TInv'
  <1>0. /\ ControlOK /\ PoolOK /\ files \in [Files -> FileEntry] /\ FlushLocal(local[t])
        /\ local[t] \in Local /\ pc[t] # "idle"
        /\ asleep' \subseteq Threads /\ quiescing' \in BOOLEAN /\ calls' \in Nat /\ UNCHANGED diskVars
    BY InCall DEF TInv, PoolOK, ControlOK, RestOK, ReadPageCount, RegisterFile, At
  <1>1. CASE ReadPageCount(t)
    <2>1. PoolOK'
      BY <1>0, <1>1 DEF ReadPageCount, PoolOK, poolVars
    <2>2. CASE Return(t, "error")
      BY <1>0, <2>1, <2>2, ReturnOK, PoolStep
    <2>3. CASE local' = [local EXCEPT ![t].count = physical[local[t].file]] /\ Goto(t, "emplace")
      <3> DEFINE n == physical[local[t].file]
                 r == [local[t] EXCEPT !.count = n]
      <3>1. n \in Nat
        BY <1>0 DEF TInv, DiskOK, FlushLocal
      <3>2. r \in Local
        BY <1>0, <3>1 DEF Local
      <3>3. ThreadOK("emplace", r)
        BY <1>0 DEF ThreadOK, FlushLocal, Fetches, FrameLabels, Local
      <3>4. pc' = [pc EXCEPT ![t] = "emplace"] /\ local' = [local EXCEPT ![t] = r]
        BY <2>3 DEF Goto
      <3> HIDE DEF r
      <3>5. ControlOK'
        BY <1>0, <3>2, <3>3, <3>4, OnlyThread DEF Labels
      <3> QED BY <1>0, <2>1, <3>5, PoolStep
    <2> QED BY <1>1, <2>2, <2>3 DEF ReadPageCount
  <1>2. CASE RegisterFile(t)
    <2>1. ControlOK'
      BY <1>0, <1>2, ReturnOK DEF RegisterFile
    <2>2. [state |-> "ACTIVE", creating |-> FALSE, published |-> local[t].count] \in FileEntry
      BY <1>0 DEF FileEntry, Local
    <2>3. PoolOK'
      BY <1>0, <1>2, <2>2 DEF RegisterFile, PoolOK
    <2> QED BY <1>0, <2>1, <2>3, PoolStep
  <1> QED BY <1>1, <1>2

-----------------------------------------------------------------------------
(* The theorem.                                                            *)

LEMMA GoalType ==
    ASSUME TInv, NEW op, NEW p
    PROVE  Goal(op, p) \in [PageId -> Version]
  <1>1. \A q \in PageId : frames[page_table[q].frame].ver \in Int
    BY DEF TInv, PoolOK, Entry, Frame, Version
  <1>2. \A q \in PageId : Published(page_table[q].frame) \in Int
    BY <1>1 DEF Published
  <1> QED BY <1>2 DEF Goal, Version

LEMMA CallOK ==
    ASSUME TInv, NEW t \in Threads, NEW op \in Operations, NEW p \in PageId, Call(t, op, p)
    PROVE  TInv'
  <1> DEFINE l == CASE op \in {"FETCH_READ", "FETCH_WRITE"} -> "pin"
                    [] op = "NEW_PAGE" -> "turn"
                    [] op \in {"FLUSH_PAGE", "FLUSH_FILE", "FLUSH_ALL"} -> "start_flush"
                    [] op \in {"RETIRE_FLUSH", "RETIRE_DISCARD"} -> "retire"
                    [] op = "SHUTDOWN" -> "quiesce"
                    [] op = "REGISTER" -> "register"
             pg == IF op \in {"FETCH_READ", "FETCH_WRITE", "FLUSH_PAGE"} THEN p ELSE NoPage
             g == Goal(op, p)
             d == p.file
             r == [Fresh EXCEPT !.op = op, !.file = d, !.page = pg, !.goal = g]
  <1>0. /\ ControlOK /\ PoolOK /\ asleep' \subseteq Threads /\ quiescing' \in BOOLEAN /\ calls' \in Nat
        /\ UNCHANGED <<poolVars, diskVars>>
        /\ pc' = [pc EXCEPT ![t] = l] /\ local' = [local EXCEPT ![t] = r]
    BY DEF TInv, RestOK, Call, Goto
  <1>1. /\ l \in Labels /\ (l = "pin" => op \in Fetches) /\ (l = "turn" => op = "NEW_PAGE")
        /\ l \in {"pin", "turn", "start_flush", "retire", "quiesce", "register"}
    BY DEF Operations, Labels, Fetches
  <1>2. /\ pg \in PageId \cup {NoPage} /\ d \in Files /\ g \in [PageId -> Version]
        /\ op \in Fetches \cup {"FLUSH_PAGE"} => pg \in PageId
    BY GoalType DEF PageId, Fetches
  <1>3. Fresh \in Local
    BY ConstantsAssumption DEF Fresh, Local, Version
  <1> HIDE DEF l, pg, g, d
  <1>4. r \in Local
    BY <1>2, <1>3, Zenon DEF Local
  <1>5. r.op = op /\ r.file = d /\ r.page = pg
    BY <1>3 DEF Local
  <1> HIDE DEF r
  <1>6. ThreadOK(l, r)
    BY <1>1, <1>2, <1>5 DEF ThreadOK, FrameLabels, Fetches
  <1>7. ControlOK'
    BY <1>0, <1>1, <1>4, <1>6, OnlyThread
  <1> QED BY <1>0, <1>7, PoolStep DEF PoolOK, poolVars

LEMMA InitOK == Init => TInv
  <1> SUFFICES ASSUME Init PROVE TInv
    OBVIOUS
  <1>1. PoolOK
    <2>1. frames \in [Frames -> Frame]
      BY DEF Init, Frame, Version
    <2>2. files \in [Files -> FileEntry]
      BY ConstantsAssumption DEF Init, FileEntry, Closed
    <2> QED BY <2>1, <2>2, AbsentType DEF PoolOK, Init
  <1>2. ControlOK
    <2>1. Fresh \in Local
      BY ConstantsAssumption DEF Fresh, Local, Version
    <2>2. ThreadOK("idle", Fresh)
      BY DEF ThreadOK, Fresh, Fetches, FrameLabels
    <2> QED BY <2>1, <2>2 DEF ControlOK, Init, Labels
  <1>3. DiskOK
    BY ConstantsAssumption DEF DiskOK, Init, Version
  <1> QED BY <1>1, <1>2, <1>3 DEF TInv, RestOK, Init

LEMMA NextOK == TInv /\ [Next]_vars => TInv'
  <1> SUFFICES ASSUME TInv, [Next]_vars PROVE TInv'
    OBVIOUS
  <1>1. ASSUME NEW t \in Threads, Step(t) PROVE TInv'
    BY <1>1, FetchOK, LoadPageOK, ReadPageOK, FinishLoadOK, FinishEvictionOK, GuardOK, NewPageOK,
       ReserveNewPageNoOK, BindNewPageOK, FinishNewPageOK, WritebackOK, FlushOK, RetireOK,
       ShutdownOK, RegisterOK DEF Step
  <1>2. ASSUME NEW t \in Threads, NEW op \in Operations, NEW p \in PageId, Call(t, op, p)
        PROVE  TInv'
    BY <1>2, CallOK
  <1>3. CASE UNCHANGED vars
    BY <1>3 DEF TInv, ControlOK, PoolOK, DiskOK, RestOK, vars
  <1> QED BY <1>1, <1>2, <1>3 DEF Next, Terminated

(* Every variable keeps its type, whatever the threads call, in whatever order, with        *)
(* whatever I/O failures: pins never underflow, page numbers stay within the file, and no    *)
(* operation works on a frame or a page it was not given.                                    *)
THEOREM TypeCorrect == Spec => []TypeOK
  <1>1. TInv => TypeOK
    BY TInvTypeOK
  <1> QED BY <1>1, InitOK, NextOK, PTL DEF Spec

-----------------------------------------------------------------------------
(* What a thread owns while it is between two critical sections.            *)

Requests == Fetches \cup {"NEW_PAGE"}
IoLabels == {"write", "sync", "wrote"}

(* A fetch that has announced its page in the table: it reads, or it evicts first. *)
Reads(t) == pc[t] \in {"read", "loaded"}
Intends(t) == pc[t] \in IoLabels /\ local[t].op \in Fetches
Loads(t) == Reads(t) \/ Intends(t)

(* A request for a frame that writes back its victim. *)
Evicts(t) == pc[t] \in IoLabels /\ local[t].op \in Requests

(* NewPage: with a frame in its hands, with a private page, and in its turn. *)
Holds(t) == pc[t] \in {"extend", "extended"}
Builds(t) == pc[t] = "build"
Creates(t) == Holds(t) \/ Builds(t) \/ (pc[t] \in IoLabels /\ local[t].op = "NEW_PAGE")

(* A flush, by whichever operation, that writes back a page. *)
Flushes(t) == pc[t] = "copy" \/ (pc[t] \in IoLabels /\ local[t].op \notin Requests)

(* Only a flush copies an image; a request for a frame has its victim to itself. *)
CopiesToFlush(t) == pc[t] = "copy" => local[t].op \notin Requests

(* The threads with a frame nobody else may take. *)
Busy(t) == Reads(t) \/ Evicts(t) \/ Holds(t) \/ Builds(t) \/ Flushes(t)

(* RetireFile has drained its file and is flushing it. *)
Closes(t) == pc[t] \in {"flush", "copy"} \cup IoLabels /\ local[t].op = "RETIRE_FLUSH"

(* The entry of page p is in state s and names frame f. *)
Maps(p, s, f) == p \in PageId /\ page_table[p].state = s /\ page_table[p].frame = f

-----------------------------------------------------------------------------
(* The structure: table, frames, registry and threads fit together.         *)

ThreadOwns(t) ==
    /\ Reads(t) => Maps(local[t].page, "LOADING", local[t].frame)
    /\ Intends(t) => page_table[local[t].page].state = "LOAD_INTENT"
    /\ Loads(t) => page_table[local[t].page].claims >= 1
    /\ Evicts(t) => Maps(local[t].target, "EVICTING", local[t].frame)
    /\ Holds(t) => frames[local[t].frame].state = "FREE" /\ local[t].frame \notin free_list
    /\ Builds(t) => /\ Maps(local[t].page, "LOADING", local[t].frame)
                    /\ local[t].page.file = local[t].file
                    /\ local[t].page.no = files[local[t].file].published
                    /\ page_table[local[t].page].claims = 0
    /\ Creates(t) => files[local[t].file].creating
    /\ Flushes(t) => /\ Maps(local[t].target, "RESIDENT", local[t].frame)
                     /\ frames[local[t].frame].io = "WRITEBACK_IN_PROGRESS"
                     /\ frames[local[t].frame].dirty
    /\ CopiesToFlush(t)

ThreadsOwn == \A t \in Threads : ThreadOwns(t)

ThreadsApart ==
    \A t, u \in Threads :
       \/ Busy(t) /\ Busy(u) /\ local[t].frame = local[u].frame
       \/ Loads(t) /\ Loads(u) /\ local[t].page = local[u].page
       \/ Creates(t) /\ Creates(u) /\ local[t].file = local[u].file
       => t = u

(* A FREE frame is blank, and listed or held; any other is the frame of its page's entry. *)
FrameBound(f) ==
    IF frames[f].state = "FREE"
    THEN frames[f].page = NoPage /\ (f \in free_list \/ \E t \in Threads : Reserves(t, f))
    ELSE f \notin free_list /\ Maps(frames[f].page, frames[f].state, f)

FramesBound == \A f \in Frames : FrameBound(f)

EntryBound(p) ==
    page_table[p].state \in {"LOADING", "RESIDENT", "EVICTING"} => frames[page_table[p].frame].page = p

EntriesBound == \A p \in PageId : EntryBound(p)

(* Only the page NewPage is building lies beyond the bound. *)
Below(p) ==
    page_table[p].state # "ABSENT" =>
       p.no < files[p.file].published \/ \E t \in Threads : Builds(t) /\ local[t].page = p

MappedBelow == \A p \in PageId : Below(p)

Structure ==
    /\ ThreadsOwn /\ ThreadsApart /\ FramesBound /\ EntriesBound /\ MappedBelow
    /\ ClosedOwnsNothing

Pinners(f) == {t \in Threads : HoldsPin(t, f)}

(* The pins of frame f are those of its pinners, who hold it for the page it is bound to. *)
PinFit(f) == frames[f].pin = Cardinality(Pinners(f)) /\ frames[f].pin =< MaxPins

PinBound(f) ==
    \A t \in Pinners(f) : /\ frames[f].state = "RESIDENT"
                          /\ frames[f].page = local[t].page
                          /\ page_table[local[t].page].frame = f

(* The claims on page p are the loader's and one for each fetch that waits for the load. *)
ClaimsFit(p) ==
    /\ page_table[p].claims = IF Loading(p) /\ page_table[p].claims > 0
                              THEN 1 + Cardinality(Joiners(p)) ELSE 0
    /\ Joiners(p) # {} => Loading(p) /\ page_table[p].claims >= 1
    /\ page_table[p].claims =< MaxPins

Pins ==
    /\ \A f \in Frames : PinFit(f) /\ PinBound(f)
    /\ \A p \in PageId : ClaimsFit(p)

(* Page p of a file that t flushes to close it: not in use, and on the list if it is dirty. *)
PageDrained(t, p) ==
    \/ page_table[p].state = "ABSENT"
    \/ /\ page_table[p].state = "RESIDENT"
       /\ frames[page_table[p].frame].pin = 0
       /\ ~frames[page_table[p].frame].dirty \/ local[t].failed \/ p \in local[t].todo

(* A file that is being flushed to be closed is drained but for the flush itself.           *)
FileDrained(t) ==
    /\ ~files[local[t].file].creating
    /\ \A p \in PageId : p.file = local[t].file => PageDrained(t, p)

ClosesDrained == \A t \in Threads : Closes(t) => FileDrained(t)

(* A RetireFile that flushes its file does so behind its gate. *)
FlushesBehindGate ==
    \A t \in Threads : Closes(t) => files[local[t].file].state # "ACTIVE"

OwnershipInv == Structure /\ Pins /\ ClosesDrained

-----------------------------------------------------------------------------
(* Where the owners' frames and pages are.                                  *)

(* What TInv says about the locals of a thread. *)
LEMMA LocalFacts ==
    ASSUME TInv, NEW t \in Threads
    PROVE  /\ local[t] \in Local
           /\ Busy(t) => local[t].frame \in Frames
           /\ Loads(t) => local[t].page \in PageId /\ local[t].op \in Fetches
           /\ Builds(t) => local[t].page \in PageId
           /\ Creates(t) => local[t].file \in Files /\ local[t].op = "NEW_PAGE"
           /\ Closes(t) => local[t].file \in Files
           /\ pc[t] \in {"pin", "join"} => local[t].page \in PageId /\ local[t].op \in Fetches
  BY DEF TInv, ControlOK, ThreadOK, FrameLabels, Busy, Reads, Evicts, Holds, Builds, Flushes, Loads,
         Intends, Creates, Closes, IoLabels

LEMMA PageIdFields ==
    ASSUME NEW p \in PageId
    PROVE  p.file \in Files /\ p.no \in 1..MaxPageNo /\ p # NoPage
  BY ConstantsAssumption DEF PageId

(* A mapped entry and its frame agree. *)
LEMMA MappedFrame ==
    ASSUME TInv, Structure, NEW p, NEW f, NEW s \in {"LOADING", "RESIDENT", "EVICTING"}, Maps(p, s, f)
    PROVE  f \in Frames /\ frames[f].page = p /\ frames[f].state = s /\ f \notin free_list
  <1>1. p \in PageId /\ page_table[p].state = s /\ page_table[p].frame = f
    BY DEF Maps
  <1>2. f \in Frames
    BY <1>1 DEF TInv, PoolOK, Entry
  <1>3. frames[f].page = p
    BY <1>1 DEF Structure, EntriesBound, EntryBound
  <1>4. frames[f].state # "FREE"
    BY <1>1, <1>2, <1>3, ConstantsAssumption DEF Structure, FramesBound, FrameBound
  <1> QED BY <1>1, <1>2, <1>3, <1>4 DEF Structure, FramesBound, FrameBound, Maps

LEMMA OwnedFrame ==
    ASSUME TInv, Structure, NEW t \in Threads
    PROVE  LET f == local[t].frame IN
           /\ Reads(t) \/ Builds(t) => frames[f].state = "LOADING" /\ frames[f].page = local[t].page
           /\ Evicts(t) => frames[f].state = "EVICTING" /\ frames[f].page = local[t].target
           /\ Holds(t) => frames[f].state = "FREE" /\ frames[f].page = NoPage
           /\ Flushes(t) => /\ frames[f].state = "RESIDENT" /\ frames[f].page = local[t].target
                            /\ frames[f].io = "WRITEBACK_IN_PROGRESS"
           /\ Busy(t) => f \in Frames /\ f \notin free_list
  <1>1. ThreadOwns(t)
    BY DEF Structure, ThreadsOwn
  <1>2. Busy(t) => local[t].frame \in Frames
    BY LocalFacts
  <1>3. Holds(t) => frames[local[t].frame].page = NoPage
    BY <1>1, <1>2 DEF ThreadOwns, Structure, FramesBound, FrameBound, Busy
  <1>4. Reads(t) \/ Builds(t) => Maps(local[t].page, "LOADING", local[t].frame)
    BY <1>1 DEF ThreadOwns
  <1>5. Evicts(t) => Maps(local[t].target, "EVICTING", local[t].frame)
    BY <1>1 DEF ThreadOwns
  <1>6. Flushes(t) => Maps(local[t].target, "RESIDENT", local[t].frame)
    BY <1>1 DEF ThreadOwns
  <1>7. Reads(t) \/ Builds(t) => /\ frames[local[t].frame].state = "LOADING"
                                 /\ frames[local[t].frame].page = local[t].page
                                 /\ local[t].frame \notin free_list
    BY <1>4, MappedFrame
  <1>8. Evicts(t) => /\ frames[local[t].frame].state = "EVICTING"
                     /\ frames[local[t].frame].page = local[t].target
                     /\ local[t].frame \notin free_list
    BY <1>5, MappedFrame
  <1>9. Flushes(t) => /\ frames[local[t].frame].state = "RESIDENT"
                      /\ frames[local[t].frame].page = local[t].target
                      /\ local[t].frame \notin free_list
    BY <1>6, MappedFrame
  <1> QED BY <1>1, <1>2, <1>3, <1>7, <1>8, <1>9 DEF ThreadOwns, Busy

AvoidsFrame(u, f) == Busy(u) => local[u].frame # f

AvoidsPage(u, q) ==
    /\ Loads(u) \/ Builds(u) => local[u].page # q
    /\ Evicts(u) \/ Flushes(u) => local[u].target # q

(* A frame on the free list, and a resident frame no writeback is using, belong to nobody;   *)
(* the frame of one thread to no other.                                                     *)
LEMMA FrameAvoided ==
    ASSUME TInv, Structure, NEW u \in Threads, NEW f \in Frames,
           \/ f \in free_list
           \/ frames[f].state = "RESIDENT" /\ frames[f].io # "WRITEBACK_IN_PROGRESS"
           \/ \E t \in Threads : t # u /\ Busy(t) /\ local[t].frame = f
    PROVE  AvoidsFrame(u, f)
  <1>1. ASSUME NEW t \in Threads, t # u, Busy(t), local[t].frame = f PROVE AvoidsFrame(u, f)
    BY <1>1 DEF Structure, ThreadsApart, AvoidsFrame
  <1>2. CASE f \in free_list
    BY <1>2, OwnedFrame DEF AvoidsFrame
  <1>3. CASE frames[f].state = "RESIDENT" /\ frames[f].io # "WRITEBACK_IN_PROGRESS"
    BY <1>3, OwnedFrame DEF AvoidsFrame, Busy
  <1> QED BY <1>1, <1>2, <1>3

(* The same for pages: an absent page, the page of such a frame, and a page some thread      *)
(* loads, builds or evicts.                                                                 *)
LEMMA AbsentAvoided ==
    ASSUME TInv, Structure, NEW u \in Threads, NEW q \in PageId, page_table[q].state = "ABSENT"
    PROVE  AvoidsPage(u, q)
  <1>1. ThreadOwns(u)
    BY DEF Structure, ThreadsOwn
  <1> QED BY <1>1 DEF ThreadOwns, AvoidsPage, Maps, Loads

LEMMA VictimAvoided ==
    ASSUME TInv, Structure, NEW u \in Threads, NEW f \in Frames,
           frames[f].state = "RESIDENT", frames[f].io # "WRITEBACK_IN_PROGRESS"
    PROVE  AvoidsPage(u, frames[f].page)
  <1>1. ThreadOwns(u)
    BY DEF Structure, ThreadsOwn
  <1>2. Maps(frames[f].page, "RESIDENT", f)
    BY DEF Structure, FramesBound, FrameBound
  <1> QED BY <1>1, <1>2 DEF ThreadOwns, AvoidsPage, Maps, Loads

LEMMA OwnPageAvoided ==
    ASSUME TInv, Structure, NEW t \in Threads, NEW u \in Threads \ {t}
    PROVE  /\ Loads(t) \/ Builds(t) => AvoidsPage(u, local[t].page)
           /\ Evicts(t) => AvoidsPage(u, local[t].target)
  <1>1. ThreadOwns(u) /\ ThreadOwns(t)
    BY DEF Structure, ThreadsOwn
  <1>2. Builds(t) /\ Builds(u) => local[t].page # local[u].page
    BY <1>1 DEF Structure, ThreadsApart, ThreadOwns, Maps, Busy
  <1>3. Loads(t) /\ Loads(u) => local[t].page # local[u].page
    BY DEF Structure, ThreadsApart
  <1>4. Loads(t) /\ Builds(u) => local[t].page # local[u].page
    BY <1>1 DEF ThreadOwns
  <1>5. Builds(t) /\ Loads(u) => local[t].page # local[u].page
    BY <1>1 DEF ThreadOwns
  <1>6. Evicts(t) /\ Evicts(u) => local[t].target # local[u].target
    BY <1>1 DEF Structure, ThreadsApart, ThreadOwns, Maps, Busy
  <1>7. Evicts(t) /\ Flushes(u) => local[t].target # local[u].target
    BY <1>1 DEF ThreadOwns, Maps
  <1>8. Evicts(t) /\ (Loads(u) \/ Builds(u)) => local[t].target # local[u].page
    BY <1>1 DEF ThreadOwns, Maps, Loads
  <1>9. Loads(t) \/ Builds(t) => (Evicts(u) \/ Flushes(u) => local[u].target # local[t].page)
    BY <1>1 DEF ThreadOwns, Maps, Loads
  <1> QED BY <1>2, <1>3, <1>4, <1>5, <1>6, <1>7, <1>8, <1>9 DEF AvoidsPage

-----------------------------------------------------------------------------
(* A step of one thread.                                                    *)

SameCall(l, m) ==
    /\ m.op = l.op /\ m.file = l.file /\ m.page = l.page /\ m.frame = l.frame
    /\ m.target = l.target /\ m.todo = l.todo /\ m.failed = l.failed

(* Thread u owns after the step what it owned before. *)
Kept(u) ==
    /\ Reads(u)' <=> Reads(u)
    /\ Intends(u)' <=> Intends(u)
    /\ Evicts(u)' <=> Evicts(u)
    /\ Holds(u)' <=> Holds(u)
    /\ Builds(u)' <=> Builds(u)
    /\ Creates(u)' <=> Creates(u)
    /\ Flushes(u)' <=> Flushes(u)
    /\ Closes(u)' <=> Closes(u)
    /\ CopiesToFlush(u) => CopiesToFlush(u)'
    /\ Busy(u) \/ Closes(u) => SameCall(local[u], local'[u])

LEMMA ThreadKept ==
    ASSUME NEW u \in Threads, pc'[u] = pc[u], SameCall(local[u], local'[u])
    PROVE  Kept(u)
  BY DEF SameCall, Kept, Reads, Intends, Evicts, Holds, Builds, Creates, Flushes, Closes,
         CopiesToFlush

FrameKept(g) ==
    /\ frames'[g].state = frames[g].state
    /\ frames'[g].page = frames[g].page
    /\ g \in free_list' <=> g \in free_list

EntryKept(q) ==
    /\ page_table'[q].state = page_table[q].state
    /\ page_table'[q].frame = page_table[q].frame
    /\ page_table'[q].claims = 0 <=> page_table[q].claims = 0

(* Thread u owns what it owned, and none of it is among F and Q. *)
OwnerKept(u, F, Q) ==
    /\ Kept(u)
    /\ \A g \in F : AvoidsFrame(u, g)
    /\ \A q \in Q : AvoidsPage(u, q)
    /\ Flushes(u) => /\ frames'[local[u].frame].io = "WRITEBACK_IN_PROGRESS"
                     /\ frames'[local[u].frame].dirty
    /\ Creates(u) => /\ files'[local[u].file].creating
                     /\ files'[local[u].file].published = files[local[u].file].published

OthersKept(t, F, Q) == \A u \in Threads \ {t} : OwnerKept(u, F, Q)

(* The step rebinds frames of F and pages of Q, which are each other's, and nothing else. *)
PoolKept(F, Q) ==
    /\ F \subseteq Frames /\ Q \subseteq PageId
    /\ \A g \in Frames \ F : FrameKept(g)
    /\ \A q \in PageId \ Q : EntryKept(q)
    /\ \A g \in F : frames[g].page \in Q \cup {NoPage}
    /\ \A q \in Q :
          page_table[q].state \in {"LOADING", "RESIDENT", "EVICTING"} => page_table[q].frame \in F
    /\ \A q \in PageId \ Q :
          page_table[q].state # "ABSENT" => files'[q.file].published >= files[q.file].published

(* What t owns after the step is nobody else's, and what it owned is among F and Q, or is   *)
(* still its own.                                                                           *)
Takes(t, F, Q) ==
    /\ \A u \in Threads \ {t} :
          /\ Busy(t)' => AvoidsFrame(u, local'[t].frame)
          /\ Loads(t)' => AvoidsPage(u, local'[t].page)
          /\ Creates(t)' /\ Creates(u) => local[u].file # local'[t].file
    /\ Holds(t) => local[t].frame \in F \/ (Holds(t)' /\ local'[t].frame = local[t].frame)
    /\ Builds(t) => local[t].page \in Q \/ (Builds(t)' /\ local'[t].page = local[t].page)

(* A thread that is left alone still owns what it owned. *)
LEMMA OwnerStep ==
    ASSUME TInv, TInv', NEW u \in Threads, ThreadOwns(u), NEW F, NEW Q,
           OwnerKept(u, F, Q), PoolKept(F, Q)
    PROVE  ThreadOwns(u)'
  <1>1. Kept(u) /\ ThreadOwns(u)
    BY DEF OwnerKept
  <1>2. \A q \in PageId : ~AvoidsPage(u, q) => EntryKept(q)
    BY DEF OwnerKept, PoolKept
  <1>3. \A g \in Frames : ~AvoidsFrame(u, g) => FrameKept(g)
    BY DEF OwnerKept, PoolKept
  <1>4. /\ Loads(u)' <=> Loads(u)
        /\ Busy(u)' <=> Busy(u)
        /\ Loads(u) => Busy(u)
        /\ Creates(u) => Busy(u)
    BY <1>1 DEF Kept, Loads, Busy, Intends, Evicts, Creates, Requests
  <1>5. /\ Loads(u) \/ Builds(u) => EntryKept(local[u].page) /\ local[u].page \in PageId
        /\ Evicts(u) \/ Flushes(u) => EntryKept(local[u].target)
    <2>1. Loads(u) \/ Builds(u) => EntryKept(local[u].page) /\ local[u].page \in PageId
      BY <1>2, LocalFacts DEF AvoidsPage
    <2>2. Evicts(u) \/ Flushes(u) => local[u].target \in PageId
      BY <1>1 DEF ThreadOwns, Maps
    <2> QED BY <2>1, <2>2, <1>2 DEF AvoidsPage
  <1>6. Holds(u) => FrameKept(local[u].frame)
    BY <1>3, LocalFacts DEF AvoidsFrame, Busy
  <1>7. Reads(u)' => Maps(local[u].page, "LOADING", local[u].frame)'
    BY <1>1, <1>5, <1>4 DEF ThreadOwns, Kept, SameCall, Loads, EntryKept, Maps, Busy
  <1>8. Intends(u)' => page_table'[local'[u].page].state = "LOAD_INTENT"
    BY <1>1, <1>5, <1>4 DEF ThreadOwns, Kept, SameCall, Loads, EntryKept
  <1>9. Loads(u)' => page_table'[local'[u].page].claims >= 1
    <2>1. SUFFICES ASSUME Loads(u) PROVE page_table'[local[u].page].claims >= 1
      BY <1>1, <1>4 DEF Kept, SameCall
    <2>2. page_table[local[u].page].claims # 0 /\ local[u].page \in PageId
      BY <2>1, <1>1, <1>5 DEF ThreadOwns
    <2>3. page_table'[local[u].page].claims # 0
      BY <2>1, <2>2, <1>5 DEF EntryKept
    <2>4. page_table'[local[u].page].claims \in Nat
      BY <2>2 DEF TInv, PoolOK, Entry
    <2> QED BY <2>3, <2>4
  <1>10. Evicts(u)' => Maps(local[u].target, "EVICTING", local[u].frame)'
    BY <1>1, <1>5, <1>4 DEF ThreadOwns, Kept, SameCall, EntryKept, Maps, Busy
  <1>11. Holds(u)' => frames'[local'[u].frame].state = "FREE" /\ local'[u].frame \notin free_list'
    BY <1>1, <1>6, <1>4 DEF ThreadOwns, Kept, SameCall, FrameKept, Busy
  <1>12. Builds(u)' => /\ Maps(local[u].page, "LOADING", local[u].frame)'
                       /\ local'[u].page.file = local'[u].file
                       /\ local'[u].page.no = files'[local'[u].file].published
                       /\ page_table'[local'[u].page].claims = 0
    BY <1>1, <1>5, <1>4 DEF ThreadOwns, OwnerKept, Kept, SameCall, EntryKept, Maps, Busy, Creates
  <1>13. Creates(u)' => files'[local'[u].file].creating
    BY <1>1, <1>4 DEF OwnerKept, Kept, SameCall
  <1>14. Flushes(u)' => /\ Maps(local[u].target, "RESIDENT", local[u].frame)'
                        /\ frames'[local'[u].frame].io = "WRITEBACK_IN_PROGRESS"
                        /\ frames'[local'[u].frame].dirty
    BY <1>1, <1>5, <1>4 DEF ThreadOwns, OwnerKept, Kept, SameCall, EntryKept, Maps, Busy
  <1>15. CopiesToFlush(u)'
    BY <1>1 DEF ThreadOwns, Kept
  <1> QED BY <1>7, <1>8, <1>9, <1>10, <1>11, <1>12, <1>13, <1>14, <1>15 DEF ThreadOwns

(* The structure holds after the step if it does for t, F and Q. *)
LEMMA StructureStep ==
    ASSUME TInv, TInv', Structure, NEW t \in Threads, NEW F, NEW Q,
           OthersKept(t, F, Q), PoolKept(F, Q), Takes(t, F, Q), ThreadOwns(t)',
           \A g \in F : FrameBound(g)', \A q \in Q : EntryBound(q)' /\ Below(q)',
           ClosedOwnsNothing'
    PROVE  Structure'
  <1>1. ASSUME NEW u \in Threads \ {t} PROVE ThreadOwns(u)'
    BY <1>1, OwnerStep DEF OthersKept, Structure, ThreadsOwn
  <1>2. ThreadsOwn'
    BY <1>1 DEF ThreadsOwn
  <1>3. ASSUME NEW u \in Threads \ {t}
        PROVE  /\ Busy(u)' <=> Busy(u)
               /\ Loads(u)' <=> Loads(u)
               /\ Creates(u)' <=> Creates(u)
               /\ Loads(u) => Busy(u)
               /\ Creates(u) => Busy(u)
               /\ Busy(u) => /\ local'[u].frame = local[u].frame
                             /\ local'[u].page = local[u].page
                             /\ local'[u].file = local[u].file
    BY <1>3 DEF OthersKept, OwnerKept, Kept, SameCall, Loads, Busy, Intends, Evicts, Creates, Requests
  <1>4. ThreadsApart'
    <2>1. ASSUME NEW u \in Threads \ {t}, NEW v \in Threads \ {t},
                 \/ Busy(u)' /\ Busy(v)' /\ local'[u].frame = local'[v].frame
                 \/ Loads(u)' /\ Loads(v)' /\ local'[u].page = local'[v].page
                 \/ Creates(u)' /\ Creates(v)' /\ local'[u].file = local'[v].file
          PROVE  u = v
      BY <2>1, <1>3 DEF Structure, ThreadsApart
    <2>2. ASSUME NEW u \in Threads \ {t},
                 \/ Busy(u)' /\ Busy(t)' /\ local'[u].frame = local'[t].frame
                 \/ Loads(u)' /\ Loads(t)' /\ local'[u].page = local'[t].page
                 \/ Creates(u)' /\ Creates(t)' /\ local'[u].file = local'[t].file
          PROVE  FALSE
      BY <2>2, <1>3 DEF Takes, AvoidsFrame, AvoidsPage
    <2> QED BY <2>1, <2>2 DEF ThreadsApart
  <1>5. FramesBound'
    <2>1. SUFFICES ASSUME NEW g \in Frames \ F PROVE FrameBound(g)'
      BY DEF FramesBound
    <2>2. FrameKept(g) /\ FrameBound(g)
      BY DEF PoolKept, Structure, FramesBound
    <2>3. CASE frames[g].state = "FREE"
      <3>1. ASSUME NEW u \in Threads, Reserves(u, g) PROVE Reserves(u, g)'
        <4>1. Holds(u) /\ local[u].frame = g
          BY <3>1 DEF Reserves, Holds
        <4>2. Holds(u)' /\ local'[u].frame = g
          BY <4>1, <2>1 DEF Takes, OthersKept, OwnerKept, Kept, SameCall, Busy
        <4> QED BY <4>2 DEF Reserves, Holds
      <3> QED BY <2>2, <2>3, <3>1 DEF FrameKept, FrameBound
    <2>4. CASE frames[g].state # "FREE"
      <3>1. Maps(frames[g].page, frames[g].state, g) /\ g \notin free_list
        BY <2>2, <2>4 DEF FrameBound
      <3>2. frames[g].state \in {"LOADING", "RESIDENT", "EVICTING"}
        BY <2>4, <2>1 DEF TInv, PoolOK, Frame
      <3>3. frames[g].page \notin Q
        BY <3>1, <3>2, <2>1 DEF PoolKept, Maps
      <3>4. EntryKept(frames[g].page)
        BY <3>1, <3>3 DEF PoolKept, Maps
      <3> QED BY <3>1, <3>4, <2>2, <2>4 DEF FrameKept, FrameBound, EntryKept, Maps
    <2> QED BY <2>3, <2>4
  <1>6. EntriesBound'
    <2>1. SUFFICES ASSUME NEW q \in PageId \ Q,
                          page_table[q].state \in {"LOADING", "RESIDENT", "EVICTING"}
                   PROVE  frames'[page_table'[q].frame].page = q
      BY DEF EntriesBound, EntryBound, PoolKept, EntryKept
    <2>2. frames[page_table[q].frame].page = q
      BY <2>1 DEF Structure, EntriesBound, EntryBound
    <2>3. page_table[q].frame \in Frames \ F
      BY <2>1, <2>2, PageIdFields DEF PoolKept, TInv, PoolOK, Entry
    <2> QED BY <2>1, <2>2, <2>3 DEF PoolKept, FrameKept, EntryKept
  <1>7. MappedBelow'
    <2>1. SUFFICES ASSUME NEW q \in PageId \ Q, page_table[q].state # "ABSENT"
                   PROVE  \/ q.no < files'[q.file].published
                          \/ \E u \in Threads : Builds(u)' /\ local'[u].page = q
      BY DEF MappedBelow, Below, PoolKept, EntryKept
    <2>2. CASE q.no < files[q.file].published
      <3>1. files'[q.file].published >= files[q.file].published
        BY <2>1 DEF PoolKept
      <3>2. q.no \in Nat /\ q.file \in Files
        BY PageIdFields
      <3>3. files'[q.file].published \in Nat /\ files[q.file].published \in Nat
        BY <3>2 DEF TInv, PoolOK, FileEntry
      <3> QED BY <3>1, <3>2, <3>3, <2>2
    <2>3. ASSUME NEW u \in Threads, Builds(u), local[u].page = q
          PROVE  Builds(u)' /\ local'[u].page = q
      BY <2>3, <2>1 DEF Takes, OthersKept, OwnerKept, Kept, SameCall, Busy
    <2> QED BY <2>1, <2>2, <2>3 DEF Structure, MappedBelow, Below
  <1> QED BY <1>2, <1>4, <1>5, <1>6, <1>7 DEF Structure

-----------------------------------------------------------------------------
(* Pins and claims.                                                         *)

LEMMA FiniteThreads ==
    ASSUME NEW S \in SUBSET Threads
    PROVE  IsFiniteSet(S) /\ Cardinality(S) \in Nat /\ (Cardinality(S) = 0 <=> S = {})
  <1>1. IsFiniteSet(S)
    BY ConstantsAssumption, FS_Subset
  <1> QED BY <1>1, FS_CardinalityType, FS_EmptySet

(* Nobody pins a frame that is not resident or has no pin. *)
LEMMA NotPinned ==
    ASSUME TInv, Pins, NEW f \in Frames, frames[f].state # "RESIDENT" \/ frames[f].pin = 0
    PROVE  Pinners(f) = {} /\ frames[f].pin = 0
  <1>1. PinFit(f) /\ PinBound(f)
    BY DEF Pins
  <1>2. Cardinality(Pinners(f)) = 0 <=> Pinners(f) = {}
    BY FiniteThreads DEF Pinners
  <1> QED BY <1>1, <1>2 DEF PinFit, PinBound

(* A frame without pinners. *)
LEMMA UnpinnedAfter ==
    ASSUME NEW f \in Frames, Pinners(f)' = {}, frames'[f].pin = 0
    PROVE  PinFit(f)' /\ PinBound(f)'
  <1>1. Cardinality(Pinners(f)') = 0
    BY FS_EmptySet
  <1>2. 0 =< MaxPins
    BY ConstantsAssumption
  <1> QED BY <1>1, <1>2 DEF PinFit, PinBound

(* Nobody waits for a load that is not under way. *)
LEMMA NotJoined ==
    ASSUME TInv, Pins, NEW p \in PageId, ~Loading(p) \/ page_table[p].claims = 0
    PROVE  Joiners(p) = {} /\ page_table[p].claims = 0
  <1>1. ClaimsFit(p)
    BY DEF Pins
  <1> QED BY <1>1 DEF ClaimsFit

(* A page nobody waits for, with the claim of its loader or none. *)
LEMMA UnjoinedAfter ==
    ASSUME NEW p \in PageId, Joiners(p)' = {},
           page_table'[p].claims = 0 \/ (page_table'[p].claims = 1 /\ Loading(p)')
    PROVE  ClaimsFit(p)'
  <1>1. Cardinality(Joiners(p)') = 0
    BY FS_EmptySet
  <1>2. 1 =< MaxPins /\ 0 =< MaxPins
    BY ConstantsAssumption
  <1> QED BY <1>1, <1>2 DEF ClaimsFit

(* Pins and claims are those of before, but for the frames of F and the pages of Q. *)
PinsKept(F, Q) ==
    /\ \A g \in Frames \ F : /\ frames'[g].state = frames[g].state
                             /\ frames'[g].page = frames[g].page
                             /\ frames'[g].pin = frames[g].pin
                             /\ Pinners(g)' = Pinners(g)
                             /\ \A u \in Pinners(g) : local'[u].page = local[u].page
    /\ \A q \in PageId \ Q : /\ page_table'[q].state = page_table[q].state
                             /\ page_table'[q].frame = page_table[q].frame
                             /\ page_table'[q].claims = page_table[q].claims
                             /\ Joiners(q)' = Joiners(q)
    /\ \A q \in Q : page_table[q].state = "RESIDENT" => page_table[q].frame \in F

LEMMA PinsStep ==
    ASSUME TInv, Structure, Pins, NEW F, NEW Q, PinsKept(F, Q),
           \A g \in F : PinFit(g)' /\ PinBound(g)', \A q \in Q : ClaimsFit(q)'
    PROVE  Pins'
  <1>1. ASSUME NEW g \in Frames \ F PROVE PinFit(g)'
    BY DEF Pins, PinsKept, PinFit
  <1>2. ASSUME NEW g \in Frames \ F, NEW u \in Pinners(g)'
        PROVE  /\ frames'[g].state = "RESIDENT"
               /\ frames'[g].page = local'[u].page
               /\ page_table'[local'[u].page].frame = g
    <2>1. u \in Pinners(g) /\ local'[u].page = local[u].page
      BY <1>2 DEF PinsKept
    <2>2. frames[g].state = "RESIDENT" /\ frames[g].page = local[u].page
      BY <2>1 DEF Pins, PinBound
    <2>3. Maps(local[u].page, "RESIDENT", g)
      BY <2>2 DEF Structure, FramesBound, FrameBound
    <2>4. local[u].page \in PageId \ Q
      BY <2>3, <1>2 DEF PinsKept, Maps
    <2> QED BY <2>1, <2>2, <2>3, <2>4 DEF PinsKept, Maps
  <1>3. ASSUME NEW g \in Frames \ F PROVE PinBound(g)'
    BY <1>2 DEF PinBound
  <1>4. ASSUME NEW q \in PageId \ Q PROVE ClaimsFit(q)'
    BY DEF Pins, PinsKept, ClaimsFit, Loading
  <1> QED BY <1>1, <1>3, <1>4 DEF Pins

-----------------------------------------------------------------------------
(* Files that are being closed.                                             *)

(* A page that a closer may not have drained, or that is gone. *)
NotToClose(q) ==
    \/ files[q.file].state = "ACTIVE"
    \/ files[q.file].creating
    \/ page_table[q].state \notin {"ABSENT", "RESIDENT"}
    \/ page_table'[q].state = "ABSENT"

(* No frame of a file behind its gate is pinned or made dirty by the step. *)
ClosingKept(F) ==
    /\ \A d \in Files : files'[d].creating => files[d].creating \/ files[d].state = "ACTIVE"
    /\ \A g \in Frames \ F :
          /\ frames[g].state = "RESIDENT" /\ frames[g].pin = 0
          /\ files[frames[g].page.file].state # "ACTIVE"
          => frames'[g].pin = 0 /\ (frames'[g].dirty => frames[g].dirty)

LEMMA ClosingStep ==
    ASSUME TInv, Structure, ClosesDrained, FlushesBehindGate, NEW t \in Threads, NEW F, NEW Q,
           \A u \in Threads \ {t} : Kept(u),
           PoolKept(F, Q), ClosingKept(F), \A q \in Q : NotToClose(q),
           Closes(t)' => FileDrained(t)'
    PROVE  ClosesDrained'
  <1>1. SUFFICES ASSUME NEW u \in Threads \ {t}, Closes(u)' PROVE FileDrained(u)'
    BY DEF ClosesDrained
  <1> DEFINE d == local[u].file
  <1>2. Closes(u) /\ local'[u].file = d /\ local'[u].todo = local[u].todo
                  /\ local'[u].failed = local[u].failed
    BY <1>1 DEF Kept, SameCall
  <1>3. d \in Files /\ files[d].state # "ACTIVE" /\ ~files[d].creating
    BY <1>2, LocalFacts DEF FlushesBehindGate, ClosesDrained, FileDrained
  <1>4. ASSUME NEW p \in PageId, p.file = d PROVE PageDrained(u, p)'
    <2>1. PageDrained(u, p)
      BY <1>2, <1>4 DEF ClosesDrained, FileDrained
    <2>2. CASE p \in Q
      <3>1. page_table'[p].state = "ABSENT"
        BY <2>1, <2>2, <1>3, <1>4 DEF NotToClose, PageDrained
      <3> QED BY <3>1 DEF PageDrained
    <2>3. CASE p \notin Q
      <3>1. page_table'[p].state = page_table[p].state /\ page_table'[p].frame = page_table[p].frame
        BY <2>3 DEF PoolKept, EntryKept
      <3>2. CASE page_table[p].state = "ABSENT"
        BY <3>1, <3>2 DEF PageDrained
      <3>3. CASE page_table[p].state # "ABSENT"
        <4> DEFINE g == page_table[p].frame
        <4>1. Maps(p, "RESIDENT", g) /\ frames[g].pin = 0
          BY <2>1, <3>3 DEF PageDrained, Maps
        <4>2. g \in Frames /\ frames[g].page = p /\ frames[g].state = "RESIDENT"
          BY <4>1, MappedFrame
        <4>3. g \notin F
          BY <4>2, <2>3, PageIdFields DEF PoolKept
        <4>4. frames'[g].pin = 0 /\ (frames'[g].dirty => frames[g].dirty)
          BY <4>1, <4>2, <4>3, <1>3, <1>4 DEF ClosingKept
        <4> QED BY <2>1, <3>1, <3>3, <4>4, <1>2 DEF PageDrained
      <3> QED BY <3>2, <3>3
    <2> QED BY <2>2, <2>3
  <1> QED BY <1>2, <1>3, <1>4 DEF FileDrained, ClosingKept

-----------------------------------------------------------------------------
(* Steps that change neither bindings nor pins.                             *)

Joins(u, q) == pc[u] = "join" /\ local[u].page = q /\ local[u].load = "PENDING"

(* Thread u has after the step the pin or the claim it had before. *)
PinKept(u) ==
    /\ \A g \in Frames : /\ HoldsPin(u, g)' <=> HoldsPin(u, g)
                         /\ HoldsPin(u, g) => local'[u].page = local[u].page
    /\ \A q \in PageId : Joins(u, q)' <=> Joins(u, q)

LEMMA PinnersKept ==
    ASSUME \A u \in Threads : PinKept(u)
    PROVE  /\ \A g \in Frames : /\ Pinners(g)' = Pinners(g)
                                /\ \A u \in Pinners(g) : local'[u].page = local[u].page
           /\ \A q \in PageId : Joiners(q)' = Joiners(q)
  <1>1. ASSUME NEW g \in Frames
        PROVE  Pinners(g)' = Pinners(g) /\ \A u \in Pinners(g) : local'[u].page = local[u].page
    BY DEF PinKept, Pinners
  <1>2. ASSUME NEW q \in PageId PROVE Joiners(q)' = Joiners(q)
    BY DEF PinKept, Joiners, Joins
  <1> QED BY <1>1, <1>2

LEMMA OtherPinKept ==
    ASSUME NEW u \in Threads, pc'[u] = pc[u], local'[u] = local[u]
    PROVE  Kept(u) /\ PinKept(u)
  <1>1. Kept(u)
    BY ThreadKept DEF SameCall
  <1> QED BY <1>1 DEF PinKept, HoldsPin, Joins

(* Bindings, turns and bounds are those of before. *)
SameBindings ==
    /\ free_list' = free_list
    /\ \A q \in PageId : EntryKept(q)
    /\ \A g \in Frames : /\ frames'[g].state = frames[g].state
                         /\ frames'[g].page = frames[g].page
                         /\ frames'[g].io = frames[g].io
                         /\ frames[g].dirty => frames'[g].dirty
    /\ \A d \in Files : /\ files'[d].creating = files[d].creating
                        /\ files'[d].published = files[d].published
                        /\ files'[d].state = "CLOSED" => files[d].state = "CLOSED"

LEMMA SameBindingsStep ==
    ASSUME TInv, TInv', Structure, SameBindings, NEW t \in Threads, \A u \in Threads : Kept(u)
    PROVE  Structure' /\ PoolKept({}, {})
  <1>1. PoolKept({}, {})
    <2>1. \A q \in PageId : files'[q.file].published >= files[q.file].published
      BY PageIdFields DEF SameBindings, TInv, PoolOK, FileEntry
    <2> QED BY <2>1 DEF PoolKept, SameBindings, FrameKept
  <1>2. ASSUME NEW u \in Threads PROVE OwnerKept(u, {}, {})
    <2>1. ThreadOwns(u)
      BY DEF Structure, ThreadsOwn
    <2> QED BY <2>1, LocalFacts DEF OwnerKept, SameBindings, ThreadOwns, Busy
  <1>3. ThreadOwns(t)'
    BY <1>1, <1>2, OwnerStep DEF Structure, ThreadsOwn
  <1>4. Takes(t, {}, {})
    <2>1. /\ Busy(t)' <=> Busy(t)
          /\ Loads(t)' <=> Loads(t)
          /\ Creates(t)' <=> Creates(t)
          /\ Loads(t) \/ Creates(t) \/ Holds(t) \/ Builds(t) => Busy(t)
          /\ Busy(t) => SameCall(local[t], local'[t])
      BY DEF Kept, Loads, Busy, Intends, Evicts, Creates, Requests
    <2>2. ASSUME NEW u \in Threads \ {t}
          PROVE  /\ Busy(t) => AvoidsFrame(u, local[t].frame)
                 /\ Loads(t) => AvoidsPage(u, local[t].page)
                 /\ Creates(t) /\ Creates(u) => local[u].file # local[t].file
      <3>1. Busy(t) => AvoidsFrame(u, local[t].frame)
        BY DEF Structure, ThreadsApart, AvoidsFrame
      <3>2. Loads(t) => AvoidsPage(u, local[t].page)
        BY OwnPageAvoided
      <3> QED BY <3>1, <3>2 DEF Structure, ThreadsApart
    <2> QED BY <2>1, <2>2 DEF Takes, SameCall, Kept
  <1>5. ClosedOwnsNothing'
    BY DEF SameBindings, EntryKept, Structure, ClosedOwnsNothing
  <1>6. OthersKept(t, {}, {})
    BY <1>2 DEF OthersKept
  <1> QED BY <1>1, <1>3, <1>4, <1>5, <1>6, StructureStep

(* A thread that closes a file goes on with it. *)
LEMMA CloserKept ==
    ASSUME TInv, Structure, ClosesDrained, FlushesBehindGate, SameBindings, NEW t \in Threads,
           Kept(t), ClosingKept({})
    PROVE  Closes(t)' => FileDrained(t)'
  <1>1. SUFFICES ASSUME Closes(t) PROVE FileDrained(t)'
    BY DEF Kept
  <1>2. FileDrained(t) /\ SameCall(local[t], local'[t]) /\ local[t].file \in Files
        /\ files[local[t].file].state # "ACTIVE"
    BY <1>1, LocalFacts DEF ClosesDrained, Kept, FlushesBehindGate
  <1>3. ~files'[local'[t].file].creating
    BY <1>2 DEF FileDrained, SameCall, SameBindings
  <1>4. ASSUME NEW p \in PageId, p.file = local'[t].file PROVE PageDrained(t, p)'
    <2>1. PageDrained(t, p) /\ EntryKept(p) /\ files[p.file].state # "ACTIVE"
      BY <1>2, <1>4 DEF FileDrained, SameCall, SameBindings
    <2>2. CASE page_table[p].state = "ABSENT"
      BY <2>1, <2>2 DEF PageDrained, EntryKept
    <2>3. CASE page_table[p].state # "ABSENT"
      <3> DEFINE g == page_table[p].frame
      <3>1. Maps(p, "RESIDENT", g) /\ frames[g].pin = 0
        BY <2>1, <2>3 DEF PageDrained, Maps
      <3>2. g \in Frames /\ frames[g].page = p /\ frames[g].state = "RESIDENT"
        BY <3>1, MappedFrame
      <3>3. frames'[g].pin = 0 /\ (frames'[g].dirty => frames[g].dirty)
        BY <2>1, <3>1, <3>2 DEF ClosingKept
      <3> QED BY <1>2, <2>1, <2>3, <3>3 DEF PageDrained, EntryKept, SameCall
    <2> QED BY <2>2, <2>3
  <1> QED BY <1>3, <1>4 DEF FileDrained

(* ... and the pins too. *)
QuietPool ==
    /\ SameBindings
    /\ page_table' = page_table
    /\ \A g \in Frames : /\ frames'[g].pin = frames[g].pin
                         /\ frames'[g].dirty => frames[g].dirty \/ frames[g].pin # 0

LEMMA QuietStep ==
    ASSUME TInv, TInv', OwnershipInv, FlushesBehindGate, QuietPool, NEW t \in Threads,
           \A u \in Threads : Kept(u) /\ PinKept(u)
    PROVE  OwnershipInv'
  <1>0. Structure /\ Pins /\ ClosesDrained /\ SameBindings
    BY DEF OwnershipInv, QuietPool
  <1>1. Structure' /\ PoolKept({}, {})
    BY <1>0, SameBindingsStep
  <1>2. PinsKept({}, {})
    BY PinnersKept DEF QuietPool, SameBindings, PinsKept
  <1>3. Pins'
    BY <1>0, <1>2, PinsStep
  <1>4. ClosingKept({})
    BY DEF QuietPool, SameBindings, ClosingKept
  <1>5. ClosesDrained'
    BY <1>0, <1>1, <1>4, CloserKept, ClosingStep
  <1> QED BY <1>1, <1>3, <1>5 DEF OwnershipInv

(* Only thread t moves. *)
Alone(t) == \A u \in Threads \ {t} : pc'[u] = pc[u] /\ local'[u] = local[u]

LEMMA OnlyMoves ==
    ASSUME TInv, NEW t \in Threads, NEW l, NEW r,
           pc' = [pc EXCEPT ![t] = l], local' = [local EXCEPT ![t] = r]
    PROVE  Alone(t) /\ pc'[t] = l /\ local'[t] = r
  BY DEF TInv, ControlOK, Alone

LEMMA Moves ==
    ASSUME TInv, NEW t \in Threads, NEW l, Goto(t, l), UNCHANGED local
    PROVE  Alone(t) /\ pc'[t] = l /\ local'[t] = local[t]
  BY DEF TInv, ControlOK, Alone, Goto

LEMMA Returns ==
    ASSUME TInv, NEW t \in Threads, NEW res, Return(t, res)
    PROVE  Alone(t) /\ pc'[t] = "idle"
  BY OnlyMoves DEF Return, Goto

LEMMA QuietAction ==
    ASSUME TInv, TInv', OwnershipInv, FlushesBehindGate, QuietPool, NEW t \in Threads,
           Alone(t), Kept(t), PinKept(t)
    PROVE  OwnershipInv'
  BY OtherPinKept, QuietStep DEF Alone

(* A thread at one of these labels owns nothing. *)
PassiveLabels == {"idle", "pin", "turn", "start_flush", "retire", "drain", "quiesce", "shutdown",
                  "register", "emplace", "threw"}

LEMMA PassiveKept ==
    ASSUME NEW t \in Threads, pc'[t] \in PassiveLabels,
           pc[t] \in PassiveLabels \/ (pc[t] = "join" /\ local[t].load = "FAILED")
    PROVE  Kept(t) /\ PinKept(t)
  <1>1. Kept(t)
    BY DEF PassiveLabels, Kept, Reads, Intends, Evicts, Holds, Builds, Creates, Flushes, Closes,
           CopiesToFlush, Busy, IoLabels
  <1>2. \A g \in Frames : g # "FAILED"
    BY ConstantsAssumption
  <1>3. PinKept(t)
    BY <1>2 DEF PassiveLabels, PinKept, HoldsPin, Joins
  <1> QED BY <1>1, <1>3

(* A thread goes on with what it owns. *)
LEMMA ActiveKept ==
    ASSUME NEW t \in Threads, SameCall(local[t], local'[t]), CopiesToFlush(t),
           \/ pc[t] = "read" /\ pc'[t] = "loaded"
           \/ pc[t] = "extend" /\ pc'[t] = "extended"
           \/ pc[t] \in {"copy"} \cup IoLabels /\ pc'[t] \in IoLabels
    PROVE  Kept(t) /\ PinKept(t)
  <1>1. Kept(t)
    BY DEF SameCall, Kept, Reads, Intends, Evicts, Holds, Builds, Creates, Flushes, Closes,
           CopiesToFlush, IoLabels, Requests, Fetches
  <1>2. PinKept(t)
    BY DEF PinKept, HoldsPin, Joins, IoLabels
  <1> QED BY <1>1, <1>2

GuardLabels == {"latch", "reading", "writing", "edited", "unpin"}

LEMMA GuardKept ==
    ASSUME NEW t \in Threads, pc[t] \in GuardLabels, pc'[t] \in GuardLabels,
           SameCall(local[t], local'[t])
    PROVE  Kept(t) /\ PinKept(t)
  <1>1. Kept(t)
    BY DEF GuardLabels, Kept, Reads, Intends, Evicts, Holds, Builds, Creates, Flushes, Closes,
           CopiesToFlush, Busy, IoLabels
  <1>2. PinKept(t)
    BY DEF GuardLabels, PinKept, HoldsPin, Joins, SameCall
  <1> QED BY <1>1, <1>2

LEMMA UnchangedPool ==
    ASSUME TInv, UNCHANGED poolVars
    PROVE  QuietPool
  BY DEF poolVars, QuietPool, SameBindings, EntryKept

(* The image in frame f changes, and f may become dirty if it is pinned. *)
LEMMA ImagePool ==
    ASSUME TInv, NEW f \in Frames, NEW r, UNCHANGED <<free_list, page_table, files>>,
           frames' = [frames EXCEPT ![f] = r],
           r.state = frames[f].state, r.page = frames[f].page, r.pin = frames[f].pin,
           r.io = frames[f].io, (r.dirty = frames[f].dirty) \/ (r.dirty /\ frames[f].pin # 0)
    PROVE  QuietPool
  <1>1. \A g \in Frames : frames'[g] = IF g = f THEN r ELSE frames[g]
    BY DEF TInv, PoolOK
  <1> QED BY <1>1 DEF QuietPool, SameBindings, EntryKept

LEMMA FetchOwns ==
    ASSUME TInv, TInv', OwnershipInv, FlushesBehindGate, NEW t \in Threads,
           FetchRefused(t) \/ AwaitEviction(t) \/ JoinWake(t)
    PROVE  OwnershipInv'
  <1>1. UNCHANGED poolVars
    BY DEF FetchRefused, AwaitEviction, JoinWake
  <1>2. QuietPool
    BY <1>1, UnchangedPool
  <1>3. CASE FetchRefused(t)
    <2>1. Alone(t) /\ pc'[t] = "idle" /\ pc[t] = "pin"
      BY <1>3, Returns DEF FetchRefused, At
    <2> QED BY <1>2, <2>1, PassiveKept, QuietAction DEF PassiveLabels
  <1>4. CASE UNCHANGED <<pc, local>>
    BY <1>2, <1>4, OtherPinKept, QuietAction DEF Alone
  <1>5. CASE JoinWake(t) /\ local[t].load = "FAILED" /\ Return(t, "error")
    <2>1. Alone(t) /\ pc'[t] = "idle" /\ pc[t] = "join"
      BY <1>5, Returns DEF JoinWake, At
    <2> QED BY <1>2, <1>5, <2>1, PassiveKept, QuietAction DEF PassiveLabels
  <1>6. CASE /\ JoinWake(t) /\ local[t].load \in Frames /\ Goto(t, "latch")
             /\ local' = [local EXCEPT ![t] = [@ EXCEPT !.frame = local[t].load, !.load = "NONE"]]
    <2> DEFINE r == [local[t] EXCEPT !.frame = local[t].load, !.load = "NONE"]
    <2>1. r.page = local[t].page /\ r.frame = local[t].load
      BY LocalFacts DEF Local
    <2> HIDE DEF r
    <2>2. Alone(t) /\ pc'[t] = "latch" /\ local'[t] = r
      BY <1>6, OnlyMoves DEF Goto, r
    <2>3. pc[t] = "join" /\ local[t].load # "PENDING"
      BY <1>6, ConstantsAssumption DEF JoinWake, At
    <2>4. Kept(t)
      BY <2>2, <2>3 DEF Kept, Reads, Intends, Evicts, Holds, Builds, Creates, Flushes, Closes,
           CopiesToFlush, Busy, IoLabels
    <2>5. PinKept(t)
      BY <2>1, <2>2, <2>3 DEF PinKept, HoldsPin, Joins
    <2> QED BY <1>2, <2>2, <2>4, <2>5, QuietAction
  <1> QED BY <1>3, <1>4, <1>5, <1>6 DEF AwaitEviction, JoinWake

(* The I/O steps of a load, of a new page and of a writeback. *)
LEMMA IoOwns ==
    ASSUME TInv, TInv', OwnershipInv, FlushesBehindGate, NEW t \in Threads,
           \/ ReadPage(t) \/ ReserveNewPageNo(t) \/ CopyImage(t) \/ WriteImage(t) \/ SyncFile(t)
    PROVE  OwnershipInv'
  <1>0. CopiesToFlush(t)
    BY DEF OwnershipInv, Structure, ThreadsOwn, ThreadOwns
  <1>1. local[t] \in Local /\ (pc[t] = "read" => local[t].frame \in Frames)
    BY LocalFacts DEF Busy, Reads
  <1>2. CASE ReadPage(t)
    <2>1. PICK ok \in BOOLEAN :
             /\ frames' = [frames EXCEPT ![local[t].frame].ver =
                                             IF ok THEN cache[local[t].page] ELSE -1]
             /\ local' = [local EXCEPT ![t].ok = ok]
      BY <1>2 DEF ReadPage, MayFail
    <2> DEFINE f == local[t].frame
               x == IF ok THEN cache[local[t].page] ELSE -1
               r == [frames[f] EXCEPT !.ver = x]
               m == [local[t] EXCEPT !.ok = ok]
    <2>2. pc[t] = "read" /\ f \in Frames /\ Goto(t, "loaded")
      BY <1>1, <1>2 DEF ReadPage, At
    <2>3. SameCall(local[t], m)
      BY <1>1 DEF SameCall, Local
    <2>4. /\ r.state = frames[f].state /\ r.page = frames[f].page /\ r.pin = frames[f].pin
          /\ r.io = frames[f].io /\ r.dirty = frames[f].dirty
      BY <2>2 DEF TInv, PoolOK, Frame
    <2>5. frames' = [frames EXCEPT ![f] = r] /\ local' = [local EXCEPT ![t] = m]
      BY <2>1
    <2> HIDE DEF r, m
    <2>6. QuietPool
      BY <1>2, <2>2, <2>4, <2>5, ImagePool DEF ReadPage
    <2>7. Alone(t) /\ pc'[t] = "loaded" /\ local'[t] = m
      BY <2>2, <2>5, OnlyMoves DEF Goto
    <2> QED BY <1>0, <2>2, <2>3, <2>6, <2>7, ActiveKept, QuietAction
  <1>3. ASSUME NEW m, NEW l, UNCHANGED poolVars, pc' = [pc EXCEPT ![t] = l],
               local' = [local EXCEPT ![t] = m], SameCall(local[t], m),
               \/ pc[t] = "extend" /\ l = "extended"
               \/ pc[t] \in {"copy"} \cup IoLabels /\ l \in IoLabels
        PROVE  OwnershipInv'
    <2>1. QuietPool
      BY <1>3, UnchangedPool
    <2>2. Alone(t) /\ pc'[t] = l /\ local'[t] = m
      BY <1>3, OnlyMoves
    <2> QED BY <1>0, <1>3, <2>1, <2>2, ActiveKept, QuietAction
  <1>4. ASSUME NEW ok PROVE SameCall(local[t], [local[t] EXCEPT !.ok = ok])
    BY <1>1 DEF SameCall, Local
  <1>5. ASSUME NEW ok, NEW n PROVE SameCall(local[t], [local[t] EXCEPT !.ok = ok, !.count = n])
    BY <1>1 DEF SameCall, Local
  <1>6. ASSUME NEW v, NEW g PROVE SameCall(local[t], [local[t] EXCEPT !.img = v, !.gen = g])
    BY <1>1 DEF SameCall, Local
  <1>7. CASE ReserveNewPageNo(t)
    <2>1. PICK ok, n : \/ local' = [local EXCEPT ![t] = [@ EXCEPT !.ok = ok]]
                       \/ local' = [local EXCEPT ![t] = [@ EXCEPT !.ok = ok, !.count = n]]
      BY <1>7, ZenonT(30) DEF ReserveNewPageNo
    <2>2. /\ UNCHANGED poolVars /\ pc' = [pc EXCEPT ![t] = "extended"] /\ pc[t] = "extend"
      BY <1>7 DEF ReserveNewPageNo, At, Goto
    <2>3. CASE local' = [local EXCEPT ![t] = [@ EXCEPT !.ok = ok]]
      BY <2>2, <2>3, <1>3, <1>4
    <2>4. CASE local' = [local EXCEPT ![t] = [@ EXCEPT !.ok = ok, !.count = n]]
      BY <2>2, <2>4, <1>3, <1>5
    <2> QED BY <2>1, <2>3, <2>4
  <1>8. CASE CopyImage(t)
    BY <1>8, <1>3, <1>6 DEF CopyImage, At, Goto, IoLabels
  <1>9. CASE WriteImage(t)
    <2>1. CASE Goto(t, "sync") /\ UNCHANGED local
      <3>1. SameCall(local[t], local[t]) /\ local' = [local EXCEPT ![t] = local[t]]
        BY <2>1 DEF SameCall, TInv, ControlOK
      <3> QED BY <1>9, <2>1, <3>1, <1>3 DEF WriteImage, At, Goto, IoLabels
    <2>2. CASE Goto(t, "wrote") /\ local' = [local EXCEPT ![t].ok = FALSE]
      BY <1>9, <2>2, <1>3, <1>4 DEF WriteImage, At, Goto, IoLabels
    <2> QED BY <1>9, <2>1, <2>2 DEF WriteImage
  <1>10. CASE SyncFile(t)
    BY <1>10, <1>3, <1>4 DEF SyncFile, At, Goto, IoLabels
  <1> QED BY <1>2, <1>7, <1>8, <1>9, <1>10

(* Guards: the latch, edits and their publication. *)
LEMMA GuardOwns ==
    ASSUME TInv, TInv', OwnershipInv, FlushesBehindGate, NEW t \in Threads,
           Latch(t) \/ Edit(t) \/ MarkDirty(t) \/ ReleaseLatch(t)
    PROVE  OwnershipInv'
  <1> DEFINE f == local[t].frame
  <1>1. PICK l \in GuardLabels : Goto(t, l)
    BY DEF Latch, Edit, MarkDirty, ReleaseLatch, GuardLabels
  <1>2. pc[t] \in GuardLabels /\ UNCHANGED <<local, free_list, page_table, files>>
    BY DEF Latch, Edit, MarkDirty, ReleaseLatch, GuardLabels, At, poolVars
  <1>3. f \in Frames /\ HoldsPin(t, f)
    BY <1>2 DEF TInv, ControlOK, ThreadOK, FrameLabels, GuardLabels, HoldsPin
  <1>4. frames[f].pin # 0
    BY <1>3, NotPinned DEF OwnershipInv, Pinners
  <1>5. QuietPool
    <2>1. CASE UNCHANGED frames
      BY <2>1, <1>2, UnchangedPool DEF poolVars
    <2>2. CASE Edit(t)
      <3> DEFINE r == [frames[f] EXCEPT !.ver = frames[f].ver + 1]
      <3>1. /\ r.state = frames[f].state /\ r.page = frames[f].page /\ r.pin = frames[f].pin
            /\ r.io = frames[f].io /\ r.dirty = frames[f].dirty
        BY <1>3 DEF TInv, PoolOK, Frame
      <3>2. frames' = [frames EXCEPT ![f] = r]
        BY <2>2 DEF Edit
      <3> HIDE DEF r
      <3> QED BY <1>2, <1>3, <3>1, <3>2, ImagePool
    <2>3. CASE MarkDirty(t)
      <3> DEFINE r == [frames[f] EXCEPT !.gen = frames[f].gen + 1, !.dirty = TRUE]
      <3>1. /\ r.state = frames[f].state /\ r.page = frames[f].page /\ r.pin = frames[f].pin
            /\ r.io = frames[f].io /\ r.dirty
        BY <1>3 DEF TInv, PoolOK, Frame
      <3>2. frames' = [frames EXCEPT ![f] = r]
        BY <2>3 DEF MarkDirty
      <3> HIDE DEF r
      <3> QED BY <1>2, <1>3, <1>4, <3>1, <3>2, ImagePool
    <2> QED BY <2>1, <2>2, <2>3 DEF Latch, ReleaseLatch, poolVars
  <1>6. Alone(t) /\ pc'[t] = l /\ local'[t] = local[t]
    BY <1>1, <1>2, Moves
  <1> QED BY <1>2, <1>5, <1>6, GuardKept, QuietAction DEF SameCall

-----------------------------------------------------------------------------
(* Steps that take or give a pin, or a claim.                               *)

LEMMA PinResidentOwns ==
    ASSUME TInv, TInv', OwnershipInv, FlushesBehindGate, NEW t \in Threads, PinResident(t)
    PROVE  OwnershipInv'
  <1>0. Structure /\ Pins /\ ClosesDrained
    BY DEF OwnershipInv
  <1>1. PICK p \in PageId, f \in Frames : p = local[t].page /\ f = page_table[p].frame
    BY LocalFacts DEF PinResident, At, TInv, PoolOK, Entry
  <1>2. /\ Fetchable(p) /\ page_table[p].state = "RESIDENT" /\ frames[f].pin < MaxPins
        /\ pc[t] = "pin" /\ UNCHANGED <<free_list, page_table, files>>
        /\ Goto(t, "latch") /\ local' = [local EXCEPT ![t].frame = f]
        /\ frames' = [frames EXCEPT ![f].pin = @ + 1]
    BY <1>1 DEF PinResident, At
  <1>3. frames[f].page = p /\ frames[f].state = "RESIDENT"
    BY <1>1, <1>2, <1>0, MappedFrame DEF Maps
  <1>4. /\ \A g \in Frames \ {f} : frames'[g] = frames[g]
        /\ frames'[f].state = frames[f].state /\ frames'[f].page = frames[f].page
        /\ frames'[f].io = frames[f].io /\ frames'[f].dirty = frames[f].dirty
        /\ frames'[f].pin = frames[f].pin + 1
    BY <1>2 DEF TInv, PoolOK, Frame
  <1>5. Alone(t) /\ pc'[t] = "latch" /\ local'[t].frame = f /\ local'[t].page = p
    <2> DEFINE r == [local[t] EXCEPT !.frame = f]
    <2>1. r.frame = f /\ r.page = p
      BY <1>1, LocalFacts DEF Local
    <2> HIDE DEF r
    <2> QED BY <1>2, <2>1, OnlyMoves, ZenonT(30) DEF Goto, r
  <1>6. \A u \in Threads \ {t} : Kept(u) /\ PinKept(u)
    BY <1>5, OtherPinKept DEF Alone
  <1>7. Kept(t)
    BY <1>2, <1>5 DEF Kept, Reads, Intends, Evicts, Holds, Builds, Creates, Flushes, Closes,
           CopiesToFlush, Busy, IoLabels
  <1>8. SameBindings
    BY <1>2, <1>4 DEF SameBindings, EntryKept
  <1>9. Structure' /\ PoolKept({}, {})
    BY <1>0, <1>6, <1>7, <1>8, SameBindingsStep
  <1>10. /\ \A g \in Frames \ {f} : Pinners(g)' = Pinners(g) /\ t \notin Pinners(g)
         /\ Pinners(f)' = Pinners(f) \cup {t} /\ t \notin Pinners(f)
         /\ \A q \in PageId : Joiners(q)' = Joiners(q)
    <2>1. \A g \in Frames : ~HoldsPin(t, g) /\ (HoldsPin(t, g)' <=> g = f)
      BY <1>2, <1>5 DEF HoldsPin
    <2>2. \A q \in PageId : ~Joins(t, q) /\ ~Joins(t, q)'
      BY <1>2, <1>5 DEF Joins
    <2>3. ASSUME NEW q \in PageId PROVE Joiners(q)' = Joiners(q)
      BY <2>2, <1>6 DEF PinKept, Joiners, Joins
    <2>4. ASSUME NEW g \in Frames \ {f} PROVE Pinners(g)' = Pinners(g) /\ t \notin Pinners(g)
      BY <2>1, <1>6 DEF PinKept, Pinners
    <2>5. Pinners(f)' = Pinners(f) \cup {t} /\ t \notin Pinners(f)
      BY <2>1, <1>6 DEF PinKept, Pinners
    <2> QED BY <2>3, <2>4, <2>5
  <1>11. PinsKept({f}, {})
    <2>1. ASSUME NEW g \in Frames, NEW u \in Pinners(g) PROVE local'[u].page = local[u].page
      BY <2>1, <1>6, <1>10 DEF PinKept, Pinners
    <2> QED BY <2>1, <1>2, <1>4, <1>10 DEF PinsKept
  <1>12. PinFit(f)'
    <2>1. PinFit(f) /\ IsFiniteSet(Pinners(f)) /\ Cardinality(Pinners(f)) \in Nat
      BY <1>0, FiniteThreads DEF Pins, Pinners
    <2>2. Cardinality(Pinners(f)') = Cardinality(Pinners(f)) + 1
      BY <2>1, <1>10, FS_AddElement
    <2>3. MaxPins \in Nat
      BY ConstantsAssumption
    <2> QED BY <2>1, <2>2, <2>3, <1>2, <1>4 DEF PinFit
  <1>13. PinBound(f)'
    <2>1. ASSUME NEW u \in Pinners(f)'
          PROVE frames[f].page = local'[u].page /\ page_table[local'[u].page].frame = f
      <3>1. CASE u = t
        BY <3>1, <1>1, <1>3, <1>5
      <3>2. CASE u # t
        <4>1. u \in Pinners(f) /\ local'[u].page = local[u].page
          BY <2>1, <3>2, <1>10, <1>5 DEF Alone, Pinners
        <4> QED BY <4>1, <1>0 DEF Pins, PinBound
      <3> QED BY <3>1, <3>2
    <2> QED BY <2>1, <1>2, <1>3, <1>4 DEF PinBound
  <1>14. Pins'
    BY <1>0, <1>11, <1>12, <1>13, PinsStep
  <1>15. ClosingKept({})
    BY <1>2, <1>3, <1>4 DEF ClosingKept, Fetchable
  <1>16. ClosesDrained'
    BY <1>0, <1>6, <1>7, <1>8, <1>9, <1>15, CloserKept, ClosingStep
  <1> QED BY <1>9, <1>14, <1>16 DEF OwnershipInv

LEMMA UnpinOwns ==
    ASSUME TInv, TInv', OwnershipInv, FlushesBehindGate, NEW t \in Threads, Unpin(t)
    PROVE  OwnershipInv'
  <1>0. Structure /\ Pins /\ ClosesDrained
    BY DEF OwnershipInv
  <1>1. PICK f \in Frames : f = local[t].frame
    BY DEF Unpin, At, TInv, ControlOK, ThreadOK, FrameLabels
  <1>2. /\ pc[t] = "unpin" /\ UNCHANGED <<free_list, page_table, files>> /\ Return(t, "ok")
        /\ frames' = [frames EXCEPT ![f].pin = IF @ = 0 THEN 0 ELSE @ - 1]
    BY <1>1 DEF Unpin, At
  <1>3. Alone(t) /\ pc'[t] = "idle"
    BY <1>2, Returns
  <1>4. \A u \in Threads \ {t} : Kept(u) /\ PinKept(u)
    BY <1>3, OtherPinKept DEF Alone
  <1>5. Kept(t)
    BY <1>2, <1>3 DEF Kept, Reads, Intends, Evicts, Holds, Builds, Creates, Flushes, Closes,
           CopiesToFlush, Busy, IoLabels
  <1>6. /\ \A g \in Frames \ {f} : Pinners(g)' = Pinners(g) /\ t \notin Pinners(g)
        /\ Pinners(f)' = Pinners(f) \ {t} /\ t \in Pinners(f)
        /\ \A q \in PageId : Joiners(q)' = Joiners(q)
    <2>1. \A g \in Frames : ~HoldsPin(t, g)' /\ (HoldsPin(t, g) <=> g = f)
      BY <1>1, <1>2, <1>3 DEF HoldsPin
    <2>2. \A q \in PageId : ~Joins(t, q) /\ ~Joins(t, q)'
      BY <1>2, <1>3 DEF Joins
    <2>3. ASSUME NEW q \in PageId PROVE Joiners(q)' = Joiners(q)
      BY <2>2, <1>4 DEF PinKept, Joiners, Joins
    <2>4. ASSUME NEW g \in Frames \ {f} PROVE Pinners(g)' = Pinners(g) /\ t \notin Pinners(g)
      BY <2>1, <1>4 DEF PinKept, Pinners
    <2>5. Pinners(f)' = Pinners(f) \ {t} /\ t \in Pinners(f)
      BY <2>1, <1>4 DEF PinKept, Pinners
    <2> QED BY <2>3, <2>4, <2>5
  <1>7. PinFit(f) /\ IsFiniteSet(Pinners(f)) /\ Cardinality(Pinners(f)) \in Nat
        /\ Cardinality(Pinners(f)) # 0
    BY <1>0, <1>6, FiniteThreads DEF Pins, Pinners
  <1>8. /\ \A g \in Frames \ {f} : frames'[g] = frames[g]
        /\ frames'[f].state = frames[f].state /\ frames'[f].page = frames[f].page
        /\ frames'[f].io = frames[f].io /\ frames'[f].dirty = frames[f].dirty
        /\ frames'[f].pin = frames[f].pin - 1
    BY <1>2, <1>7 DEF TInv, PoolOK, Frame, PinFit
  <1>9. SameBindings
    BY <1>2, <1>8 DEF SameBindings, EntryKept
  <1>10. Structure' /\ PoolKept({}, {})
    BY <1>0, <1>4, <1>5, <1>9, SameBindingsStep
  <1>11. PinsKept({f}, {})
    <2>1. ASSUME NEW g \in Frames \ {f}, NEW u \in Pinners(g) PROVE local'[u].page = local[u].page
      BY <2>1, <1>4, <1>6 DEF PinKept, Pinners
    <2> QED BY <2>1, <1>2, <1>8, <1>6 DEF PinsKept
  <1>12. PinFit(f)'
    <2>1. Cardinality(Pinners(f)') = Cardinality(Pinners(f)) - 1
      BY <1>6, <1>7, FS_RemoveElement
    <2>2. MaxPins \in Nat
      BY ConstantsAssumption
    <2> QED BY <2>1, <2>2, <1>7, <1>8 DEF PinFit
  <1>13. PinBound(f)'
    <2>1. ASSUME NEW u \in Pinners(f)'
          PROVE u \in Pinners(f) /\ local'[u].page = local[u].page
      BY <2>1, <1>3, <1>6 DEF Alone, Pinners
    <2> QED BY <2>1, <1>0, <1>2, <1>8 DEF Pins, PinBound
  <1>14. Pins'
    BY <1>0, <1>11, <1>12, <1>13, PinsStep
  <1>15. ClosingKept({})
    <2>1. frames[f].pin # 0
      BY <1>7 DEF PinFit
    <2> QED BY <2>1, <1>2, <1>8 DEF ClosingKept
  <1>16. ClosesDrained'
    BY <1>0, <1>4, <1>5, <1>9, <1>10, <1>15, CloserKept, ClosingStep
  <1> QED BY <1>10, <1>14, <1>16 DEF OwnershipInv

LEMMA JoinLoadOwns ==
    ASSUME TInv, TInv', OwnershipInv, FlushesBehindGate, NEW t \in Threads, JoinLoad(t)
    PROVE  OwnershipInv'
  <1>0. Structure /\ Pins /\ ClosesDrained
    BY DEF OwnershipInv
  <1>1. PICK p \in PageId : p = local[t].page
    BY LocalFacts DEF JoinLoad, At
  <1>2. /\ Loading(p) /\ page_table[p].claims \in 1..(MaxPins - 1)
        /\ pc[t] = "pin" /\ UNCHANGED <<frames, free_list, files>>
        /\ Goto(t, "join") /\ local' = [local EXCEPT ![t].load = "PENDING"]
        /\ page_table' = [page_table EXCEPT ![p].claims = @ + 1]
    BY <1>1 DEF JoinLoad, At
  <1>3. /\ \A q \in PageId \ {p} : page_table'[q] = page_table[q]
        /\ page_table'[p].state = page_table[p].state /\ page_table'[p].frame = page_table[p].frame
        /\ page_table'[p].claims = page_table[p].claims + 1
        /\ page_table[p].claims \in Nat \ {0}
    BY <1>2 DEF TInv, PoolOK, Entry
  <1>4. Alone(t) /\ pc'[t] = "join" /\ local'[t].load = "PENDING" /\ local'[t].page = p
    <2> DEFINE r == [local[t] EXCEPT !.load = "PENDING"]
    <2>1. r.load = "PENDING" /\ r.page = p
      BY <1>1, LocalFacts DEF Local
    <2> HIDE DEF r
    <2> QED BY <1>2, <2>1, OnlyMoves DEF Goto, r
  <1>5. \A u \in Threads \ {t} : Kept(u) /\ PinKept(u)
    BY <1>4, OtherPinKept DEF Alone
  <1>6. Kept(t)
    BY <1>2, <1>4 DEF Kept, Reads, Intends, Evicts, Holds, Builds, Creates, Flushes, Closes,
           CopiesToFlush, Busy, IoLabels
  <1>7. SameBindings
    BY <1>2, <1>3 DEF SameBindings, EntryKept
  <1>8. Structure' /\ PoolKept({}, {})
    BY <1>0, <1>5, <1>6, <1>7, SameBindingsStep
  <1>9. /\ \A g \in Frames : Pinners(g)' = Pinners(g) /\ t \notin Pinners(g)
        /\ \A q \in PageId \ {p} : Joiners(q)' = Joiners(q)
        /\ Joiners(p)' = Joiners(p) \cup {t} /\ t \notin Joiners(p)
    <2>1. \A g \in Frames : ~HoldsPin(t, g) /\ ~HoldsPin(t, g)'
      BY <1>2, <1>4, ConstantsAssumption DEF HoldsPin
    <2>2. \A q \in PageId : ~Joins(t, q) /\ (Joins(t, q)' <=> q = p)
      BY <1>2, <1>4 DEF Joins
    <2>3. ASSUME NEW q \in PageId \ {p} PROVE Joiners(q)' = Joiners(q)
      BY <2>2, <1>5 DEF PinKept, Joiners, Joins
    <2>4. Joiners(p)' = Joiners(p) \cup {t} /\ t \notin Joiners(p)
      BY <2>2, <1>5 DEF PinKept, Joiners, Joins
    <2>5. ASSUME NEW g \in Frames PROVE Pinners(g)' = Pinners(g) /\ t \notin Pinners(g)
      BY <2>1, <1>5 DEF PinKept, Pinners
    <2> QED BY <2>3, <2>4, <2>5
  <1>10. PinsKept({}, {p})
    <2>1. ASSUME NEW g \in Frames, NEW u \in Pinners(g) PROVE local'[u].page = local[u].page
      BY <2>1, <1>5, <1>9 DEF PinKept, Pinners
    <2> QED BY <2>1, <1>2, <1>3, <1>9 DEF PinsKept, Loading
  <1>11. ClaimsFit(p)'
    <2>1. ClaimsFit(p) /\ IsFiniteSet(Joiners(p)) /\ Cardinality(Joiners(p)) \in Nat
      BY <1>0, FiniteThreads DEF Pins, Joiners
    <2>2. Cardinality(Joiners(p)') = Cardinality(Joiners(p)) + 1
      BY <2>1, <1>9, FS_AddElement
    <2>3. Loading(p)'
      BY <1>2, <1>3 DEF Loading
    <2>4. MaxPins \in Nat
      BY ConstantsAssumption
    <2> QED BY <2>1, <2>2, <2>3, <2>4, <1>2, <1>3 DEF ClaimsFit
  <1>12. Pins'
    BY <1>0, <1>10, <1>11, PinsStep
  <1>13. ClosingKept({})
    BY <1>2 DEF ClosingKept
  <1>14. ClosesDrained'
    BY <1>0, <1>5, <1>6, <1>7, <1>8, <1>13, CloserKept, ClosingStep
  <1> QED BY <1>8, <1>12, <1>14 DEF OwnershipInv

-----------------------------------------------------------------------------
(* Steps that rebind frames.                                                *)

(* A load u has joined may be resolved, if its page is in Q. *)
Follows(u, F, Q) ==
    /\ pc'[u] = pc[u]
    /\ SameCall(local[u], local'[u])
    /\ \/ local'[u].load = local[u].load
       \/ Joins(u, local[u].page) /\ local[u].page \in Q /\ local'[u].load \in F \cup {"FAILED"}

(* Only t's own turn and bound change, when it takes its turn or has it. *)
FilesKept(t) ==
    \A d \in Files :
       /\ files'[d].state = files[d].state
       /\ \/ files'[d].published = files[d].published /\ files'[d].creating = files[d].creating
          \/ /\ d = local[t].file
             /\ files'[d].published >= files[d].published
             /\ Creates(t) \/ (~files[d].creating /\ files[d].state = "ACTIVE")

NoPinLabels == Labels \ (GuardLabels \cup {"join"})

(* Thread t rebinds the frames of F and the pages of Q, which are nobody else's. *)
Rebinds(t, F, Q) ==
    /\ F \subseteq Frames /\ Q \subseteq PageId
    /\ \A g \in Frames \ F : frames'[g] = frames[g] /\ (g \in free_list' <=> g \in free_list)
    /\ \A q \in PageId \ Q : page_table'[q] = page_table[q]
    /\ \A g \in F : frames[g].page \in Q \cup {NoPage}
    /\ \A q \in Q :
          page_table[q].state \in {"LOADING", "RESIDENT", "EVICTING"} => page_table[q].frame \in F
    /\ \A q \in Q : NotToClose(q)
    /\ \A u \in Threads \ {t} : /\ Follows(u, F, Q)
                                /\ \A g \in F : AvoidsFrame(u, g)
                                /\ \A q \in Q : AvoidsPage(u, q)
    /\ pc[t] \in NoPinLabels
    /\ pc'[t] \in NoPinLabels \/ (pc'[t] = "latch" /\ local'[t].frame \in F)
    /\ ~Closes(t)'
    /\ FilesKept(t)

(* ... and afterwards they fit together. *)
Rebound(F, Q) ==
    /\ \A g \in F : FrameBound(g) /\ PinFit(g) /\ PinBound(g)
    /\ \A q \in Q : EntryBound(q) /\ Below(q) /\ ClaimsFit(q)

LEMMA FollowsPins ==
    ASSUME NEW u \in Threads, NEW F, NEW Q, Follows(u, F, Q)
    PROVE  /\ \A g \in Frames \ F : HoldsPin(u, g)' <=> HoldsPin(u, g)
           /\ \A q \in PageId \ Q : Joins(u, q)' <=> Joins(u, q)
           /\ local'[u].page = local[u].page
  <1>1. \A g \in Frames : g # "FAILED" /\ g # "PENDING"
    BY ConstantsAssumption
  <1>2. ASSUME NEW g \in Frames \ F PROVE HoldsPin(u, g)' <=> HoldsPin(u, g)
    BY <1>1 DEF Follows, SameCall, HoldsPin, Joins
  <1>3. ASSUME NEW q \in PageId \ Q PROVE Joins(u, q)' <=> Joins(u, q)
    BY DEF Follows, SameCall, Joins
  <1> QED BY <1>2, <1>3 DEF Follows, SameCall

LEMMA RebindStep ==
    ASSUME TInv, TInv', OwnershipInv, FlushesBehindGate, NEW t \in Threads, NEW F, NEW Q,
           Rebinds(t, F, Q), Takes(t, F, Q), ThreadOwns(t)', Rebound(F, Q)'
    PROVE  OwnershipInv'
  <1>0. Structure /\ Pins /\ ClosesDrained
    BY DEF OwnershipInv
  <1>1. PoolKept(F, Q)
    <2>1. ASSUME NEW q \in PageId PROVE files'[q.file].published >= files[q.file].published
      <3>1. q.file \in Files
        BY PageIdFields
      <3>2. files[q.file].published \in Nat
        BY <3>1 DEF TInv, PoolOK, FileEntry
      <3> QED BY <3>1, <3>2 DEF Rebinds, FilesKept
    <2> QED BY <2>1 DEF Rebinds, PoolKept, FrameKept, EntryKept
  <1>2. ASSUME NEW u \in Threads \ {t} PROVE OwnerKept(u, F, Q)
    <2>1. ThreadOwns(u) /\ ThreadOwns(t)
      BY <1>0 DEF Structure, ThreadsOwn
    <2>2. Kept(u)
      BY ThreadKept DEF Rebinds, Follows
    <2>3. Flushes(u) => frames'[local[u].frame] = frames[local[u].frame]
      BY LocalFacts DEF Rebinds, AvoidsFrame, Busy
    <2>4. Creates(u) => /\ files'[local[u].file].creating
                        /\ files'[local[u].file].published = files[local[u].file].published
      <3>1. SUFFICES ASSUME Creates(u)
                     PROVE  /\ files'[local[u].file].creating
                            /\ files'[local[u].file].published = files[local[u].file].published
        OBVIOUS
      <3>2. local[u].file \in Files /\ files[local[u].file].creating
        BY <3>1, <2>1, LocalFacts DEF ThreadOwns
      <3>3. ~(Creates(t) /\ local[t].file = local[u].file)
        BY <3>1, <1>0 DEF Structure, ThreadsApart
      <3> QED BY <3>2, <3>3 DEF Rebinds, FilesKept
    <2> QED BY <2>1, <2>2, <2>3, <2>4 DEF OwnerKept, ThreadOwns, Rebinds
  <1>3. ClosedOwnsNothing'
    <2>1. ASSUME NEW d \in Files, files'[d].state = "CLOSED"
          PROVE  /\ ~files'[d].creating
                 /\ \A p \in PageId : p.file = d => page_table'[p].state = "ABSENT"
      <3>1. files[d].state = "CLOSED"
        BY <2>1 DEF Rebinds, FilesKept
      <3>2. /\ ~files[d].creating
            /\ \A p \in PageId : p.file = d => page_table[p].state = "ABSENT"
        BY <1>0, <3>1 DEF Structure, ClosedOwnsNothing
      <3>3. Creates(t) => files[local[t].file].creating
        BY <1>0 DEF Structure, ThreadsOwn, ThreadOwns
      <3>4. ~files'[d].creating
        BY <3>1, <3>2, <3>3 DEF Rebinds, FilesKept
      <3>5. ASSUME NEW p \in PageId, p.file = d PROVE page_table'[p].state = "ABSENT"
        BY <3>1, <3>2, <3>5 DEF Rebinds, NotToClose
      <3> QED BY <3>4, <3>5
    <2> QED BY <2>1 DEF ClosedOwnsNothing
  <1>4. Structure'
    <2>1. OthersKept(t, F, Q)
      BY <1>2 DEF OthersKept
    <2> QED BY <1>0, <1>1, <1>3, <2>1, StructureStep DEF Rebound
  <1>5. PinsKept(F, Q)
    <2>1. /\ \A g \in Frames \ F : ~HoldsPin(t, g) /\ ~HoldsPin(t, g)'
          /\ \A q \in PageId : ~Joins(t, q) /\ ~Joins(t, q)'
      BY DEF Rebinds, NoPinLabels, GuardLabels, HoldsPin, Joins
    <2>2. \A u \in Threads \ {t} : Follows(u, F, Q)
      BY DEF Rebinds
    <2>3. ASSUME NEW g \in Frames \ F
          PROVE  Pinners(g)' = Pinners(g) /\ \A u \in Pinners(g) : local'[u].page = local[u].page
      BY <2>1, <2>2, FollowsPins DEF Pinners
    <2>4. ASSUME NEW q \in PageId \ Q PROVE Joiners(q)' = Joiners(q)
      <3>1. \A u \in Threads : Joins(u, q)' <=> Joins(u, q)
        BY <2>1, <2>2, FollowsPins
      <3> QED BY <3>1 DEF Joiners, Joins
    <2> QED BY <2>3, <2>4 DEF Rebinds, PinsKept
  <1>6. Pins'
    BY <1>0, <1>5, PinsStep DEF Rebound
  <1>7. ClosingKept(F)
    <2>1. Creates(t) => files[local[t].file].creating
      BY <1>0 DEF Structure, ThreadsOwn, ThreadOwns
    <2> QED BY <2>1 DEF Rebinds, FilesKept, ClosingKept
  <1>8. ClosesDrained'
    BY <1>0, <1>1, <1>2, <1>7, ClosingStep DEF OwnerKept, Rebinds
  <1> QED BY <1>4, <1>6, <1>8 DEF OwnershipInv

(* The page a frame is bound to. *)
LEMMA BoundPage ==
    ASSUME TInv, Structure, NEW f \in Frames, NEW v \in PageId, frames[f].page = v
    PROVE  /\ page_table[v].frame = f /\ page_table[v].state = frames[f].state
           /\ frames[f].state \in {"LOADING", "RESIDENT", "EVICTING"} /\ f \notin free_list
  <1>1. FrameBound(f) /\ v # NoPage
    BY PageIdFields DEF Structure, FramesBound
  <1>2. frames[f].state \in {"FREE", "LOADING", "RESIDENT", "EVICTING"}
    BY DEF TInv, PoolOK, Frame
  <1> QED BY <1>1, <1>2 DEF FrameBound, Maps

LEMMA AloneFollows ==
    ASSUME NEW t \in Threads, Alone(t), NEW F, NEW Q
    PROVE  \A u \in Threads \ {t} : Follows(u, F, Q) /\ local'[u].load = local[u].load
  BY DEF Alone, Follows, SameCall

(* A frame of F that nobody pinned and nobody is given. *)
LEMMA UnpinnedRebound ==
    ASSUME TInv, Pins, NEW t \in Threads, NEW F, NEW Q, Rebinds(t, F, Q), NEW g \in F,
           frames[g].state # "RESIDENT" \/ frames[g].pin = 0, frames'[g].pin = 0,
           pc'[t] \in NoPinLabels,
           \A u \in Threads \ {t} : local'[u].load \in {local[u].load, "FAILED"}
    PROVE  PinFit(g)' /\ PinBound(g)'
  <1>1. g \in Frames /\ Pinners(g) = {}
    BY NotPinned DEF Rebinds
  <1>2. ~HoldsPin(t, g)'
    BY DEF HoldsPin, NoPinLabels, GuardLabels
  <1>3. g # "FAILED"
    BY <1>1, ConstantsAssumption
  <1>4. \A u \in Threads \ {t} : HoldsPin(u, g)' => HoldsPin(u, g)
    BY <1>3 DEF Rebinds, Follows, SameCall, HoldsPin
  <1>5. Pinners(g)' = {}
    BY <1>1, <1>2, <1>4 DEF Pinners
  <1> QED BY <1>1, <1>5, UnpinnedAfter

(* A page of Q whose load nobody had joined, or has failed. *)
LEMMA UnjoinedRebound ==
    ASSUME TInv, Pins, NEW t \in Threads, NEW F, NEW Q, Rebinds(t, F, Q), NEW q \in Q,
           ~Loading(q) \/ \A u \in Threads \ {t} : Joins(u, q) => local'[u].load # "PENDING",
           page_table'[q].claims = 0 \/ (page_table'[q].claims = 1 /\ Loading(q)')
    PROVE  ClaimsFit(q)'
  <1>1. q \in PageId
    BY DEF Rebinds
  <1>2. ~Joins(t, q)'
    BY DEF Rebinds, Joins, NoPinLabels
  <1>3. ASSUME NEW u \in Threads \ {t}, Joins(u, q)' PROVE Joins(u, q)
    BY <1>3 DEF Rebinds, Follows, SameCall, Joins
  <1>4. ~Loading(q) => \A u \in Threads : ~Joins(u, q)
    BY <1>1, NotJoined DEF Joiners, Joins
  <1>5. \A u \in Threads \ {t} : ~Joins(u, q)'
    BY <1>3, <1>4 DEF Joins
  <1>6. Joiners(q)' = {}
    BY <1>2, <1>5 DEF Joiners, Joins
  <1> QED BY <1>1, <1>6, UnjoinedAfter

(* A fetch gets frame f, blank, for its page p; v is the page f was bound to, if any. *)
LEMMA GrantFetch ==
    ASSUME TInv, TInv', OwnershipInv, FlushesBehindGate, NEW t \in Threads,
           NEW f \in Frames, NEW p \in PageId, NEW v,
           v = frames[f].page, p # v, pc[t] \in {"pin", "wrote"},
           \A u \in Threads \ {t} : AvoidsFrame(u, f) /\ AvoidsPage(u, p)
                                    /\ (v \in PageId => AvoidsPage(u, v)),
           frames[f].pin = 0, frames[f].state # "LOADING",
           page_table[p].state \in {"ABSENT", "LOAD_INTENT"}, p.no < files[p.file].published,
           page_table[p].state = "ABSENT" => files[p.file].state = "ACTIVE",
           page_table[p].state = "LOAD_INTENT" => page_table[p].claims >= 1,
           page_table'[p].state = "LOADING", page_table'[p].frame = f,
           page_table'[p].claims = IF page_table[p].state = "ABSENT" THEN 1 ELSE page_table[p].claims,
           \A q \in PageId \ {p} : page_table'[q] = IF q = v THEN Absent ELSE page_table[q],
           frames'[f].state = "LOADING", frames'[f].page = p, frames'[f].pin = 0,
           f \notin free_list',
           \A g \in Frames \ {f} : frames'[g] = frames[g] /\ (g \in free_list' <=> g \in free_list),
           files' = files, Alone(t), pc'[t] = "read", local'[t].frame = f, local'[t].page = p
    PROVE  OwnershipInv'
  <1> DEFINE F == {f}
             Q == {q \in PageId : q = p \/ q = v}
  <1>0. Structure /\ Pins
    BY DEF OwnershipInv
  <1>1. v \in PageId => /\ page_table[v].frame = f
                        /\ page_table[v].state \in {"RESIDENT", "EVICTING"}
                        /\ page_table'[v] = Absent
    BY <1>0, BoundPage
  <1>2. v \in PageId \cup {NoPage}
    BY DEF TInv, PoolOK, Frame
  <1>3. Rebinds(t, F, Q)
    <2>1. \A q \in Q : NotToClose(q)
      BY <1>1 DEF NotToClose, Absent
    <2>2. pc[t] \in NoPinLabels /\ pc'[t] \in NoPinLabels
      BY DEF NoPinLabels, GuardLabels, Labels
    <2>3. ~Closes(t)'
      BY DEF Closes, IoLabels
    <2>4. FilesKept(t)
      BY DEF FilesKept
    <2>5. \A q \in Q :
             page_table[q].state \in {"LOADING", "RESIDENT", "EVICTING"} => page_table[q].frame \in F
      BY <1>1
    <2> QED BY <1>1, <1>2, <2>1, <2>2, <2>3, <2>4, <2>5, AloneFollows DEF Rebinds
  <1>4. /\ Reads(t)' /\ Loads(t)'
        /\ ~Intends(t)' /\ ~Evicts(t)' /\ ~Holds(t)' /\ ~Builds(t)' /\ ~Creates(t)' /\ ~Flushes(t)'
        /\ CopiesToFlush(t)'
    BY DEF Reads, Loads, Intends, Evicts, Holds, Builds, Creates, Flushes, CopiesToFlush, IoLabels
  <1>5. Takes(t, F, Q)
    BY <1>4 DEF Takes, Holds, Builds
  <1>6. page_table'[p].claims >= 1
    OBVIOUS
  <1>7. ThreadOwns(t)'
    BY <1>4, <1>6 DEF ThreadOwns, Maps
  <1>8. FrameBound(f)'
    BY DEF FrameBound, Maps
  <1>9. PinFit(f)' /\ PinBound(f)'
    BY <1>0, <1>3, UnpinnedRebound, AloneFollows DEF NoPinLabels, GuardLabels, Labels
  <1>10. EntryBound(p)' /\ Below(p)'
    BY DEF EntryBound, Below
  <1>11. ClaimsFit(p)'
    <2>1. CASE page_table[p].state = "ABSENT"
      BY <2>1, <1>0, <1>3, UnjoinedRebound DEF Loading
    <2>2. CASE page_table[p].state = "LOAD_INTENT"
      <3>1. ClaimsFit(p) /\ Loading(p) /\ Loading(p)'
        BY <2>2, <1>0 DEF Pins, Loading
      <3>2. Joiners(p)' = Joiners(p)
        BY DEF Alone, Joiners
      <3> QED BY <2>2, <3>1, <3>2 DEF ClaimsFit
    <2> QED BY <2>1, <2>2
  <1>12. v \in PageId => EntryBound(v)' /\ Below(v)' /\ ClaimsFit(v)'
    <2>1. SUFFICES ASSUME v \in PageId PROVE EntryBound(v)' /\ Below(v)' /\ ClaimsFit(v)'
      OBVIOUS
    <2>2. page_table'[v].state = "ABSENT" /\ page_table'[v].claims = 0
      BY <2>1, <1>1 DEF Absent
    <2>3. ~Loading(v)
      BY <2>1, <1>1 DEF Loading
    <2> QED BY <2>1, <2>2, <2>3, <1>0, <1>3, UnjoinedRebound DEF EntryBound, Below
  <1>13. Rebound(F, Q)'
    BY <1>8, <1>9, <1>10, <1>11, <1>12 DEF Rebound
  <1> QED BY <1>3, <1>5, <1>7, <1>13, RebindStep

(* NewPage gets frame f, blank, and holds it unlisted; v is as above. *)
LEMMA GrantNew ==
    ASSUME TInv, TInv', OwnershipInv, FlushesBehindGate, NEW t \in Threads,
           NEW f \in Frames, NEW d \in Files, NEW v,
           v = frames[f].page, d = local[t].file, pc[t] \in {"turn", "wrote"},
           \A u \in Threads \ {t} : /\ AvoidsFrame(u, f)
                                    /\ v \in PageId => AvoidsPage(u, v)
                                    /\ Creates(u) => local[u].file # d,
           frames[f].pin = 0, frames[f].state # "LOADING",
           \A q \in PageId : page_table'[q] = IF q = v THEN Absent ELSE page_table[q],
           frames'[f].state = "FREE", frames'[f].page = NoPage, frames'[f].pin = 0,
           f \notin free_list',
           \A g \in Frames \ {f} : frames'[g] = frames[g] /\ (g \in free_list' <=> g \in free_list),
           FilesKept(t), files'[d].creating,
           Alone(t), pc'[t] = "extend", local'[t].frame = f, local'[t].file = d
    PROVE  OwnershipInv'
  <1> DEFINE F == {f}
             Q == {q \in PageId : q = v}
  <1>0. Structure /\ Pins
    BY DEF OwnershipInv
  <1>1. v \in PageId => /\ page_table[v].frame = f
                        /\ page_table[v].state \in {"RESIDENT", "EVICTING"}
                        /\ page_table'[v] = Absent
    BY <1>0, BoundPage
  <1>2. v \in PageId \cup {NoPage}
    BY DEF TInv, PoolOK, Frame
  <1>3. Rebinds(t, F, Q)
    <2>1. \A q \in Q : NotToClose(q)
      BY <1>1 DEF NotToClose, Absent
    <2>2. pc[t] \in NoPinLabels /\ pc'[t] \in NoPinLabels
      BY DEF NoPinLabels, GuardLabels, Labels
    <2>3. ~Closes(t)'
      BY DEF Closes, IoLabels
    <2>4. \A q \in Q :
             page_table[q].state \in {"LOADING", "RESIDENT", "EVICTING"} => page_table[q].frame \in F
      BY <1>1
    <2> QED BY <1>1, <1>2, <2>1, <2>2, <2>3, <2>4, AloneFollows DEF Rebinds
  <1>4. /\ Holds(t)' /\ Creates(t)'
        /\ ~Loads(t)' /\ ~Reads(t)' /\ ~Intends(t)' /\ ~Evicts(t)' /\ ~Builds(t)' /\ ~Flushes(t)'
        /\ CopiesToFlush(t)'
    BY DEF Reads, Loads, Intends, Evicts, Holds, Builds, Creates, Flushes, CopiesToFlush, IoLabels
  <1>5. Takes(t, F, Q)
    BY <1>4 DEF Takes, Holds, Builds
  <1>6. ThreadOwns(t)'
    BY <1>4 DEF ThreadOwns
  <1>7. FrameBound(f)'
    BY DEF FrameBound, Reserves
  <1>8. PinFit(f)' /\ PinBound(f)'
    BY <1>0, <1>3, UnpinnedRebound, AloneFollows DEF NoPinLabels, GuardLabels, Labels
  <1>9. v \in PageId => EntryBound(v)' /\ Below(v)' /\ ClaimsFit(v)'
    <2>1. SUFFICES ASSUME v \in PageId PROVE EntryBound(v)' /\ Below(v)' /\ ClaimsFit(v)'
      OBVIOUS
    <2>2. page_table'[v].state = "ABSENT" /\ page_table'[v].claims = 0
      BY <2>1, <1>1 DEF Absent
    <2>3. ~Loading(v)
      BY <2>1, <1>1 DEF Loading
    <2> QED BY <2>1, <2>2, <2>3, <1>0, <1>3, UnjoinedRebound DEF EntryBound, Below
  <1>10. Rebound(F, Q)'
    BY <1>7, <1>8, <1>9 DEF Rebound
  <1> QED BY <1>3, <1>5, <1>6, <1>10, RebindStep

(* A request reserves the dirty page v of frame f as its victim; P holds the page a fetch   *)
(* announces in the same critical section.                                                  *)
LEMMA EvictDirty ==
    ASSUME TInv, TInv', OwnershipInv, FlushesBehindGate, NEW t \in Threads,
           NEW f \in Frames, NEW v \in PageId, NEW P \in SUBSET PageId, v \notin P,
           v = frames[f].page, frames[f].state = "RESIDENT", frames[f].pin = 0,
           files[v.file].state = "ACTIVE", pc[t] \in {"pin", "turn"}, local[t].op \in Requests,
           local[t].op \in Fetches => P = {local[t].page},
           local[t].op = "NEW_PAGE" => P = {} /\ files'[local[t].file].creating
                                       /\ ~files[local[t].file].creating,
           \A u \in Threads \ {t} : AvoidsFrame(u, f) /\ AvoidsPage(u, v)
                                    /\ \A q \in P : AvoidsPage(u, q),
           \A q \in P : /\ page_table[q].state = "ABSENT" /\ files[q.file].state = "ACTIVE"
                        /\ q.no < files[q.file].published
                        /\ page_table'[q] = Intent,
           page_table'[v].state = "EVICTING", page_table'[v].frame = f,
           page_table'[v].claims = page_table[v].claims,
           \A q \in PageId \ (P \cup {v}) : page_table'[q] = page_table[q],
           frames'[f].state = "EVICTING", frames'[f].page = v, frames'[f].pin = 0,
           \A g \in Frames \ {f} : frames'[g] = frames[g], free_list' = free_list,
           FilesKept(t), Alone(t), pc'[t] = "write",
           local'[t].op = local[t].op, local'[t].page = local[t].page, local'[t].file = local[t].file,
           local'[t].frame = f, local'[t].target = v
    PROVE  OwnershipInv'
  <1> DEFINE F == {f}
             Q == P \cup {v}
  <1>0. Structure /\ Pins
    BY DEF OwnershipInv
  <1>1. page_table[v].frame = f /\ page_table[v].state = "RESIDENT" /\ f \notin free_list
    BY <1>0, BoundPage
  <1>2. Rebinds(t, F, Q)
    <2>1. \A q \in Q : NotToClose(q)
      BY DEF NotToClose
    <2>2. pc[t] \in NoPinLabels /\ pc'[t] \in NoPinLabels
      BY DEF NoPinLabels, GuardLabels, Labels
    <2>3. ~Closes(t)'
      BY DEF Closes, Requests, Fetches
    <2>4. \A q \in Q :
             page_table[q].state \in {"LOADING", "RESIDENT", "EVICTING"} => page_table[q].frame \in F
      BY <1>1
    <2> QED BY <2>1, <2>2, <2>3, <2>4, AloneFollows DEF Rebinds
  <1>3. /\ Evicts(t)'
        /\ Loads(t)' => Intends(t)'
        /\ Intends(t)' => local[t].op \in Fetches
        /\ Creates(t)' => local[t].op = "NEW_PAGE"
        /\ ~Reads(t)' /\ ~Holds(t)' /\ ~Builds(t)' /\ ~Flushes(t)' /\ CopiesToFlush(t)'
    BY DEF Reads, Loads, Intends, Evicts, Holds, Builds, Creates, Flushes, CopiesToFlush, IoLabels
  <1>4. Takes(t, F, Q)
    <2>1. \A u \in Threads : Creates(u) => files[local[u].file].creating
      BY <1>0 DEF Structure, ThreadsOwn, ThreadOwns
    <2> QED BY <1>3, <2>1 DEF Takes, Holds, Builds
  <1>5. ThreadOwns(t)'
    BY <1>3 DEF ThreadOwns, Maps, Intent
  <1>6. FrameBound(f)'
    BY <1>1 DEF FrameBound, Maps
  <1>7. PinFit(f)' /\ PinBound(f)'
    BY <1>0, <1>2, UnpinnedRebound, AloneFollows DEF NoPinLabels, GuardLabels, Labels
  <1>8. \A q \in P : EntryBound(q)' /\ Below(q)' /\ ClaimsFit(q)'
    <2>1. SUFFICES ASSUME NEW q \in P PROVE EntryBound(q)' /\ Below(q)' /\ ClaimsFit(q)'
      OBVIOUS
    <2>2. ~Loading(q) /\ Loading(q)' /\ page_table'[q].claims = 1
      BY DEF Loading, Intent
    <2>3. q.no < files'[q.file].published
      <3>1. files[q.file].published =< files'[q.file].published
            /\ files[q.file].published \in Nat /\ files'[q.file].published \in Nat
        BY PageIdFields DEF FilesKept, TInv, PoolOK, FileEntry
      <3>2. q.no \in Nat
        BY PageIdFields
      <3> QED BY <3>1, <3>2
    <2> QED BY <2>2, <2>3, <1>0, <1>2, UnjoinedRebound DEF EntryBound, Below, Intent
  <1>9. EntryBound(v)' /\ Below(v)' /\ ClaimsFit(v)'
    <2>1. ~Loading(v)
      BY <1>1 DEF Loading
    <2>2. page_table'[v].claims = 0
      BY <2>1, <1>0, NotJoined
    <2>3. Below(v)'
      <3>1. v.no < files[v.file].published
        <4>1. Below(v) /\ \A u \in Threads : Builds(u) /\ u # t => local[u].page # v
          BY <1>0 DEF Structure, MappedBelow, AvoidsPage
        <4>2. ~Builds(t)
          BY DEF Builds
        <4> QED BY <1>1, <4>1, <4>2 DEF Below
      <3>2. files[v.file].published =< files'[v.file].published
            /\ files[v.file].published \in Nat /\ files'[v.file].published \in Nat
        BY PageIdFields DEF FilesKept, TInv, PoolOK, FileEntry
      <3>3. v.no \in Nat
        BY PageIdFields
      <3> QED BY <3>1, <3>2, <3>3 DEF Below
    <2> QED BY <2>1, <2>2, <2>3, <1>0, <1>2, UnjoinedRebound DEF EntryBound
  <1>10. Rebound(F, Q)'
    BY <1>6, <1>7, <1>8, <1>9 DEF Rebound
  <1> QED BY <1>2, <1>4, <1>5, <1>10, RebindStep

(* A call fails: what it had is blank again, and the fetches that joined it fail with it. *)
LEMMA Abandon ==
    ASSUME TInv, TInv', OwnershipInv, FlushesBehindGate, NEW t \in Threads, NEW F, NEW Q,
           Rebinds(t, F, Q), pc'[t] = "idle",
           Holds(t) => local[t].frame \in F, Builds(t) => local[t].page \in Q,
           \A g \in F : /\ FrameBound(g)'
                        /\ frames[g].state # "RESIDENT" /\ frames'[g].pin = 0,
           \A q \in Q : EntryBound(q)' /\ Below(q)' /\ page_table'[q].claims = 0,
           \A u \in Threads \ {t} : /\ local'[u].load \in {local[u].load, "FAILED"}
                                    /\ \A q \in Q : Joins(u, q) => local'[u].load = "FAILED"
    PROVE  OwnershipInv'
  <1>0. Pins
    BY DEF OwnershipInv
  <1>1. /\ ~Loads(t)' /\ ~Busy(t)' /\ ~Reads(t)' /\ ~Intends(t)' /\ ~Evicts(t)' /\ ~Holds(t)'
        /\ ~Builds(t)' /\ ~Creates(t)' /\ ~Flushes(t)' /\ CopiesToFlush(t)'
    BY DEF Reads, Loads, Intends, Evicts, Holds, Builds, Creates, Flushes, CopiesToFlush, IoLabels,
           Busy
  <1>2. Takes(t, F, Q)
    BY <1>1 DEF Takes
  <1>3. ThreadOwns(t)'
    BY <1>1 DEF ThreadOwns
  <1>4. \A g \in F : PinFit(g)' /\ PinBound(g)'
    BY <1>0, UnpinnedRebound DEF NoPinLabels, GuardLabels, Labels
  <1>5. \A q \in Q : ClaimsFit(q)'
    BY <1>0, UnjoinedRebound
  <1>6. Rebound(F, Q)'
    BY <1>4, <1>5 DEF Rebound
  <1> QED BY <1>2, <1>3, <1>6, RebindStep

-----------------------------------------------------------------------------
(* AcquireFrame and its callers.                                            *)

LEMMA ResetFacts ==
    ASSUME TInv, NEW f \in Frames
    PROVE  LET fr == ResetFrame(frames, f) IN
           /\ fr \in [Frames -> Frame]
           /\ fr[f].state = "FREE" /\ fr[f].page = NoPage /\ fr[f].pin = 0
           /\ \A g \in Frames \ {f} : fr[g] = frames[g]
  <1>1. frames \in [Frames -> Frame]
    BY DEF TInv, PoolOK
  <1>2. ResetFrame(frames, f) \in [Frames -> Frame]
    BY <1>1, ResetFrameType
  <1> QED BY <1>1, <1>2 DEF ResetFrame, Frame

LEMMA GrantedFetchFacts ==
    ASSUME TInv, NEW t \in Threads, NEW f \in Frames, NEW p \in PageId,
           NEW fr \in [Frames -> Frame], NEW pt \in [PageId -> Entry],
           p = local[t].page, local[t].op \in Fetches, Granted(t, f, fr, pt)
    PROVE  /\ frames'[f].state = "LOADING" /\ frames'[f].page = p /\ frames'[f].pin = fr[f].pin
           /\ \A g \in Frames \ {f} : frames'[g] = fr[g]
           /\ page_table'[p].state = "LOADING" /\ page_table'[p].frame = f
           /\ page_table'[p].claims = pt[p].claims
           /\ \A q \in PageId \ {p} : page_table'[q] = pt[q]
           /\ Alone(t) /\ pc'[t] = "read" /\ local'[t].frame = f /\ local'[t].page = p
  <1>1. /\ frames' = Bind(fr, f, p, "READ_IN_PROGRESS")
        /\ page_table' = [pt EXCEPT ![p] = [@ EXCEPT !.state = "LOADING", !.frame = f]]
        /\ Goto(t, "read") /\ local' = [local EXCEPT ![t].frame = f]
    BY DEF Granted, Fetches
  <1>2. /\ frames'[f].state = "LOADING" /\ frames'[f].page = p /\ frames'[f].pin = fr[f].pin
        /\ \A g \in Frames \ {f} : frames'[g] = fr[g]
    BY <1>1 DEF Bind, Frame
  <1>3. /\ page_table'[p].state = "LOADING" /\ page_table'[p].frame = f
        /\ page_table'[p].claims = pt[p].claims
        /\ \A q \in PageId \ {p} : page_table'[q] = pt[q]
    BY <1>1 DEF Entry
  <1>4. Alone(t) /\ pc'[t] = "read" /\ local'[t].frame = f /\ local'[t].page = p
    <2> DEFINE r == [local[t] EXCEPT !.frame = f]
    <2>1. r.frame = f /\ r.page = p
      BY LocalFacts DEF Local
    <2>2. local' = [local EXCEPT ![t] = r]
      BY <1>1
    <2>3. pc' = [pc EXCEPT ![t] = "read"]
      BY <1>1 DEF Goto
    <2> HIDE DEF r
    <2> QED BY <2>1, <2>2, <2>3, OnlyMoves
  <1> QED BY <1>2, <1>3, <1>4

LEMMA GrantedNewFacts ==
    ASSUME TInv, NEW t \in Threads, NEW f \in Frames, NEW fr, NEW pt,
           local[t].op = "NEW_PAGE", Granted(t, f, fr, pt)
    PROVE  /\ frames' = fr /\ page_table' = pt
           /\ Alone(t) /\ pc'[t] = "extend" /\ local'[t].frame = f /\ local'[t].file = local[t].file
  <1> DEFINE r == [local[t] EXCEPT !.frame = f, !.count = files[local[t].file].published]
  <1>1. r.frame = f /\ r.file = local[t].file
    BY LocalFacts DEF Local
  <1> HIDE DEF r
  <1>2. frames' = fr /\ page_table' = pt /\ Goto(t, "extend") /\ local' = [local EXCEPT ![t] = r]
    BY DEF Granted, r
  <1> QED BY <1>1, <1>2, OnlyMoves DEF Goto

(* A victim belongs to nobody. *)
LEMMA VictimFacts ==
    ASSUME TInv, Structure, NEW f \in Frames, IsVictimEligible(f)
    PROVE  /\ frames[f].page \in PageId /\ Maps(frames[f].page, "RESIDENT", f) /\ f \notin free_list
           /\ frames[f].state = "RESIDENT" /\ frames[f].pin = 0
           /\ files[frames[f].page.file].state = "ACTIVE"
           /\ \A u \in Threads : AvoidsFrame(u, f) /\ AvoidsPage(u, frames[f].page)
  <1>1. /\ frames[f].state = "RESIDENT" /\ frames[f].pin = 0 /\ frames[f].io = "NONE"
        /\ files[frames[f].page.file].state = "ACTIVE"
    BY DEF IsVictimEligible
  <1>2. Maps(frames[f].page, "RESIDENT", f) /\ f \notin free_list
    BY <1>1 DEF Structure, FramesBound, FrameBound
  <1>3. \A u \in Threads : AvoidsFrame(u, f) /\ AvoidsPage(u, frames[f].page)
    BY <1>1, FrameAvoided, VictimAvoided
  <1> QED BY <1>1, <1>2, <1>3 DEF Maps

(* The turn of t ends. *)
LEMMA TurnFacts ==
    ASSUME TInv, NEW t \in Threads, NEW d \in Files, d = local[t].file, Creates(t),
           files' = [files EXCEPT ![d].creating = FALSE]
    PROVE  FilesKept(t) /\ \A e \in Files : files'[e].published = files[e].published
  <1>1. /\ files'[d].state = files[d].state /\ files'[d].published = files[d].published
        /\ \A e \in Files \ {d} : files'[e] = files[e]
    BY DEF TInv, PoolOK, FileEntry
  <1>2. files'[d].published >= files[d].published
    BY <1>1 DEF TInv, PoolOK, FileEntry
  <1>3. ASSUME NEW e \in Files
        PROVE  /\ files'[e].state = files[e].state /\ files'[e].published = files[e].published
               /\ e # d => files'[e].creating = files[e].creating
    BY <1>1
  <1> QED BY <1>2, <1>3 DEF FilesKept

(* A frame on the free list. *)
LEMMA FreeFacts ==
    ASSUME TInv, Structure, Pins, NEW f \in free_list
    PROVE  /\ f \in Frames /\ frames[f].state = "FREE" /\ frames[f].page = NoPage
           /\ frames[f].pin = 0 /\ NoPage \notin PageId
           /\ \A u \in Threads : AvoidsFrame(u, f)
  <1>1. f \in Frames
    BY DEF TInv, PoolOK
  <1>2. frames[f].state = "FREE" /\ frames[f].page = NoPage
    BY <1>1 DEF Structure, FramesBound, FrameBound
  <1>3. frames[f].pin = 0
    BY <1>1, <1>2, NotPinned
  <1> QED BY <1>1, <1>2, <1>3, FrameAvoided, ConstantsAssumption

(* The fetches that have joined the load of page p see its outcome x. *)
LEMMA Resolves ==
    ASSUME TInv, NEW t \in Threads, NEW p \in PageId, NEW x,
           \A u \in Threads \ {t} : pc'[u] = pc[u] /\ local'[u] = Resolve(p, x)[u]
    PROVE  \A u \in Threads \ {t} :
              /\ pc'[u] = pc[u] /\ SameCall(local[u], local'[u])
              /\ local'[u].load = IF Joins(u, p) THEN x ELSE local[u].load
  <1>2. ASSUME NEW u \in Threads \ {t}
        PROVE  /\ pc'[u] = pc[u]
               /\ local'[u] = IF Joins(u, p) THEN [local[u] EXCEPT !.load = x] ELSE local[u]
    BY DEF TInv, ControlOK, Resolve, Joiners, Joins
  <1>3. ASSUME NEW u \in Threads
        PROVE  /\ SameCall(local[u], [local[u] EXCEPT !.load = x])
               /\ [local[u] EXCEPT !.load = x].load = x
    BY LocalFacts DEF Local, SameCall
  <1>4. ASSUME NEW u \in Threads \ {t}
        PROVE  /\ SameCall(local[u], local'[u])
               /\ local'[u].load = IF Joins(u, p) THEN x ELSE local[u].load
    <2>1. CASE Joins(u, p)
      BY <2>1, <1>2, <1>3
    <2>2. CASE ~Joins(u, p)
      <3>1. local'[u] = local[u]
        BY <2>2, <1>2
      <3> QED BY <2>2, <3>1 DEF SameCall
    <2> QED BY <2>1, <2>2
  <1> QED BY <1>2, <1>4

LEMMA LoadPageOwns ==
    ASSUME TInv, TInv', OwnershipInv, FlushesBehindGate, NEW t \in Threads, LoadPage(t)
    PROVE  OwnershipInv'
  <1>0. Structure /\ Pins
    BY DEF OwnershipInv
  <1>1. pc[t] = "pin" /\ local[t].op \in Fetches
    BY LocalFacts DEF LoadPage, At
  <1>2. PICK p \in PageId : p = local[t].page
    BY <1>1, LocalFacts
  <1> DEFINE pt == [page_table EXCEPT ![p] = Intent]
  <1>3. /\ Fetchable(p) /\ page_table[p].state = "ABSENT" /\ AcquireFrame(t, pt, files)
    BY <1>2 DEF LoadPage
  <1>4. /\ files[p.file].state = "ACTIVE" /\ p.no < files[p.file].published
        /\ \A u \in Threads : AvoidsPage(u, p)
    BY <1>0, <1>3, AbsentAvoided DEF Fetchable
  <1>5. /\ pt \in [PageId -> Entry] /\ pt[p] = Intent
        /\ \A q \in PageId \ {p} : pt[q] = page_table[q]
    BY AbsentType DEF TInv, PoolOK
  <1> HIDE DEF pt
  <1>6. Intent.claims = 1 /\ Intent.state = "LOAD_INTENT"
    BY DEF Intent
  <1>7. ASSUME NEW f \in free_list, free_list' = free_list \ {f}, Granted(t, f, frames, pt),
               files' = files
        PROVE  OwnershipInv'
    <2>1. /\ f \in Frames /\ frames[f].state = "FREE" /\ frames[f].page = NoPage
          /\ frames[f].pin = 0 /\ NoPage \notin PageId
          /\ \A u \in Threads : AvoidsFrame(u, f)
      BY <1>0, FreeFacts
    <2>2. frames \in [Frames -> Frame]
      BY DEF TInv, PoolOK
    <2>3. /\ frames'[f].state = "LOADING" /\ frames'[f].page = p /\ frames'[f].pin = 0
          /\ \A g \in Frames \ {f} : frames'[g] = frames[g]
          /\ page_table'[p].state = "LOADING" /\ page_table'[p].frame = f
          /\ page_table'[p].claims = 1
          /\ \A q \in PageId \ {p} : page_table'[q] = page_table[q]
          /\ Alone(t) /\ pc'[t] = "read" /\ local'[t].frame = f /\ local'[t].page = p
      BY <1>1, <1>2, <1>5, <1>6, <1>7, <2>1, <2>2, GrantedFetchFacts
    <2> QED BY <1>1, <1>3, <1>4, <1>7, <2>1, <2>3, GrantFetch
  <1>8. ASSUME NEW f \in Frames, IsVictimEligible(f), files' = files, free_list' = free_list,
               Granted(t, f, ResetFrame(frames, f), [pt EXCEPT ![frames[f].page] = Absent])
        PROVE  OwnershipInv'
    <2>1. PICK v \in PageId : v = frames[f].page
      BY <1>0, <1>8, VictimFacts
    <2>2. /\ Maps(v, "RESIDENT", f) /\ f \notin free_list /\ v # p
          /\ frames[f].state = "RESIDENT" /\ frames[f].pin = 0
          /\ \A u \in Threads : AvoidsFrame(u, f) /\ AvoidsPage(u, v)
      BY <1>0, <1>3, <1>8, <2>1, VictimFacts DEF Maps
    <2> DEFINE fr == ResetFrame(frames, f)
               pv == [pt EXCEPT ![v] = Absent]
    <2>3. /\ fr \in [Frames -> Frame] /\ fr[f].pin = 0
          /\ \A g \in Frames \ {f} : fr[g] = frames[g]
      BY ResetFacts
    <2>4. /\ pv \in [PageId -> Entry] /\ pv[v] = Absent /\ pv[p] = Intent
          /\ \A q \in PageId \ {p, v} : pv[q] = page_table[q]
      BY <1>5, <2>2, AbsentType
    <2>5. Granted(t, f, fr, pv)
      BY <1>8, <2>1
    <2> HIDE DEF fr, pv
    <2>6. /\ frames'[f].state = "LOADING" /\ frames'[f].page = p /\ frames'[f].pin = 0
          /\ \A g \in Frames \ {f} : frames'[g] = frames[g]
          /\ page_table'[p].state = "LOADING" /\ page_table'[p].frame = f
          /\ page_table'[p].claims = 1
          /\ \A q \in PageId \ {p} : page_table'[q] = IF q = v THEN Absent ELSE page_table[q]
          /\ Alone(t) /\ pc'[t] = "read" /\ local'[t].frame = f /\ local'[t].page = p
      <3>1. /\ frames'[f].state = "LOADING" /\ frames'[f].page = p /\ frames'[f].pin = fr[f].pin
            /\ \A g \in Frames \ {f} : frames'[g] = fr[g]
            /\ page_table'[p].state = "LOADING" /\ page_table'[p].frame = f
            /\ page_table'[p].claims = pv[p].claims
            /\ \A q \in PageId \ {p} : page_table'[q] = pv[q]
            /\ Alone(t) /\ pc'[t] = "read" /\ local'[t].frame = f /\ local'[t].page = p
        BY <1>1, <1>2, <2>3, <2>4, <2>5, GrantedFetchFacts
      <3>2. pv[p] = Intent
        BY <2>4
      <3> QED BY <1>6, <2>3, <2>4, <3>1, <3>2
    <2> QED BY <1>1, <1>3, <1>4, <1>8, <2>1, <2>2, <2>6, GrantFetch
  <1>9. ASSUME NEW f \in Frames, IsVictimEligible(f), files' = files, free_list' = free_list,
               frames' = [frames EXCEPT ![f] = [@ EXCEPT !.state = "EVICTING",
                                                         !.io = "WRITEBACK_IN_PROGRESS"]],
               page_table' = [pt EXCEPT ![frames[f].page].state = "EVICTING"],
               local' = [local EXCEPT ![t] = [@ EXCEPT !.frame = f, !.target = frames[f].page,
                                                        !.img = frames[f].ver]],
               Goto(t, "write")
        PROVE  OwnershipInv'
    <2>1. PICK v \in PageId : v = frames[f].page
      BY <1>0, <1>9, VictimFacts
    <2>2. /\ Maps(v, "RESIDENT", f) /\ f \notin free_list /\ v # p
          /\ frames[f].state = "RESIDENT" /\ frames[f].pin = 0 /\ files[v.file].state = "ACTIVE"
          /\ \A u \in Threads : AvoidsFrame(u, f) /\ AvoidsPage(u, v)
      BY <1>0, <1>3, <1>9, <2>1, VictimFacts DEF Maps
    <2>3. /\ frames'[f].state = "EVICTING" /\ frames'[f].page = v /\ frames'[f].pin = 0
          /\ \A g \in Frames \ {f} : frames'[g] = frames[g]
      BY <1>9, <2>1, <2>2 DEF TInv, PoolOK, Frame
    <2>4. /\ page_table'[v].state = "EVICTING" /\ page_table'[v].frame = f
          /\ page_table'[v].claims = page_table[v].claims /\ page_table'[p] = Intent
          /\ \A q \in PageId \ {p, v} : page_table'[q] = page_table[q]
      BY <1>5, <1>9, <2>1, <2>2 DEF Maps, Entry
    <2>5. /\ Alone(t) /\ pc'[t] = "write"
          /\ local'[t].op = local[t].op /\ local'[t].page = local[t].page
          /\ local'[t].file = local[t].file /\ local'[t].frame = f /\ local'[t].target = v
      <3> DEFINE r == [local[t] EXCEPT !.frame = f, !.target = v, !.img = frames[f].ver]
      <3>1. /\ r.op = local[t].op /\ r.page = local[t].page /\ r.file = local[t].file
            /\ r.frame = f /\ r.target = v
        BY LocalFacts DEF Local
      <3>2. Alone(t) /\ pc'[t] = "write" /\ local'[t] = r
        BY <1>9, <2>1 DEF Goto, TInv, ControlOK, Alone
      <3> HIDE DEF r
      <3> QED BY <3>1, <3>2
    <2>6. FilesKept(t)
      BY <1>9 DEF FilesKept
    <2>7. PICK P \in SUBSET PageId : P = {p}
      OBVIOUS
    <2>8. /\ v \notin P
          /\ local[t].op \in Requests /\ local[t].op # "NEW_PAGE" /\ P = {local[t].page}
          /\ \A u \in Threads \ {t} : AvoidsFrame(u, f) /\ AvoidsPage(u, v)
                                      /\ \A q \in P : AvoidsPage(u, q)
          /\ \A q \in P : /\ page_table[q].state = "ABSENT" /\ files[q.file].state = "ACTIVE"
                          /\ q.no < files[q.file].published
                          /\ page_table'[q] = Intent
          /\ \A q \in PageId \ (P \cup {v}) : page_table'[q] = page_table[q]
      BY <1>1, <1>2, <1>3, <1>4, <2>2, <2>4, <2>7 DEF Requests, Fetches
    <2> QED BY <1>1, <1>9, <2>1, <2>2, <2>3, <2>4, <2>5, <2>6, <2>8, EvictDirty, ZenonT(30)
  <1>10. ASSUME Refused(t, pt, files), UNCHANGED <<frames, free_list>>
         PROVE  OwnershipInv'
    <2>1. /\ files' = files /\ page_table' = [pt EXCEPT ![p] = Absent] /\ Goto(t, "idle")
          /\ local' = [Resolve(p, "FAILED") EXCEPT ![t] = [Fresh EXCEPT !.result = "error"]]
      BY <1>1, <1>2, <1>10 DEF Refused, Fetches
    <2>2. page_table'[p] = Absent /\ \A q \in PageId \ {p} : page_table'[q] = page_table[q]
      BY <1>5, <2>1
    <2>3. /\ pc'[t] = "idle"
          /\ \A u \in Threads \ {t} : /\ Follows(u, {}, {p})
                                      /\ local'[u].load \in {local[u].load, "FAILED"}
                                      /\ Joins(u, p) => local'[u].load = "FAILED"
      <3>1. /\ pc'[t] = "idle"
            /\ \A u \in Threads \ {t} : pc'[u] = pc[u] /\ local'[u] = Resolve(p, "FAILED")[u]
        BY <2>1 DEF Goto, TInv, ControlOK, Resolve
      <3>2. \A u \in Threads \ {t} :
               /\ pc'[u] = pc[u] /\ SameCall(local[u], local'[u])
               /\ local'[u].load = IF Joins(u, p) THEN "FAILED" ELSE local[u].load
        BY <3>1, Resolves
      <3> QED BY <3>1, <3>2 DEF Follows, Joins
    <2>4. Rebinds(t, {}, {p})
      <3>1. NotToClose(p)
        BY <1>4 DEF NotToClose
      <3>2. pc[t] \in NoPinLabels /\ pc'[t] \in NoPinLabels /\ ~Closes(t)'
        BY <1>1, <2>3 DEF NoPinLabels, GuardLabels, Labels, Closes, IoLabels
      <3>3. FilesKept(t)
        BY <2>1 DEF FilesKept
      <3> QED BY <1>3, <1>4, <1>10, <2>2, <2>3, <3>1, <3>2, <3>3 DEF Rebinds
    <2>5. EntryBound(p)' /\ Below(p)' /\ page_table'[p].claims = 0
      BY <2>2 DEF EntryBound, Below, Absent
    <2> QED BY <1>1, <2>3, <2>4, <2>5, Abandon DEF Holds, Builds
  <1> QED BY <1>3, <1>7, <1>8, <1>9, <1>10, ZenonT(30) DEF AcquireFrame

LEMMA NewPageOwns ==
    ASSUME TInv, TInv', OwnershipInv, FlushesBehindGate, NEW t \in Threads, NewPage(t)
    PROVE  OwnershipInv'
  <1>0. Structure /\ Pins
    BY DEF OwnershipInv
  <1>1. pc[t] = "turn" /\ local[t].op = "NEW_PAGE" /\ local[t].file \in Files
    BY DEF NewPage, At, TInv, ControlOK, ThreadOK
  <1>2. PICK d \in Files : d = local[t].file
    BY <1>1
  <1>3. CASE UNCHANGED poolVars /\ (Return(t, "error") \/ UNCHANGED <<pc, local>>)
    <2>1. QuietPool
      BY <1>3, UnchangedPool
    <2>2. Alone(t) /\ pc'[t] \in PassiveLabels
      <3>1. CASE Return(t, "error")
        BY <3>1, Returns DEF PassiveLabels
      <3>2. CASE UNCHANGED <<pc, local>>
        <4>1. Alone(t)
          BY <3>2 DEF Alone
        <4>2. pc'[t] = "turn"
          BY <3>2, <1>1
        <4> QED BY <4>1, <4>2 DEF PassiveLabels
      <3> QED BY <1>3, <3>1, <3>2
    <2> QED BY <1>1, <2>1, <2>2, PassiveKept, QuietAction DEF PassiveLabels
  <1> DEFINE fs == [files EXCEPT ![d].creating = TRUE]
  <1>4. CASE /\ ~files[d].creating /\ files[d].state = "ACTIVE"
             /\ AcquireFrame(t, page_table, fs)
    <2>1. /\ fs[d].creating /\ fs[d].state = files[d].state /\ fs[d].published = files[d].published
          /\ \A e \in Files \ {d} : fs[e] = files[e]
          /\ fs \in [Files -> FileEntry]
      BY DEF TInv, PoolOK, FileEntry
    <2> HIDE DEF fs
    <2>2. files' = fs => FilesKept(t) /\ files'[d].creating
      <3>1. files[d].published \in Nat
        BY DEF TInv, PoolOK, FileEntry
      <3> QED BY <1>2, <1>4, <2>1, <3>1 DEF FilesKept
    <2>3. \A u \in Threads : Creates(u) => local[u].file # d
      BY <1>0, <1>4 DEF Structure, ThreadsOwn, ThreadOwns
    <2>4. ASSUME NEW f \in free_list, free_list' = free_list \ {f}, Granted(t, f, frames, page_table),
                 files' = fs
          PROVE  OwnershipInv'
      <3>1. /\ f \in Frames /\ frames[f].state = "FREE" /\ frames[f].page = NoPage
            /\ frames[f].pin = 0 /\ NoPage \notin PageId
            /\ \A u \in Threads : AvoidsFrame(u, f)
        BY <1>0, FreeFacts
      <3>2. /\ frames' = frames /\ page_table' = page_table
            /\ Alone(t) /\ pc'[t] = "extend" /\ local'[t].frame = f /\ local'[t].file = d
        BY <1>1, <1>2, <2>4, <3>1, GrantedNewFacts
      <3> QED BY <1>1, <1>2, <2>2, <2>3, <2>4, <3>1, <3>2, GrantNew
    <2>5. ASSUME NEW f \in Frames, IsVictimEligible(f), files' = fs, free_list' = free_list,
                 Granted(t, f, ResetFrame(frames, f), [page_table EXCEPT ![frames[f].page] = Absent])
          PROVE  OwnershipInv'
      <3>1. PICK v \in PageId : v = frames[f].page
        BY <1>0, <2>5, VictimFacts
      <3>2. /\ f \notin free_list /\ frames[f].state = "RESIDENT" /\ frames[f].pin = 0
            /\ \A u \in Threads : AvoidsFrame(u, f) /\ AvoidsPage(u, v)
        BY <1>0, <2>5, <3>1, VictimFacts
      <3>3. /\ frames' = ResetFrame(frames, f) /\ page_table' = [page_table EXCEPT ![v] = Absent]
            /\ Alone(t) /\ pc'[t] = "extend" /\ local'[t].frame = f /\ local'[t].file = d
        BY <1>1, <1>2, <2>5, <3>1, GrantedNewFacts
      <3>4. /\ frames'[f].state = "FREE" /\ frames'[f].page = NoPage /\ frames'[f].pin = 0
            /\ \A g \in Frames \ {f} : frames'[g] = frames[g]
        BY <3>3, ResetFacts
      <3>5. \A q \in PageId : page_table'[q] = IF q = v THEN Absent ELSE page_table[q]
        BY <3>3 DEF TInv, PoolOK
      <3> QED BY <1>1, <1>2, <2>2, <2>3, <2>5, <3>1, <3>2, <3>3, <3>4, <3>5, GrantNew
    <2>6. ASSUME NEW f \in Frames, IsVictimEligible(f), files' = fs, free_list' = free_list,
                 frames' = [frames EXCEPT ![f] = [@ EXCEPT !.state = "EVICTING",
                                                           !.io = "WRITEBACK_IN_PROGRESS"]],
                 page_table' = [page_table EXCEPT ![frames[f].page].state = "EVICTING"],
                 local' = [local EXCEPT ![t] = [@ EXCEPT !.frame = f, !.target = frames[f].page,
                                                          !.img = frames[f].ver]],
                 Goto(t, "write")
          PROVE  OwnershipInv'
      <3>1. PICK v \in PageId : v = frames[f].page
        BY <1>0, <2>6, VictimFacts
      <3>2. /\ Maps(v, "RESIDENT", f) /\ f \notin free_list
            /\ frames[f].state = "RESIDENT" /\ frames[f].pin = 0 /\ files[v.file].state = "ACTIVE"
            /\ \A u \in Threads : AvoidsFrame(u, f) /\ AvoidsPage(u, v)
        BY <1>0, <2>6, <3>1, VictimFacts
      <3>3. /\ frames'[f].state = "EVICTING" /\ frames'[f].page = v /\ frames'[f].pin = 0
            /\ \A g \in Frames \ {f} : frames'[g] = frames[g]
        BY <2>6, <3>1, <3>2 DEF TInv, PoolOK, Frame
      <3>4. /\ page_table'[v].state = "EVICTING" /\ page_table'[v].frame = f
            /\ page_table'[v].claims = page_table[v].claims
            /\ \A q \in PageId \ {v} : page_table'[q] = page_table[q]
        BY <2>6, <3>1, <3>2 DEF Maps, TInv, PoolOK, Entry
      <3>5. /\ Alone(t) /\ pc'[t] = "write"
            /\ local'[t].op = local[t].op /\ local'[t].page = local[t].page
            /\ local'[t].file = local[t].file /\ local'[t].frame = f /\ local'[t].target = v
        <4> DEFINE r == [local[t] EXCEPT !.frame = f, !.target = v, !.img = frames[f].ver]
        <4>1. /\ r.op = local[t].op /\ r.page = local[t].page /\ r.file = local[t].file
              /\ r.frame = f /\ r.target = v
          BY LocalFacts DEF Local
        <4>2. Alone(t) /\ pc'[t] = "write" /\ local'[t] = r
          BY <2>6, <3>1 DEF Goto, TInv, ControlOK, Alone
        <4> HIDE DEF r
        <4> QED BY <4>1, <4>2
      <3>6. PICK P \in SUBSET PageId : P = {}
        OBVIOUS
      <3>7. /\ v \notin P /\ local[t].op \in Requests /\ local[t].op \notin Fetches
            /\ \A q \in PageId \ (P \cup {v}) : page_table'[q] = page_table[q]
        BY <1>1, <3>4, <3>6 DEF Requests, Fetches
      <3> QED BY <1>1, <1>2, <1>4, <2>2, <2>6, <3>1, <3>2, <3>3, <3>4, <3>5, <3>6, <3>7, EvictDirty,
              ZenonT(30)
    <2>7. ASSUME Refused(t, page_table, fs), UNCHANGED <<frames, free_list>>
          PROVE  OwnershipInv'
      <3>1. /\ files' = [fs EXCEPT ![d].creating = FALSE] /\ page_table' = page_table
            /\ Return(t, "error")
        BY <1>1, <1>2, <2>7 DEF Refused, Return
      <3>2. \A e \in Files : /\ files'[e].creating = files[e].creating
                             /\ files'[e].published = files[e].published
                             /\ files'[e].state = files[e].state
        <4>1. files[d].creating = FALSE
          BY <1>4 DEF TInv, PoolOK, FileEntry
        <4> QED BY <2>1, <3>1, <4>1 DEF FileEntry
      <3>3. QuietPool
        BY <2>7, <3>1, <3>2 DEF QuietPool, SameBindings, EntryKept
      <3>4. Alone(t) /\ pc'[t] = "idle"
        BY <3>1, Returns
      <3> QED BY <1>1, <3>3, <3>4, PassiveKept, QuietAction DEF PassiveLabels
    <2> QED BY <1>4, <2>4, <2>5, <2>6, <2>7, ZenonT(30) DEF AcquireFrame
  <1> QED BY <1>2, <1>3, <1>4 DEF NewPage, TurnTaken

LEMMA FinishEvictionOwns ==
    ASSUME TInv, TInv', OwnershipInv, FlushesBehindGate, NEW t \in Threads, FinishEviction(t)
    PROVE  OwnershipInv'
  <1>0. Structure /\ Pins
    BY DEF OwnershipInv
  <1>1. pc[t] = "wrote" /\ local[t].op \in Requests /\ Evicts(t) /\ Busy(t)
    BY DEF FinishEviction, At, Requests, Fetches, Evicts, IoLabels, Busy
  <1>2. ThreadOwns(t)
    BY <1>0 DEF Structure, ThreadsOwn
  <1>3. PICK f \in Frames, v \in PageId : f = local[t].frame /\ v = local[t].target
    BY <1>1, <1>2, LocalFacts DEF ThreadOwns, Maps
  <1>4. /\ page_table[v].state = "EVICTING" /\ page_table[v].frame = f
        /\ frames[f].state = "EVICTING" /\ frames[f].page = v /\ f \notin free_list
    BY <1>0, <1>1, <1>2, <1>3, OwnedFrame DEF ThreadOwns, Maps
  <1>5. frames[f].pin = 0
    BY <1>0, <1>4, NotPinned
  <1>6. \A u \in Threads \ {t} : AvoidsFrame(u, f) /\ AvoidsPage(u, v)
    BY <1>0, <1>1, <1>3, FrameAvoided, OwnPageAvoided
  <1>7. \A u \in Threads : Builds(u) => local[u].page # v
    BY <1>4, <1>0 DEF Structure, ThreadsOwn, ThreadOwns, Maps
  <1>8. v.no < files[v.file].published
    BY <1>4, <1>7, <1>0 DEF Structure, MappedBelow, Below
  <1>9. UNCHANGED free_list
    BY DEF FinishEviction
  <1> DEFINE fr == ResetFrame(frames, f)
             pv == [page_table EXCEPT ![v] = Absent]
             pr == [page_table EXCEPT ![v].state = "RESIDENT"]
  <1>10. /\ fr \in [Frames -> Frame]
         /\ fr[f].state = "FREE" /\ fr[f].page = NoPage /\ fr[f].pin = 0
         /\ \A g \in Frames \ {f} : fr[g] = frames[g]
    BY ResetFacts
  <1>11. /\ pv \in [PageId -> Entry]
         /\ \A q \in PageId : pv[q] = IF q = v THEN Absent ELSE page_table[q]
    BY AbsentType DEF TInv, PoolOK
  <1>12. /\ pr \in [PageId -> Entry] /\ pr[v].state = "RESIDENT" /\ pr[v].frame = f
         /\ pr[v].claims = page_table[v].claims
         /\ \A q \in PageId \ {v} : pr[q] = page_table[q]
    BY <1>4 DEF TInv, PoolOK, Entry
  <1>13. \/ Granted(t, f, fr, pv) /\ UNCHANGED files
         \/ /\ frames' = [frames EXCEPT ![f] = [@ EXCEPT !.state = "RESIDENT", !.io = "NONE"]]
            /\ Refused(t, pr, files)
    BY <1>3 DEF FinishEviction
  <1> HIDE DEF fr, pv, pr
  <1>14. frames' = [frames EXCEPT ![f] = [@ EXCEPT !.state = "RESIDENT", !.io = "NONE"]] =>
            /\ frames'[f].state = "RESIDENT" /\ frames'[f].page = v /\ frames'[f].pin = 0
            /\ \A g \in Frames \ {f} : frames'[g] = frames[g]
    BY <1>4, <1>5 DEF TInv, PoolOK, Frame
  <1>15. page_table[v].claims = 0
    BY <1>0, <1>4, NotJoined DEF Loading
  <1>16. CASE local[t].op \in Fetches
    <2>1. PICK p \in PageId : p = local[t].page
      BY <1>1, <1>16, LocalFacts DEF Loads, Intends, Evicts
    <2>2. page_table[p].state = "LOAD_INTENT" /\ page_table[p].claims >= 1 /\ p # v
      BY <1>1, <1>2, <1>4, <1>16, <2>1 DEF ThreadOwns, Loads, Intends, Evicts
    <2>3. \A u \in Threads \ {t} : AvoidsPage(u, p)
      BY <1>0, <1>1, <1>16, <2>1, OwnPageAvoided DEF Loads, Intends, Evicts
    <2>4. p.no < files[p.file].published
      <3>1. \A u \in Threads : Builds(u) => local[u].page # p
        BY <2>2, <1>0 DEF Structure, ThreadsOwn, ThreadOwns, Maps
      <3> QED BY <2>2, <3>1, <1>0 DEF Structure, MappedBelow, Below
    <2>5. CASE Granted(t, f, fr, pv) /\ UNCHANGED files
      <3>1. /\ frames'[f].state = "LOADING" /\ frames'[f].page = p /\ frames'[f].pin = 0
            /\ \A g \in Frames \ {f} : frames'[g] = frames[g]
            /\ page_table'[p].state = "LOADING" /\ page_table'[p].frame = f
            /\ page_table'[p].claims = page_table[p].claims
            /\ \A q \in PageId \ {p} : page_table'[q] = IF q = v THEN Absent ELSE page_table[q]
            /\ Alone(t) /\ pc'[t] = "read" /\ local'[t].frame = f /\ local'[t].page = p
        BY <1>10, <1>11, <1>16, <2>1, <2>2, <2>5, GrantedFetchFacts
      <3> QED BY <1>1, <1>4, <1>5, <1>6, <1>9, <2>2, <2>3, <2>4, <2>5, <3>1, GrantFetch
    <2>6. CASE /\ frames' = [frames EXCEPT ![f] = [@ EXCEPT !.state = "RESIDENT", !.io = "NONE"]]
               /\ Refused(t, pr, files)
      <3>1. /\ files' = files /\ page_table' = [pr EXCEPT ![p] = Absent] /\ Goto(t, "idle")
            /\ local' = [Resolve(p, "FAILED") EXCEPT ![t] = [Fresh EXCEPT !.result = "error"]]
        BY <1>16, <2>1, <2>6 DEF Refused, Fetches
      <3>2. /\ page_table'[p] = Absent /\ page_table'[v] = pr[v]
            /\ \A q \in PageId \ {p, v} : page_table'[q] = page_table[q]
        BY <1>12, <2>2, <3>1
      <3>4. /\ pc'[t] = "idle"
            /\ \A u \in Threads \ {t} : pc'[u] = pc[u] /\ local'[u] = Resolve(p, "FAILED")[u]
        BY <3>1 DEF Goto, TInv, ControlOK, Resolve
      <3>5. \A u \in Threads \ {t} :
               /\ pc'[u] = pc[u] /\ SameCall(local[u], local'[u])
               /\ local'[u].load = IF Joins(u, p) THEN "FAILED" ELSE local[u].load
        BY <3>4, Resolves
      <3>6. \A u \in Threads \ {t} : /\ Follows(u, {f}, {p, v})
                                     /\ local'[u].load \in {local[u].load, "FAILED"}
                                     /\ Joins(u, p) => local'[u].load = "FAILED"
                                     /\ ~Joins(u, v)
        <4>1. Joiners(v) = {}
          BY <1>0, <1>4, NotJoined DEF Loading
        <4> QED BY <3>5, <4>1 DEF Follows, Joins, Joiners
      <3>7. Rebinds(t, {f}, {p, v})
        <4>1. NotToClose(p) /\ NotToClose(v)
          BY <1>4, <2>2 DEF NotToClose
        <4>2. pc[t] \in NoPinLabels /\ pc'[t] \in NoPinLabels /\ ~Closes(t)'
          BY <1>1, <3>4 DEF NoPinLabels, GuardLabels, Labels, Closes, IoLabels
        <4>3. FilesKept(t)
          BY <3>1 DEF FilesKept
        <4> QED BY <1>4, <1>6, <1>9, <1>14, <2>2, <2>3, <2>6, <3>2, <3>6, <4>1, <4>2, <4>3 DEF Rebinds
      <3>8. FrameBound(f)'
        BY <1>4, <1>9, <1>12, <1>14, <2>6, <3>2 DEF FrameBound, Maps
      <3>9. /\ EntryBound(p)' /\ Below(p)' /\ page_table'[p].claims = 0
            /\ EntryBound(v)' /\ Below(v)' /\ page_table'[v].claims = 0
        BY <1>8, <1>12, <1>14, <1>15, <2>6, <3>1, <3>2 DEF EntryBound, Below, Absent
      <3> QED BY <1>1, <1>4, <1>14, <2>6, <3>4, <3>6, <3>7, <3>8, <3>9, Abandon DEF Holds, Builds
    <2> QED BY <1>13, <2>5, <2>6
  <1>17. CASE local[t].op = "NEW_PAGE"
    <2>1. Creates(t)
      BY <1>1, <1>17 DEF Creates, Evicts
    <2>2. PICK d \in Files : d = local[t].file
      BY <2>1, LocalFacts
    <2>3. files[d].creating
      BY <1>2, <2>1, <2>2 DEF ThreadOwns
    <2>4. \A u \in Threads \ {t} : Creates(u) => local[u].file # d
      BY <1>0, <2>1, <2>2 DEF Structure, ThreadsApart
    <2>5. CASE Granted(t, f, fr, pv) /\ UNCHANGED files
      <3>1. /\ frames' = fr /\ page_table' = pv
            /\ Alone(t) /\ pc'[t] = "extend" /\ local'[t].frame = f /\ local'[t].file = d
        BY <1>17, <2>2, <2>5, GrantedNewFacts
      <3>2. FilesKept(t)
        BY <2>5 DEF FilesKept
      <3> QED BY <1>1, <1>4, <1>5, <1>6, <1>9, <1>10, <1>11, <2>2, <2>3, <2>4, <2>5, <3>1, <3>2, GrantNew
    <2>6. CASE /\ frames' = [frames EXCEPT ![f] = [@ EXCEPT !.state = "RESIDENT", !.io = "NONE"]]
               /\ Refused(t, pr, files)
      <3>1. /\ files' = [files EXCEPT ![d].creating = FALSE] /\ page_table' = pr /\ Return(t, "error")
        BY <1>17, <2>2, <2>6 DEF Refused, Return
      <3>2. Alone(t) /\ pc'[t] = "idle"
        BY <3>1, Returns
      <3>3. FilesKept(t) /\ \A e \in Files : files'[e].published = files[e].published
        BY <2>1, <2>2, <3>1, TurnFacts
      <3>4. Rebinds(t, {f}, {v})
        <4>1. NotToClose(v)
          BY <1>4 DEF NotToClose
        <4>2. pc[t] \in NoPinLabels /\ pc'[t] \in NoPinLabels /\ ~Closes(t)'
          BY <1>1, <3>2 DEF NoPinLabels, GuardLabels, Labels, Closes, IoLabels
        <4> QED BY <1>4, <1>6, <1>9, <1>12, <1>14, <2>6, <3>1, <3>2, <3>3, <4>1, <4>2, AloneFollows
                DEF Rebinds
      <3>5. FrameBound(f)'
        BY <1>4, <1>9, <1>12, <1>14, <2>6, <3>1 DEF FrameBound, Maps
      <3>6. EntryBound(v)' /\ Below(v)' /\ page_table'[v].claims = 0
        BY <1>8, <1>12, <1>14, <1>15, <2>6, <3>1, <3>3, PageIdFields DEF EntryBound, Below
      <3>7. \A u \in Threads \ {t} : local'[u].load = local[u].load /\ ~Joins(u, v)
        <4>1. Joiners(v) = {}
          BY <1>0, <1>4, NotJoined DEF Loading
        <4> QED BY <3>2, <4>1 DEF Alone, Joins, Joiners
      <3> QED BY <1>1, <1>4, <1>14, <2>6, <3>2, <3>4, <3>5, <3>6, <3>7, Abandon DEF Holds, Builds
    <2> QED BY <1>13, <2>5, <2>6
  <1> QED BY <1>1, <1>16, <1>17 DEF Requests

-----------------------------------------------------------------------------
(* Loads and new pages end.                                                 *)

LEMMA FinishLoadOwns ==
    ASSUME TInv, TInv', OwnershipInv, FlushesBehindGate, NEW t \in Threads, FinishLoad(t)
    PROVE  OwnershipInv'
  <1>0. Structure /\ Pins
    BY DEF OwnershipInv
  <1>1. pc[t] = "loaded" /\ Reads(t) /\ Loads(t) /\ Busy(t) /\ files' = files
    BY DEF FinishLoad, At, Reads, Loads, Busy
  <1>2. PICK f \in Frames, p \in PageId : f = local[t].frame /\ p = local[t].page
    BY <1>1, LocalFacts
  <1>3. /\ page_table[p].state = "LOADING" /\ page_table[p].frame = f /\ page_table[p].claims >= 1
        /\ frames[f].state = "LOADING" /\ frames[f].page = p /\ f \notin free_list
    BY <1>0, <1>1, <1>2, OwnedFrame DEF Structure, ThreadsOwn, ThreadOwns, Maps
  <1>4. \A u \in Threads \ {t} : AvoidsFrame(u, f) /\ AvoidsPage(u, p)
    BY <1>0, <1>1, <1>2, FrameAvoided, OwnPageAvoided
  <1>5. Pinners(f) = {} /\ frames[f].pin = 0
    BY <1>0, <1>3, NotPinned
  <1>6. FilesKept(t) /\ NotToClose(p)
    BY <1>1, <1>3 DEF FilesKept, NotToClose
  <1>7. CASE /\ frames' = ResetFrame(frames, f) /\ free_list' = free_list \cup {f}
             /\ page_table' = [page_table EXCEPT ![p] = Absent]
             /\ local' = [Resolve(p, "FAILED") EXCEPT ![t] = [Fresh EXCEPT !.result = "error"]]
             /\ Goto(t, "idle")
    <2>1. /\ frames'[f].state = "FREE" /\ frames'[f].page = NoPage /\ frames'[f].pin = 0
          /\ \A g \in Frames \ {f} : frames'[g] = frames[g]
      BY <1>7, ResetFacts
    <2>2. page_table'[p] = Absent /\ \A q \in PageId \ {p} : page_table'[q] = page_table[q]
      BY <1>7 DEF TInv, PoolOK
    <2>3. /\ pc'[t] = "idle"
          /\ \A u \in Threads \ {t} : pc'[u] = pc[u] /\ local'[u] = Resolve(p, "FAILED")[u]
      BY <1>7 DEF Goto, TInv, ControlOK, Resolve
    <2>4. \A u \in Threads \ {t} :
             /\ pc'[u] = pc[u] /\ SameCall(local[u], local'[u])
             /\ local'[u].load = IF Joins(u, p) THEN "FAILED" ELSE local[u].load
      BY <2>3, Resolves
    <2>5. \A u \in Threads \ {t} : /\ Follows(u, {f}, {p})
                                   /\ local'[u].load \in {local[u].load, "FAILED"}
                                   /\ Joins(u, p) => local'[u].load = "FAILED"
      BY <2>4 DEF Follows, Joins
    <2>6. Rebinds(t, {f}, {p})
      <3>1. pc[t] \in NoPinLabels /\ pc'[t] \in NoPinLabels /\ ~Closes(t)'
        BY <1>1, <2>3 DEF NoPinLabels, GuardLabels, Labels, Closes, IoLabels
      <3> QED BY <1>3, <1>4, <1>6, <1>7, <2>1, <2>2, <2>5, <3>1 DEF Rebinds
    <2>7. FrameBound(f)'
      BY <1>7, <2>1 DEF FrameBound
    <2>8. EntryBound(p)' /\ Below(p)' /\ page_table'[p].claims = 0
      BY <2>2 DEF EntryBound, Below, Absent
    <2> QED BY <1>1, <1>3, <2>1, <2>3, <2>5, <2>6, <2>7, <2>8, Abandon DEF Holds, Builds
  <1>8. CASE /\ frames' = [frames EXCEPT ![f] = [@ EXCEPT !.state = "RESIDENT", !.io = "NONE",
                                                          !.pin = page_table[p].claims]]
             /\ page_table' = [page_table EXCEPT ![p] = [@ EXCEPT !.state = "RESIDENT", !.claims = 0]]
             /\ local' = Resolve(p, f) /\ Goto(t, "latch") /\ UNCHANGED free_list
    <2>1. /\ frames'[f].state = "RESIDENT" /\ frames'[f].page = p
          /\ frames'[f].pin = page_table[p].claims
          /\ \A g \in Frames \ {f} : frames'[g] = frames[g]
      BY <1>3, <1>8 DEF TInv, PoolOK, Frame
    <2>2. /\ page_table'[p].state = "RESIDENT" /\ page_table'[p].frame = f
          /\ page_table'[p].claims = 0
          /\ \A q \in PageId \ {p} : page_table'[q] = page_table[q]
      BY <1>3, <1>8 DEF TInv, PoolOK, Entry
    <2>3. /\ pc'[t] = "latch" /\ local'[t] = local[t]
          /\ \A u \in Threads \ {t} : pc'[u] = pc[u] /\ local'[u] = Resolve(p, f)[u]
      BY <1>1, <1>8 DEF Goto, TInv, ControlOK, Resolve, Joiners
    <2>4. \A u \in Threads \ {t} :
             /\ pc'[u] = pc[u] /\ SameCall(local[u], local'[u])
             /\ local'[u].load = IF Joins(u, p) THEN f ELSE local[u].load
      BY <2>3, Resolves
    <2>5. f # "PENDING" /\ f # "FAILED"
      BY ConstantsAssumption
    <2>6. \A u \in Threads \ {t} : /\ Follows(u, {f}, {p})
                                   /\ Joins(u, p) => local'[u].load # "PENDING"
      BY <2>4, <2>5 DEF Follows, Joins
    <2>7. Rebinds(t, {f}, {p})
      <3>1. /\ pc[t] \in NoPinLabels /\ pc'[t] = "latch" /\ local'[t].frame \in {f} /\ ~Closes(t)'
        BY <1>1, <1>2, <2>3 DEF NoPinLabels, GuardLabels, Labels, Closes, IoLabels
      <3> QED BY <1>3, <1>4, <1>6, <1>8, <2>1, <2>2, <2>6, <3>1 DEF Rebinds
    <2>8. /\ ~Loads(t)' /\ ~Busy(t)' /\ ~Reads(t)' /\ ~Intends(t)' /\ ~Evicts(t)' /\ ~Holds(t)'
          /\ ~Builds(t)' /\ ~Creates(t)' /\ ~Flushes(t)' /\ CopiesToFlush(t)'
      BY <2>3 DEF Reads, Loads, Intends, Evicts, Holds, Builds, Creates, Flushes, CopiesToFlush,
                  IoLabels, Busy
    <2>9. Takes(t, {f}, {p}) /\ ThreadOwns(t)'
      BY <1>1, <2>8 DEF Takes, ThreadOwns, Holds, Builds
    <2>10. FrameBound(f)'
      BY <1>3, <1>8, <2>1, <2>2 DEF FrameBound, Maps
    <2>11. EntryBound(p)' /\ Below(p)'
      <3>1. \A u \in Threads : Builds(u) => local[u].page # p
        BY <1>0, <1>3 DEF Structure, ThreadsOwn, ThreadOwns
      <3>2. p.no < files[p.file].published
        BY <1>0, <1>3, <3>1 DEF Structure, MappedBelow, Below
      <3> QED BY <1>1, <2>1, <2>2, <3>2 DEF EntryBound, Below
    <2>12. ClaimsFit(p)'
      BY <1>0, <2>2, <2>6, <2>7, UnjoinedRebound
    <2>13. Pinners(f)' = Joiners(p) \cup {t} /\ t \notin Joiners(p)
      <3>1. HoldsPin(t, f)' /\ t \notin Joiners(p)
        BY <1>1, <1>2, <2>3 DEF HoldsPin, Joiners
      <3>2. ASSUME NEW u \in Threads \ {t} PROVE HoldsPin(u, f)' <=> Joins(u, p)
        <4>1. ~HoldsPin(u, f)
          BY <1>5 DEF Pinners
        <4> QED BY <2>4, <4>1 DEF HoldsPin, Joins, SameCall
      <3> QED BY <3>1, <3>2 DEF Pinners, Joiners, Joins
    <2>14. PinFit(f)'
      <3>1. ClaimsFit(p) /\ Loading(p) /\ page_table[p].claims \in Nat
        BY <1>0, <1>3 DEF Pins, Loading, TInv, PoolOK, Entry
      <3>2. IsFiniteSet(Joiners(p)) /\ Cardinality(Joiners(p)) \in Nat
        BY FiniteThreads DEF Joiners
      <3>3. Cardinality(Pinners(f)') = Cardinality(Joiners(p)) + 1
        BY <2>13, <3>2, FS_AddElement
      <3> QED BY <1>3, <2>1, <3>1, <3>2, <3>3 DEF PinFit, ClaimsFit
    <2>15. PinBound(f)'
      <3>1. \A u \in Pinners(f)' : local'[u].page = p
        BY <1>2, <2>3, <2>4, <2>13 DEF Joiners, SameCall
      <3> QED BY <2>1, <2>2, <3>1 DEF PinBound
    <2>16. Rebound({f}, {p})'
      BY <2>10, <2>11, <2>12, <2>14, <2>15 DEF Rebound
    <2> QED BY <2>7, <2>9, <2>16, RebindStep
  <1> QED BY <1>2, <1>7, <1>8 DEF FinishLoad

LEMMA BindNewPageOwns ==
    ASSUME TInv, TInv', OwnershipInv, FlushesBehindGate, NEW t \in Threads, BindNewPage(t)
    PROVE  OwnershipInv'
  <1>0. Structure /\ Pins
    BY DEF OwnershipInv
  <1>1. pc[t] = "extended" /\ Holds(t) /\ Creates(t) /\ Busy(t)
    BY DEF BindNewPage, At, Holds, Creates, Busy
  <1>2. PICK f \in Frames, d \in Files : f = local[t].frame /\ d = local[t].file
    BY <1>1, LocalFacts
  <1>3. /\ frames[f].state = "FREE" /\ frames[f].page = NoPage /\ f \notin free_list
        /\ files[d].creating
    BY <1>0, <1>1, <1>2, OwnedFrame DEF Structure, ThreadsOwn, ThreadOwns
  <1>4. frames[f].pin = 0
    BY <1>0, <1>3, NotPinned
  <1>5. \A u \in Threads \ {t} : AvoidsFrame(u, f) /\ (Creates(u) => local[u].file # d)
    BY <1>0, <1>1, <1>2, FrameAvoided DEF Structure, ThreadsApart
  <1>6. CASE /\ free_list' = free_list \cup {f} /\ files' = EndTurn(d) /\ Return(t, "error")
             /\ UNCHANGED <<frames, page_table>>
    <2>1. Alone(t) /\ pc'[t] = "idle"
      BY <1>6, Returns
    <2>2. FilesKept(t)
      BY <1>1, <1>2, <1>6, TurnFacts DEF EndTurn
    <2>3. Rebinds(t, {f}, {})
      <3>1. pc[t] \in NoPinLabels /\ pc'[t] \in NoPinLabels /\ ~Closes(t)'
        BY <1>1, <2>1 DEF NoPinLabels, GuardLabels, Labels, Closes, IoLabels
      <3> QED BY <1>3, <1>5, <1>6, <2>1, <2>2, <3>1, AloneFollows DEF Rebinds
    <2>4. FrameBound(f)'
      BY <1>3, <1>6 DEF FrameBound
    <2>5. \A u \in Threads \ {t} : local'[u].load = local[u].load
      BY <2>1 DEF Alone
    <2> QED BY <1>1, <1>2, <1>3, <1>4, <1>6, <2>1, <2>3, <2>4, <2>5, Abandon DEF Holds, Builds
  <1>7. ASSUME NEW p, p = [file |-> d, no |-> local[t].count], local[t].count = files[d].published,
               frames' = Bind(frames, f, p, "NONE"),
               page_table' = [page_table EXCEPT ![p] =
                                [state |-> "LOADING", frame |-> f, claims |-> 0]],
               local' = [local EXCEPT ![t] = [@ EXCEPT !.page = p, !.count = 0]],
               Goto(t, "build"), UNCHANGED <<free_list, files>>
        PROVE  OwnershipInv'
    <2>1. Alone(t) /\ pc'[t] = "build" /\ local'[t].frame = f /\ local'[t].file = d /\ local'[t].page = p
      <3> DEFINE r == [local[t] EXCEPT !.page = p, !.count = 0]
      <3>1. r.frame = f /\ r.file = d /\ r.page = p
        BY <1>2, LocalFacts DEF Local
      <3>2. Alone(t) /\ pc'[t] = "build" /\ local'[t] = r
        BY <1>7 DEF Goto, TInv, ControlOK, Alone
      <3> HIDE DEF r
      <3> QED BY <3>1, <3>2
    <2>2. p \in PageId /\ p.file = d /\ p.no = files[d].published
      BY <1>7, <2>1 DEF TInv, ControlOK, ThreadOK
    <2>3. /\ frames'[f].state = "LOADING" /\ frames'[f].page = p /\ frames'[f].pin = 0
          /\ \A g \in Frames \ {f} : frames'[g] = frames[g]
      BY <1>4, <1>7 DEF Bind, TInv, PoolOK, Frame
    <2>4. /\ page_table'[p].state = "LOADING" /\ page_table'[p].frame = f
          /\ page_table'[p].claims = 0
          /\ \A q \in PageId \ {p} : page_table'[q] = page_table[q]
      BY <1>7, <2>2 DEF TInv, PoolOK
    <2>5. page_table[p].state = "ABSENT"
      <3>1. ASSUME NEW u \in Threads, Builds(u), local[u].page = p PROVE FALSE
        <4>1. u # t /\ Creates(u)
          BY <1>1, <3>1 DEF Builds, Creates
        <4>2. local[u].file = d
          BY <1>0, <2>2, <3>1 DEF Structure, ThreadsOwn, ThreadOwns
        <4> QED BY <1>5, <4>1, <4>2
      <3>2. ~(p.no < files[p.file].published)
        BY <2>2 DEF TInv, PoolOK, FileEntry
      <3> QED BY <1>0, <2>2, <3>1, <3>2 DEF Structure, MappedBelow, Below
    <2>6. \A u \in Threads : AvoidsPage(u, p)
      BY <1>0, <2>2, <2>5, AbsentAvoided
    <2>7. Rebinds(t, {f}, {p})
      <3>1. pc[t] \in NoPinLabels /\ pc'[t] \in NoPinLabels /\ ~Closes(t)'
        BY <1>1, <2>1 DEF NoPinLabels, GuardLabels, Labels, Closes, IoLabels
      <3>2. FilesKept(t) /\ NotToClose(p)
        BY <1>3, <1>7, <2>2 DEF FilesKept, NotToClose
      <3> QED BY <1>3, <1>5, <1>7, <2>1, <2>2, <2>3, <2>4, <2>5, <2>6, <3>1, <3>2, AloneFollows
              DEF Rebinds
    <2>8. /\ Builds(t)' /\ Creates(t)'
          /\ ~Loads(t)' /\ ~Reads(t)' /\ ~Intends(t)' /\ ~Evicts(t)' /\ ~Holds(t)' /\ ~Flushes(t)'
          /\ CopiesToFlush(t)'
      BY <2>1 DEF Reads, Loads, Intends, Evicts, Holds, Builds, Creates, Flushes, CopiesToFlush,
                  IoLabels
    <2>9. Takes(t, {f}, {p})
      BY <1>1, <1>2, <1>5, <2>1, <2>8 DEF Takes, Builds
    <2>10. ThreadOwns(t)'
      BY <1>3, <1>7, <2>1, <2>2, <2>4, <2>8 DEF ThreadOwns, Maps
    <2>11. FrameBound(f)'
      BY <1>3, <1>7, <2>2, <2>3, <2>4 DEF FrameBound, Maps
    <2>12. EntryBound(p)' /\ Below(p)'
      BY <2>1, <2>3, <2>4, <2>8 DEF EntryBound, Below
    <2>13. ClaimsFit(p)'
      BY <1>0, <2>4, <2>5, <2>7, UnjoinedRebound DEF Loading
    <2>14. PinFit(f)' /\ PinBound(f)'
      BY <1>0, <1>3, <2>1, <2>3, <2>7, UnpinnedRebound, AloneFollows DEF NoPinLabels, GuardLabels, Labels
    <2>15. Rebound({f}, {p})'
      BY <2>11, <2>12, <2>13, <2>14 DEF Rebound
    <2> QED BY <2>7, <2>9, <2>10, <2>15, RebindStep
  <1> QED BY <1>2, <1>6, <1>7, ZenonT(30) DEF BindNewPage

LEMMA FinishNewPageOwns ==
    ASSUME TInv, TInv', OwnershipInv, FlushesBehindGate, NEW t \in Threads, FinishNewPage(t)
    PROVE  OwnershipInv'
  <1>0. Structure /\ Pins
    BY DEF OwnershipInv
  <1>1. pc[t] = "build" /\ Builds(t) /\ Creates(t) /\ Busy(t)
    BY DEF FinishNewPage, At, Builds, Creates, Busy
  <1>2. PICK f \in Frames, p \in PageId, d \in Files :
           f = local[t].frame /\ p = local[t].page /\ d = local[t].file
    BY <1>1, LocalFacts
  <1>3. /\ page_table[p].state = "LOADING" /\ page_table[p].frame = f /\ page_table[p].claims = 0
        /\ frames[f].state = "LOADING" /\ frames[f].page = p /\ f \notin free_list
        /\ p.file = d /\ p.no = files[d].published
    BY <1>0, <1>1, <1>2, OwnedFrame DEF Structure, ThreadsOwn, ThreadOwns, Maps
  <1>4. \A u \in Threads \ {t} : AvoidsFrame(u, f) /\ AvoidsPage(u, p)
    BY <1>0, <1>1, <1>2, FrameAvoided, OwnPageAvoided
  <1>5. Pinners(f) = {} /\ frames[f].pin = 0
    BY <1>0, <1>3, NotPinned
  <1>6. \A u \in Threads : ~Joins(u, p)
    BY <1>0, <1>3, NotJoined DEF Joiners, Joins
  <1>7. NotToClose(p)
    BY <1>3 DEF NotToClose
  <1>8. CASE /\ page_table' = [page_table EXCEPT ![p] = Absent] /\ frames' = ResetFrame(frames, f)
             /\ free_list' = free_list \cup {f} /\ files' = EndTurn(d) /\ Return(t, "error")
    <2>1. Alone(t) /\ pc'[t] = "idle"
      BY <1>8, Returns
    <2>2. FilesKept(t)
      BY <1>1, <1>2, <1>8, TurnFacts DEF EndTurn
    <2>3. /\ frames'[f].state = "FREE" /\ frames'[f].page = NoPage /\ frames'[f].pin = 0
          /\ \A g \in Frames \ {f} : frames'[g] = frames[g]
      BY <1>8, ResetFacts
    <2>4. page_table'[p] = Absent /\ \A q \in PageId \ {p} : page_table'[q] = page_table[q]
      BY <1>8 DEF TInv, PoolOK
    <2>5. Rebinds(t, {f}, {p})
      <3>1. pc[t] \in NoPinLabels /\ pc'[t] \in NoPinLabels /\ ~Closes(t)'
        BY <1>1, <2>1 DEF NoPinLabels, GuardLabels, Labels, Closes, IoLabels
      <3> QED BY <1>3, <1>4, <1>7, <1>8, <2>1, <2>2, <2>3, <2>4, <3>1, AloneFollows DEF Rebinds
    <2>6. FrameBound(f)'
      BY <1>8, <2>3 DEF FrameBound
    <2>7. EntryBound(p)' /\ Below(p)' /\ page_table'[p].claims = 0
      BY <2>4 DEF EntryBound, Below, Absent
    <2>8. \A u \in Threads \ {t} : local'[u].load = local[u].load
      BY <2>1 DEF Alone
    <2> QED BY <1>1, <1>2, <1>3, <1>6, <2>1, <2>3, <2>5, <2>6, <2>7, <2>8, Abandon DEF Holds
  <1>9. CASE /\ files' = [files EXCEPT ![d] = [@ EXCEPT !.published = p.no + 1, !.creating = FALSE]]
             /\ frames' = [frames EXCEPT ![f] = [@ EXCEPT !.state = "RESIDENT", !.pin = 1,
                                                          !.dirty = TRUE, !.ver = 1,
                                                          !.gen = frames[f].gen + 1]]
             /\ page_table' = [page_table EXCEPT ![p].state = "RESIDENT"]
             /\ Goto(t, "latch") /\ UNCHANGED <<free_list, local>>
    <2>1. Alone(t) /\ pc'[t] = "latch" /\ local'[t] = local[t]
      BY <1>9, Moves
    <2>2. /\ files'[d].published = p.no + 1 /\ files'[d].state = files[d].state
          /\ \A e \in Files \ {d} : files'[e] = files[e]
      BY <1>9 DEF TInv, PoolOK, FileEntry
    <2>3. p.no \in Nat
      BY PageIdFields
    <2>4. FilesKept(t)
      <3>1. files'[d].published >= files[d].published
        BY <1>3, <2>2, <2>3
      <3>2. \A e \in Files \ {d} : /\ files'[e].state = files[e].state
                                   /\ files'[e].published = files[e].published
                                   /\ files'[e].creating = files[e].creating
        BY <2>2
      <3> QED BY <1>1, <1>2, <2>2, <3>1, <3>2 DEF FilesKept
    <2>5. /\ frames'[f].state = "RESIDENT" /\ frames'[f].page = p /\ frames'[f].pin = 1
          /\ \A g \in Frames \ {f} : frames'[g] = frames[g]
      BY <1>3, <1>9 DEF TInv, PoolOK, Frame
    <2>6. /\ page_table'[p].state = "RESIDENT" /\ page_table'[p].frame = f
          /\ page_table'[p].claims = 0
          /\ \A q \in PageId \ {p} : page_table'[q] = page_table[q]
      BY <1>3, <1>9 DEF TInv, PoolOK, Entry
    <2>7. Rebinds(t, {f}, {p})
      <3>1. /\ pc[t] \in NoPinLabels /\ pc'[t] = "latch" /\ local'[t].frame \in {f} /\ ~Closes(t)'
        BY <1>1, <1>2, <2>1 DEF NoPinLabels, GuardLabels, Labels, Closes, IoLabels
      <3> QED BY <1>3, <1>4, <1>7, <1>9, <2>1, <2>4, <2>5, <2>6, <3>1, AloneFollows DEF Rebinds
    <2>8. /\ ~Loads(t)' /\ ~Busy(t)' /\ ~Reads(t)' /\ ~Intends(t)' /\ ~Evicts(t)' /\ ~Holds(t)'
          /\ ~Builds(t)' /\ ~Creates(t)' /\ ~Flushes(t)' /\ CopiesToFlush(t)'
      BY <2>1 DEF Reads, Loads, Intends, Evicts, Holds, Builds, Creates, Flushes, CopiesToFlush,
                  IoLabels, Busy
    <2>9. Takes(t, {f}, {p}) /\ ThreadOwns(t)'
      BY <1>1, <1>2, <2>8 DEF Takes, ThreadOwns, Holds
    <2>10. FrameBound(f)'
      BY <1>3, <1>9, <2>5, <2>6 DEF FrameBound, Maps
    <2>11. EntryBound(p)' /\ Below(p)'
      BY <1>3, <2>2, <2>3, <2>5, <2>6 DEF EntryBound, Below
    <2>12. ClaimsFit(p)'
      BY <1>0, <1>6, <2>6, <2>7, UnjoinedRebound
    <2>13. Pinners(f)' = {t}
      <3>1. HoldsPin(t, f)'
        BY <1>2, <2>1 DEF HoldsPin
      <3>2. \A u \in Threads \ {t} : HoldsPin(u, f)' <=> HoldsPin(u, f)
        BY <2>1 DEF Alone, HoldsPin
      <3> QED BY <1>5, <3>1, <3>2 DEF Pinners
    <2>14. PinFit(f)'
      <3>1. Cardinality(Pinners(f)') = 1
        BY <2>13, FS_Singleton
      <3>2. 1 =< MaxPins
        BY ConstantsAssumption
      <3> QED BY <2>5, <3>1, <3>2 DEF PinFit
    <2>15. PinBound(f)'
      BY <1>2, <2>1, <2>5, <2>6, <2>13 DEF PinBound
    <2>16. Rebound({f}, {p})'
      BY <2>10, <2>11, <2>12, <2>14, <2>15 DEF Rebound
    <2> QED BY <2>7, <2>9, <2>16, RebindStep
  <1> QED BY <1>2, <1>8, <1>9 DEF FinishNewPage

-----------------------------------------------------------------------------
(* The flush loop and the closing of a file.                                *)

(* Where a thread runs the flush loop, and where it goes from there. *)
FlushPoints == {"start_flush", "flush", "wrote", "retire", "drain", "quiesce", "shutdown"}
FlushEnds == {"idle", "flush", "copy"}

(* In frames fr nothing is bound, pinned or made dirty that was not, and the writebacks of   *)
(* threads other than t go on.                                                              *)
Settles(t, fr) ==
    /\ \A g \in Frames : /\ fr[g].state = frames[g].state
                         /\ fr[g].page = frames[g].page
                         /\ fr[g].pin = frames[g].pin
                         /\ fr[g].dirty => frames[g].dirty
    /\ \A u \in Threads \ {t} :
          Flushes(u) => /\ fr[local[u].frame].io = "WRITEBACK_IN_PROGRESS"
                        /\ fr[local[u].frame].dirty

(* In registry fs no turn and no bound changes, and no file is closed. *)
Gates(fs) ==
    \A d \in Files : /\ fs[d].creating = files[d].creating
                     /\ fs[d].published = files[d].published
                     /\ fs[d].state = "CLOSED" => files[d].state = "CLOSED"

(* Before the step t is in a flush, and has neither a load nor a turn nor a pin. *)
InFlush(t) ==
    /\ pc[t] \in FlushPoints
    /\ pc[t] = "wrote" => local[t].op \notin Requests

LEMMA InFlushOwns ==
    ASSUME NEW t \in Threads, InFlush(t)
    PROVE  /\ ~Loads(t) /\ ~Holds(t) /\ ~Builds(t) /\ ~Creates(t)
           /\ \A g \in Frames : ~HoldsPin(t, g)
           /\ \A q \in PageId : ~Joins(t, q)
  <1>1. ~Loads(t) /\ ~Holds(t) /\ ~Builds(t) /\ ~Creates(t)
    BY DEF InFlush, FlushPoints, Loads, Reads, Intends, Holds, Builds, Creates, IoLabels, Requests
  <1>2. (\A g \in Frames : ~HoldsPin(t, g)) /\ (\A q \in PageId : ~Joins(t, q))
    BY DEF InFlush, FlushPoints, HoldsPin, Joins
  <1> QED BY <1>1, <1>2

(* Pins and claims of all threads when t has none before or after the step. *)
LEMMA FlushPins ==
    ASSUME NEW t \in Threads, InFlush(t), Alone(t), pc'[t] \in FlushEnds
    PROVE  \A u \in Threads : PinKept(u)
  <1>1. PinKept(t)
    BY InFlushOwns DEF PinKept, FlushEnds, HoldsPin, Joins
  <1>2. \A u \in Threads \ {t} : PinKept(u)
    BY OtherPinKept DEF Alone
  <1> QED BY <1>1, <1>2

(* The step that ends a pass of the flush loop without closing a file. *)
LEMMA PassStep ==
    ASSUME TInv, TInv', OwnershipInv, FlushesBehindGate, NEW t \in Threads,
           InFlush(t), Alone(t), pc'[t] \in FlushEnds,
           Settles(t, frames'), Gates(files'), UNCHANGED <<free_list, page_table>>,
           pc'[t] = "copy" => /\ local'[t].op \notin Requests
                              /\ Maps(local'[t].target, "RESIDENT", local'[t].frame)
                              /\ frames'[local'[t].frame].io = "WRITEBACK_IN_PROGRESS"
                              /\ frames'[local'[t].frame].dirty
                              /\ \A u \in Threads \ {t} : AvoidsFrame(u, local'[t].frame),
           Closes(t)' => FileDrained(t)'
    PROVE  OwnershipInv'
  <1>0. Structure /\ Pins /\ ClosesDrained
    BY DEF OwnershipInv
  <1>1. PoolKept({}, {})
    <2>1. \A q \in PageId : files'[q.file].published >= files[q.file].published
      BY PageIdFields DEF Gates, TInv, PoolOK, FileEntry
    <2> QED BY <2>1 DEF PoolKept, Settles, FrameKept, EntryKept
  <1>2. ASSUME NEW u \in Threads \ {t} PROVE OwnerKept(u, {}, {})
    <2>1. ThreadOwns(u)
      BY <1>0 DEF Structure, ThreadsOwn
    <2>2. Kept(u)
      BY OtherPinKept DEF Alone
    <2>3. Creates(u) => files'[local[u].file].creating
                        /\ files'[local[u].file].published = files[local[u].file].published
      BY <2>1, LocalFacts DEF ThreadOwns, Gates
    <2> QED BY <2>2, <2>3 DEF OwnerKept, Settles
  <1>3. /\ ~Loads(t)' /\ ~Reads(t)' /\ ~Intends(t)' /\ ~Holds(t)' /\ ~Builds(t)' /\ ~Creates(t)'
        /\ ~Evicts(t)' /\ (Flushes(t)' <=> pc'[t] = "copy") /\ (Busy(t)' <=> Flushes(t)')
    BY DEF FlushEnds, Loads, Reads, Intends, Holds, Builds, Creates, Evicts, Flushes, Busy, IoLabels
  <1>4. Takes(t, {}, {})
    BY <1>3, InFlushOwns DEF Takes
  <1>5. ThreadOwns(t)'
    BY <1>3 DEF ThreadOwns, CopiesToFlush, Maps
  <1>6. ClosedOwnsNothing'
    BY <1>0 DEF Structure, ClosedOwnsNothing, Gates
  <1>7. Structure'
    <2>1. OthersKept(t, {}, {})
      BY <1>2 DEF OthersKept
    <2> QED BY <1>0, <1>1, <1>4, <1>5, <1>6, <2>1, StructureStep
  <1>8. PinsKept({}, {})
    BY FlushPins, PinnersKept DEF PinsKept, Settles
  <1>9. Pins'
    BY <1>0, <1>8, PinsStep
  <1>10. ClosingKept({})
    BY DEF ClosingKept, Settles, Gates
  <1>11. ClosesDrained'
    BY <1>0, <1>1, <1>2, <1>10, ClosingStep DEF OwnerKept
  <1> QED BY <1>7, <1>9, <1>11 DEF OwnershipInv

(* Every page of file d is resident, without a pin, and in nobody's hands but t's. *)
Abandoned(t, d) ==
    \A p \in PageId :
       p.file = d /\ page_table[p].state # "ABSENT" =>
          /\ page_table[p].state = "RESIDENT"
          /\ frames[page_table[p].frame].pin = 0
          /\ \A u \in Threads \ {t} : AvoidsFrame(u, page_table[p].frame)

LEMMA CloseFileOwns ==
    ASSUME TInv, TInv', OwnershipInv, FlushesBehindGate, NEW t \in Threads, InFlush(t),
           NEW l, l.file \in Files, NEW fr \in [Frames -> Frame], NEW fs \in [Files -> FileEntry],
           Settles(t, fr), Gates(fs), ~files[l.file].creating, Abandoned(t, l.file),
           CloseFile(t, l, fr, fs)
    PROVE  OwnershipInv'
  <1>0. Structure /\ Pins /\ ClosesDrained
    BY DEF OwnershipInv
  <1> DEFINE d == l.file
             Q == {p \in PageId : p.file = d /\ page_table[p].state # "ABSENT"}
             F == {page_table[p].frame : p \in Q}
  <1>1. /\ page_table' = [p \in PageId |-> IF p \in Q THEN Absent ELSE page_table[p]]
        /\ frames' = [f \in Frames |-> IF f \in F THEN ResetFrame(fr, f)[f] ELSE fr[f]]
        /\ free_list' = free_list \cup F
        /\ files' = [fs EXCEPT ![d] = Closed]
        /\ Return(t, "ok")
    BY DEF CloseFile
  <1>2. ASSUME NEW q \in Q
        PROVE  /\ page_table[q].frame \in Frames
               /\ page_table[q].state = "RESIDENT"
               /\ frames[page_table[q].frame].page = q
               /\ frames[page_table[q].frame].pin = 0
               /\ frames[page_table[q].frame].state = "RESIDENT"
               /\ \A u \in Threads \ {t} : AvoidsFrame(u, page_table[q].frame)
    <2>1. /\ page_table[q].state = "RESIDENT" /\ frames[page_table[q].frame].pin = 0
          /\ \A u \in Threads \ {t} : AvoidsFrame(u, page_table[q].frame)
      BY DEF Abandoned
    <2>2. Maps(q, "RESIDENT", page_table[q].frame)
      BY <2>1 DEF Maps
    <2> QED BY <1>0, <2>1, <2>2, MappedFrame
  <1>3. ASSUME NEW g \in F
        PROVE  /\ g \in Frames /\ frames[g].page \in Q /\ frames[g].pin = 0
               /\ frames[g].state = "RESIDENT"
               /\ \A u \in Threads \ {t} : AvoidsFrame(u, g)
    BY <1>2
  <1>4. F \subseteq Frames /\ Q \subseteq PageId
    BY <1>3
  <1>5. /\ \A q \in Q : page_table'[q] = Absent
        /\ \A q \in PageId \ Q : page_table'[q] = page_table[q]
        /\ \A g \in Frames \ F : frames'[g] = fr[g] /\ (g \in free_list' <=> g \in free_list)
        /\ files'[d] = Closed
        /\ \A e \in Files \ {d} : files'[e] = fs[e]
    BY <1>1
  <1>6. ASSUME NEW g \in F
        PROVE  frames'[g].state = "FREE" /\ frames'[g].page = NoPage /\ frames'[g].pin = 0
               /\ g \in free_list'
    <2>1. frames'[g] = ResetFrame(fr, g)[g] /\ g \in Frames
      BY <1>1, <1>3
    <2>2. /\ ResetFrame(fr, g)[g].state = "FREE" /\ ResetFrame(fr, g)[g].page = NoPage
          /\ ResetFrame(fr, g)[g].pin = 0
      BY <2>1 DEF ResetFrame, Frame
    <2> QED BY <1>1, <2>1, <2>2
  <1>7. Alone(t) /\ pc'[t] = "idle"
    BY <1>1, Returns
  <1>8. ASSUME NEW p \in PageId, page_table[p].state # "ABSENT", p \notin Q
        PROVE  p.file \in Files /\ p.file # d
    BY <1>8, PageIdFields
  <1> HIDE DEF F, Q
  <1>9. PoolKept(F, Q)
    <2>1. \A g \in Frames \ F : FrameKept(g)
      BY <1>5 DEF FrameKept, Settles
    <2>2. \A q \in PageId \ Q : EntryKept(q)
      BY <1>5 DEF EntryKept
    <2>3. \A g \in F : frames[g].page \in Q
      BY <1>3
    <2>4. \A q \in Q : page_table[q].frame \in F
      BY DEF F
    <2>5. ASSUME NEW q \in PageId \ Q, page_table[q].state # "ABSENT"
          PROVE  files'[q.file].published >= files[q.file].published
      <3>1. q.file \in Files \ {d}
        BY <1>8, <2>5
      <3>2. files'[q.file].published = files[q.file].published
        BY <1>5, <3>1 DEF Gates
      <3>3. files[q.file].published \in Nat
        BY <3>1 DEF TInv, PoolOK, FileEntry
      <3> QED BY <3>2, <3>3
    <2> QED BY <1>4, <2>1, <2>2, <2>3, <2>4, <2>5 DEF PoolKept
  <1>10. ASSUME NEW u \in Threads \ {t} PROVE OwnerKept(u, F, Q)
    <2>1. ThreadOwns(u)
      BY <1>0 DEF Structure, ThreadsOwn
    <2>2. Kept(u)
      BY <1>7, OtherPinKept DEF Alone
    <2>3. Creates(u) => files'[local[u].file].creating
                        /\ files'[local[u].file].published = files[local[u].file].published
      <3>1. SUFFICES ASSUME Creates(u)
                     PROVE  files'[local[u].file].creating
                            /\ files'[local[u].file].published = files[local[u].file].published
        OBVIOUS
      <3>2. local[u].file \in Files /\ files[local[u].file].creating
        BY <2>1, <3>1, LocalFacts DEF ThreadOwns
      <3> QED BY <1>5, <3>2 DEF Gates
    <2>4. ASSUME NEW q \in Q PROVE AvoidsPage(u, q)
      BY <2>1, <2>4, <1>2 DEF ThreadOwns, AvoidsPage, AvoidsFrame, Maps, Loads, Busy
    <2>5. \A g \in F : AvoidsFrame(u, g)
      BY <1>3
    <2>6. Flushes(u) => /\ frames'[local[u].frame].io = "WRITEBACK_IN_PROGRESS"
                        /\ frames'[local[u].frame].dirty
      <3>1. Flushes(u) => local[u].frame \in Frames \ F
        BY <2>5, LocalFacts DEF AvoidsFrame, Busy
      <3> QED BY <1>5, <3>1 DEF Settles
    <2> QED BY <2>2, <2>3, <2>4, <2>5, <2>6 DEF OwnerKept
  <1>11. /\ ~Loads(t)' /\ ~Reads(t)' /\ ~Intends(t)' /\ ~Holds(t)' /\ ~Builds(t)' /\ ~Creates(t)'
         /\ ~Evicts(t)' /\ ~Flushes(t)' /\ ~Busy(t)' /\ ~Closes(t)'
    BY <1>7 DEF Loads, Reads, Intends, Holds, Builds, Creates, Evicts, Flushes, Busy, IoLabels,
                Closes
  <1>12. Takes(t, F, Q)
    BY <1>11, InFlushOwns DEF Takes
  <1>13. ThreadOwns(t)'
    BY <1>7, <1>11 DEF ThreadOwns, CopiesToFlush
  <1>14. ClosedOwnsNothing'
    <2>1. ASSUME NEW p \in PageId, p.file = d PROVE page_table'[p].state = "ABSENT"
      BY <1>5, <1>8, <2>1 DEF Absent
    <2>2. ~files'[d].creating
      BY <1>5 DEF Closed
    <2>3. ASSUME NEW e \in Files \ {d}, files'[e].state = "CLOSED"
          PROVE  /\ ~files'[e].creating
                 /\ \A p \in PageId : p.file = e => page_table'[p].state = "ABSENT"
      <3>1. files[e].state = "CLOSED"
        BY <1>5, <2>3 DEF Gates
      <3>2. /\ ~files[e].creating
            /\ \A p \in PageId : p.file = e => page_table[p].state = "ABSENT"
        BY <1>0, <3>1 DEF Structure, ClosedOwnsNothing
      <3> QED BY <1>5, <3>2 DEF Gates, Absent
    <2> QED BY <2>1, <2>2, <2>3 DEF ClosedOwnsNothing
  <1>15. Structure'
    <2>1. OthersKept(t, F, Q)
      BY <1>10 DEF OthersKept
    <2>2. \A g \in F : FrameBound(g)'
      BY <1>6 DEF FrameBound
    <2>3. \A q \in Q : EntryBound(q)' /\ Below(q)'
      BY <1>5 DEF EntryBound, Below, Absent
    <2> QED BY <1>0, <1>9, <1>12, <1>13, <1>14, <2>1, <2>2, <2>3, StructureStep
  <1>16. Pins'
    <2>1. \A u \in Threads : PinKept(u)
      BY <1>7, FlushPins DEF FlushEnds
    <2>2. PinsKept(F, Q)
      BY <1>4, <1>5, <2>1, PinnersKept DEF PinsKept, Settles, F
    <2>3. ASSUME NEW g \in F PROVE PinFit(g)' /\ PinBound(g)'
      <3>1. g \in Frames /\ Pinners(g) = {}
        BY <1>0, <1>3, NotPinned
      <3>2. Pinners(g)' = {}
        BY <2>1, <3>1, PinnersKept
      <3> QED BY <1>6, <3>1, <3>2, UnpinnedAfter
    <2>4. ASSUME NEW q \in Q PROVE ClaimsFit(q)'
      <3>1. q \in PageId /\ Joiners(q) = {}
        BY <1>0, <1>2, <1>4, NotJoined DEF Loading
      <3>2. Joiners(q)' = {}
        BY <2>1, <3>1, PinnersKept
      <3>3. page_table'[q].claims = 0
        BY <1>5 DEF Absent
      <3> QED BY <3>1, <3>2, <3>3, UnjoinedAfter
    <2> QED BY <1>0, <2>2, <2>3, <2>4, PinsStep
  <1>17. ClosesDrained'
    <2>1. ClosingKept(F)
      <3>1. \A e \in Files : files'[e].creating => files[e].creating
        BY <1>5 DEF Gates, Closed
      <3> QED BY <1>5, <3>1 DEF ClosingKept, Settles
    <2>2. \A q \in Q : NotToClose(q)
      BY <1>5 DEF NotToClose, Absent
    <2> QED BY <1>0, <1>9, <1>10, <1>11, <2>1, <2>2, ClosingStep DEF OwnerKept
  <1> QED BY <1>15, <1>16, <1>17 DEF OwnershipInv

(* A file that l retires is drained, and its dirty pages in fr are on the list. *)
Listed(l, fr) ==
    /\ ~files[l.file].creating
    /\ \A p \in PageId :
          p.file = l.file /\ page_table[p].state # "ABSENT" =>
             /\ page_table[p].state = "RESIDENT"
             /\ fr[page_table[p].frame].pin = 0
             /\ ~fr[page_table[p].frame].dirty \/ l.failed \/ p \in l.todo

(* A resident frame is used by no other thread than a flush that writes it back. *)
LEMMA OnlyFlushed ==
    ASSUME TInv, Structure, NEW t \in Threads, NEW u \in Threads \ {t}, NEW fr, Settles(t, fr),
           NEW f \in Frames, frames[f].state = "RESIDENT",
           ~fr[f].dirty \/ fr[f].io # "WRITEBACK_IN_PROGRESS"
    PROVE  AvoidsFrame(u, f)
  <1> DEFINE g == local[u].frame
  <1>1. /\ Reads(u) \/ Builds(u) => frames[g].state = "LOADING"
        /\ Evicts(u) => frames[g].state = "EVICTING"
        /\ Holds(u) => frames[g].state = "FREE"
    BY OwnedFrame
  <1> HIDE DEF g
  <1>2. Busy(u) /\ g = f => Flushes(u)
    BY <1>1 DEF Busy
  <1> QED BY <1>2 DEF Settles, AvoidsFrame, g

LEMMA FlushPagesOwns ==
    ASSUME TInv, TInv', OwnershipInv, FlushesBehindGate, NEW t \in Threads, InFlush(t),
           NEW l, FlushLocal(l), l.op \notin Requests,
           NEW fr \in [Frames -> Frame], NEW fs \in [Files -> FileEntry], NEW aw,
           Settles(t, fr), Gates(fs), l.op = "RETIRE_FLUSH" => Listed(l, fr),
           FlushPages(t, l, fr, fs, aw)
    PROVE  OwnershipInv'
  <1>0. Structure /\ l \in Local /\ l.file \in Files
    BY DEF OwnershipInv, FlushLocal
  <1>1. ASSUME \A p \in l.todo : ~Unflushed(fr, p), FlushDone(t, l, fr, fs, aw) PROVE OwnershipInv'
    <2>1. CASE l.op = "RETIRE_FLUSH" /\ ~l.failed /\ CloseFile(t, l, fr, fs)
      <3>1. Listed(l, fr)
        BY <2>1
      <3>2. ASSUME NEW p \in PageId, p.file = l.file, page_table[p].state # "ABSENT"
            PROVE  /\ page_table[p].state = "RESIDENT"
                   /\ frames[page_table[p].frame].pin = 0
                   /\ \A u \in Threads \ {t} : AvoidsFrame(u, page_table[p].frame)
        <4>1. /\ page_table[p].state = "RESIDENT" /\ fr[page_table[p].frame].pin = 0
              /\ ~fr[page_table[p].frame].dirty \/ p \in l.todo
          BY <2>1, <3>1, <3>2 DEF Listed
        <4>2. ~fr[page_table[p].frame].dirty
          BY <1>1, <4>1 DEF Unflushed
        <4>3. Maps(p, "RESIDENT", page_table[p].frame)
          BY <4>1 DEF Maps
        <4>4. page_table[p].frame \in Frames /\ frames[page_table[p].frame].state = "RESIDENT"
          BY <1>0, <4>3, MappedFrame
        <4> QED BY <1>0, <4>1, <4>2, <4>4, OnlyFlushed DEF Settles
      <3>3. Abandoned(t, l.file)
        BY <3>2 DEF Abandoned
      <3> QED BY <1>0, <2>1, <3>1, <3>3, CloseFileOwns DEF Listed
    <2>2. CASE /\ frames' = fr /\ files' = fs
               /\ Return(t, IF l.failed THEN "error" ELSE "ok")
               /\ UNCHANGED <<free_list, page_table>>
      <3>1. PICK res : Return(t, res)
        BY <2>2
      <3>2. Alone(t) /\ pc'[t] = "idle"
        BY <3>1, Returns
      <3>3. ~Closes(t)'
        BY <3>2 DEF Closes, IoLabels
      <3>4. Settles(t, frames') /\ Gates(files')
        BY <2>2
      <3> QED BY <2>2, <3>2, <3>3, <3>4, PassStep DEF FlushEnds
    <2> QED BY <1>1, <2>1, <2>2 DEF FlushDone
  <1>2. ASSUME NEW p \in l.todo, Unflushed(fr, p),
               \A q \in l.todo : Unflushed(fr, q) => PageLeq(p, q),
               NEW rest, rest = [l EXCEPT !.todo = {q \in l.todo : PageLeq(p, q)}, !.target = p],
               NEW f, f = page_table[p].frame,
               \/ /\ frames' = fr
                  /\ Goto(t, "flush")
                  /\ local' = [local EXCEPT ![t] = rest]
               \/ /\ ~(page_table[p].state = "EVICTING" \/ fr[f].io # "NONE")
                  /\ frames' = [fr EXCEPT ![f].io = "WRITEBACK_IN_PROGRESS"]
                  /\ Goto(t, "copy")
                  /\ local' = [local EXCEPT ![t] = [rest EXCEPT !.frame = f,
                                                                !.epoch = fr[f].epoch]],
               files' = fs, UNCHANGED <<free_list, page_table>>
        PROVE  OwnershipInv'
    <2>1. p \in PageId /\ f \in Frames /\ l.todo \subseteq PageId
      BY <1>0, <1>2 DEF Local, TInv, PoolOK, Entry
    <2>2. /\ rest.op = l.op /\ rest.file = l.file /\ rest.failed = l.failed /\ rest.target = p
          /\ \A q \in l.todo : PageLeq(p, q) => q \in rest.todo
      BY <1>0, <1>2 DEF Local
    <2>3. PICK m : /\ local' = [local EXCEPT ![t] = m]
                   /\ m.op = l.op /\ m.file = l.file /\ m.failed = l.failed /\ m.target = p
                   /\ m.todo = rest.todo
                   /\ \/ Goto(t, "flush") /\ frames' = fr
                      \/ /\ Goto(t, "copy") /\ m.frame = f
                         /\ ~(page_table[p].state = "EVICTING" \/ fr[f].io # "NONE")
                         /\ frames' = [fr EXCEPT ![f].io = "WRITEBACK_IN_PROGRESS"]
      <3> DEFINE m == [rest EXCEPT !.frame = f, !.epoch = fr[f].epoch]
      <3>2. /\ m.op = rest.op /\ m.file = rest.file /\ m.failed = rest.failed
            /\ m.target = rest.target /\ m.todo = rest.todo /\ m.frame = f
        BY <1>0, <1>2 DEF Local
      <3> HIDE DEF m
      <3>3. CASE frames' = fr /\ Goto(t, "flush") /\ local' = [local EXCEPT ![t] = rest]
        BY <2>2, <3>3
      <3>4. CASE /\ ~(page_table[p].state = "EVICTING" \/ fr[f].io # "NONE")
                 /\ frames' = [fr EXCEPT ![f].io = "WRITEBACK_IN_PROGRESS"]
                 /\ Goto(t, "copy")
                 /\ local' = [local EXCEPT ![t] = m]
        BY <2>2, <3>2, <3>4
      <3> QED BY <1>2, <3>3, <3>4 DEF m
    <2>4. /\ Alone(t) /\ local'[t] = m
          /\ \/ pc'[t] = "flush" /\ frames' = fr
             \/ /\ pc'[t] = "copy" /\ m.frame = f
                /\ ~(page_table[p].state = "EVICTING" \/ fr[f].io # "NONE")
                /\ frames' = [fr EXCEPT ![f].io = "WRITEBACK_IN_PROGRESS"]
      <3>1. PICK x : pc' = [pc EXCEPT ![t] = x] /\ (x = "copy" \/ x = "flush")
                     /\ (x = "flush" => frames' = fr)
                     /\ (x = "copy" => /\ m.frame = f
                                       /\ ~(page_table[p].state = "EVICTING" \/ fr[f].io # "NONE")
                                       /\ frames' = [fr EXCEPT ![f].io = "WRITEBACK_IN_PROGRESS"])
        BY <2>3 DEF Goto
      <3>2. pc' = [pc EXCEPT ![t] = x] /\ local' = [local EXCEPT ![t] = m]
        BY <2>3, <3>1
      <3>3. Alone(t) /\ pc'[t] = x /\ local'[t] = m
        BY <3>2, OnlyMoves
      <3> QED BY <3>1, <3>3
    <2>5. \A g \in Frames : /\ frames'[g].state = fr[g].state /\ frames'[g].page = fr[g].page
                            /\ frames'[g].pin = fr[g].pin /\ frames'[g].dirty = fr[g].dirty
                            /\ frames'[g].io = IF pc'[t] = "copy" /\ g = f
                                               THEN "WRITEBACK_IN_PROGRESS" ELSE fr[g].io
      BY <2>1, <2>4 DEF Frame
    <2>6. pc'[t] = "copy" => /\ page_table[p].state = "RESIDENT" /\ fr[f].dirty /\ fr[f].io = "NONE"
                             /\ frames[f].state = "RESIDENT" /\ Maps(p, "RESIDENT", f)
      <3>1. pc'[t] = "copy" => /\ page_table[p].state = "RESIDENT" /\ fr[f].dirty
                               /\ fr[f].io = "NONE"
        BY <1>2, <2>4 DEF Unflushed
      <3>2. pc'[t] = "copy" => Maps(p, "RESIDENT", f)
        BY <1>2, <2>1, <3>1 DEF Maps
      <3> QED BY <1>0, <3>1, <3>2, MappedFrame
    <2>7. pc'[t] = "copy" => \A u \in Threads \ {t} : AvoidsFrame(u, f)
      BY <1>0, <2>1, <2>6, OnlyFlushed
    <2>8. Settles(t, frames')
      <3>1. ASSUME NEW u \in Threads \ {t}, Flushes(u)
            PROVE  /\ frames'[local[u].frame].io = "WRITEBACK_IN_PROGRESS"
                   /\ frames'[local[u].frame].dirty
        <4>1. local[u].frame \in Frames
          BY <3>1, LocalFacts DEF Busy
        <4> QED BY <2>5, <3>1, <4>1 DEF Settles
      <3> QED BY <2>5, <3>1 DEF Settles
    <2>9. ASSUME Closes(t)' PROVE FileDrained(t)'
      <3>1. l.op = "RETIRE_FLUSH" /\ local'[t] = m
        BY <2>3, <2>4, <2>9 DEF Closes
      <3>2. Listed(l, fr)
        BY <3>1
      <3>3. ~files'[m.file].creating
        BY <1>0, <1>2, <2>3, <3>2 DEF Listed, Gates
      <3>4. ASSUME NEW q \in PageId, q.file = m.file, page_table[q].state # "ABSENT"
            PROVE  /\ page_table[q].state = "RESIDENT"
                   /\ frames'[page_table[q].frame].pin = 0
                   /\ ~frames'[page_table[q].frame].dirty \/ m.failed \/ q \in m.todo
        <4>1. /\ page_table[q].state = "RESIDENT" /\ fr[page_table[q].frame].pin = 0
              /\ ~fr[page_table[q].frame].dirty \/ l.failed \/ q \in l.todo
          BY <2>3, <3>2, <3>4 DEF Listed
        <4>2. page_table[q].frame \in Frames
          BY DEF TInv, PoolOK, Entry
        <4>3. fr[page_table[q].frame].dirty /\ q \in l.todo => q \in m.todo
          BY <1>2, <2>2, <2>3, <4>1 DEF Unflushed
        <4> QED BY <2>3, <2>5, <4>1, <4>2, <4>3
      <3>5. \A q \in PageId : q.file = local'[t].file => PageDrained(t, q)'
        BY <1>2, <3>1, <3>4 DEF PageDrained
      <3> QED BY <3>1, <3>3, <3>5 DEF FileDrained
    <2>10. pc'[t] = "copy" => /\ local'[t].op \notin Requests
                              /\ Maps(local'[t].target, "RESIDENT", local'[t].frame)
                              /\ frames'[local'[t].frame].io = "WRITEBACK_IN_PROGRESS"
                              /\ frames'[local'[t].frame].dirty
                              /\ \A u \in Threads \ {t} : AvoidsFrame(u, local'[t].frame)
      BY <2>1, <2>3, <2>4, <2>5, <2>6, <2>7
    <2>11. pc'[t] \in FlushEnds /\ Gates(files')
      BY <1>2, <2>4 DEF FlushEnds
    <2> QED BY <1>2, <2>4, <2>8, <2>9, <2>10, <2>11, PassStep
  <1> QED BY <1>1, <1>2, ZenonT(30) DEF FlushPages

-----------------------------------------------------------------------------
(* Calls: which operation runs at which label.                              *)

Retires == {"RETIRE_FLUSH", "RETIRE_DISCARD"}

OpAt(l, op) ==
    /\ l = "start_flush" => op \in {"FLUSH_PAGE", "FLUSH_FILE", "FLUSH_ALL"}
    /\ l \in {"flush", "copy"} => op \notin Requests
    /\ l \in {"retire", "drain"} => op \in Retires
    /\ l \in {"quiesce", "shutdown"} => op = "SHUTDOWN"
    /\ l \in {"register", "emplace"} => op = "REGISTER"

CallsOK ==
    \A t \in Threads : pc[t] # "idle" => local[t].op \in Menu[t] /\ OpAt(pc[t], local[t].op)

(* The frames and the registry as they are. *)
LEMMA NothingSettled ==
    ASSUME TInv, Structure, NEW t \in Threads
    PROVE  Settles(t, frames) /\ Gates(files)
  <1>1. \A u \in Threads : Flushes(u) => /\ frames[local[u].frame].io = "WRITEBACK_IN_PROGRESS"
                                         /\ frames[local[u].frame].dirty
    BY DEF Structure, ThreadsOwn, ThreadOwns
  <1> QED BY <1>1 DEF Settles, Gates

(* The loop started with the pages s, by an operation that does not close a file or has      *)
(* drained it.                                                                              *)
LEMMA FlushTodo ==
    ASSUME TInv, TInv', OwnershipInv, FlushesBehindGate, NEW t \in Threads, InFlush(t),
           pc[t] # "idle", local[t].op \notin Requests, NEW s \in SUBSET PageId,
           local[t].op = "RETIRE_FLUSH" => Drained(local[t].file) /\ s = DirtyResident(local[t].file),
           NEW fs \in [Files -> FileEntry], Gates(fs), NEW aw,
           FlushPages(t, [local[t] EXCEPT !.todo = s], frames, fs, aw)
    PROVE  OwnershipInv'
  <1> DEFINE l == [local[t] EXCEPT !.todo = s]
  <1>1. FlushLocal(l)
    BY InCall, TodoType
  <1>2. l.op = local[t].op /\ l.file = local[t].file /\ l.todo = s
    BY LocalFacts DEF Local
  <1>3. FlushPages(t, l, frames, fs, aw)
    OBVIOUS
  <1> HIDE DEF l
  <1>4. l.op = "RETIRE_FLUSH" => Listed(l, frames)
    <2>1. SUFFICES ASSUME Drained(l.file), s = DirtyResident(l.file) PROVE Listed(l, frames)
      BY <1>2
    <2>2. ASSUME NEW p \in PageId, p.file = l.file, page_table[p].state = "RESIDENT",
                 frames[page_table[p].frame].dirty
          PROVE  p \in l.todo
      BY <1>2, <2>1, <2>2 DEF DirtyResident
    <2> QED BY <2>1, <2>2 DEF Listed, Drained
  <1>5. Settles(t, frames) /\ frames \in [Frames -> Frame]
    BY NothingSettled DEF OwnershipInv, TInv, PoolOK
  <1> QED BY <1>1, <1>2, <1>3, <1>4, <1>5, FlushPagesOwns

LEMMA FlushOwns ==
    ASSUME TInv, TInv', CallsOK, OwnershipInv, FlushesBehindGate, NEW t \in Threads,
           Flush(t) \/ FlushWake(t)
    PROVE  OwnershipInv'
  <1>0. /\ Structure /\ Gates(files) /\ Settles(t, frames)
        /\ frames \in [Frames -> Frame] /\ files \in [Files -> FileEntry]
    BY NothingSettled DEF OwnershipInv, TInv, PoolOK
  <1>1. CASE Flush(t)
    <2>1. pc[t] = "start_flush" /\ InFlush(t)
      BY <1>1 DEF Flush, At, InFlush, FlushPoints
    <2>2. local[t].op \in {"FLUSH_PAGE", "FLUSH_FILE", "FLUSH_ALL"}
      BY <2>1 DEF CallsOK, OpAt
    <2>3. ASSUME NEW s \in SUBSET PageId,
                 FlushPages(t, [local[t] EXCEPT !.todo = s], frames, files, asleep)
          PROVE  OwnershipInv'
      BY <1>0, <2>1, <2>2, <2>3, FlushTodo DEF Requests, Fetches
    <2>4. CASE Return(t, "error") /\ UNCHANGED <<poolVars, asleep>>
      <3>1. Alone(t) /\ pc'[t] = "idle"
        BY <2>4, Returns
      <3> QED BY <2>1, <2>4, <3>1, UnchangedPool, PassiveKept, QuietAction DEF PassiveLabels
    <2>5. local[t].op = "FLUSH_PAGE" => {local[t].page} \in SUBSET PageId
      BY <2>1, InCall DEF FlushLocal
    <2>6. DirtyResident(local[t].file) \in SUBSET PageId /\ DirtyResident(NoFrame) \in SUBSET PageId
      BY DEF DirtyResident
    <2> QED BY <1>1, <2>3, <2>4, <2>5, <2>6 DEF Flush
  <1>2. CASE FlushWake(t)
    <2>1. pc[t] = "flush" /\ InFlush(t) /\ FlushPages(t, local[t], frames, files, asleep)
      BY <1>2 DEF FlushWake, At, InFlush, FlushPoints
    <2>2. local[t].op \notin Requests /\ FlushLocal(local[t])
      BY <2>1, InCall DEF CallsOK, OpAt
    <2>3. local[t].op = "RETIRE_FLUSH" => Listed(local[t], frames)
      BY <2>1 DEF OwnershipInv, ClosesDrained, Closes, FileDrained, PageDrained, Listed
    <2> QED BY <1>0, <2>1, <2>2, <2>3, FlushPagesOwns
  <1> QED BY <1>1, <1>2

LEMMA ReconcileOwns ==
    ASSUME TInv, TInv', OwnershipInv, FlushesBehindGate, NEW t \in Threads, Reconcile(t)
    PROVE  OwnershipInv'
  <1>0. Structure /\ Gates(files) /\ files \in [Files -> FileEntry]
    BY NothingSettled DEF OwnershipInv, TInv, PoolOK
  <1>1. /\ pc[t] = "wrote" /\ local[t].op \notin Requests /\ Flushes(t) /\ Busy(t) /\ InFlush(t)
    BY DEF Reconcile, At, Requests, Fetches, Flushes, Busy, IoLabels, InFlush, FlushPoints
  <1> DEFINE l == local[t]
             f == l.frame
             b == frames[f].dirty /\ ~ImageIsCurrent(l)
             fr == [frames EXCEPT ![f] = [@ EXCEPT !.io = "NONE", !.dirty = b]]
             rest == [l EXCEPT !.todo = l.todo \ GivenUp(l),
                               !.failed = l.failed \/ ~l.ok, !.ok = TRUE,
                               !.frame = NoFrame, !.img = 0, !.gen = 0, !.epoch = 0]
  <1>2. f \in Frames /\ l \in Local
    BY <1>1, LocalFacts
  <1>3. b \in BOOLEAN /\ (b => frames[f].dirty)
    BY <1>2 DEF ImageIsCurrent, TInv, PoolOK, Frame
  <1>4. FlushPages(t, rest, fr, files, {})
    BY DEF Reconcile
  <1>5. fr \in [Frames -> Frame]
    <2> HIDE DEF b
    <2>1. [frames[f] EXCEPT !.io = "NONE", !.dirty = b] \in Frame
      <3>1. frames[f] \in Frame
        BY <1>2 DEF TInv, PoolOK
      <3> QED BY <1>3, <3>1, Zenon DEF Frame
    <2> QED BY <2>1 DEF TInv, PoolOK
  <1>6. /\ fr[f].state = frames[f].state /\ fr[f].page = frames[f].page /\ fr[f].pin = frames[f].pin
        /\ fr[f].dirty = b
        /\ \A g \in Frames \ {f} : fr[g] = frames[g]
    BY <1>2 DEF TInv, PoolOK, Frame
  <1>7. /\ rest.op = l.op /\ rest.file = l.file /\ rest.page = l.page
        /\ rest.todo = l.todo \ GivenUp(l) /\ rest.failed = (l.failed \/ ~l.ok)
    BY <1>2 DEF Local
  <1>8. FlushLocal(rest)
    <2> DEFINE td == l.todo \ GivenUp(l)
               fl == l.failed \/ ~l.ok
    <2>1. FlushLocal(l) /\ td \in SUBSET PageId /\ fl \in BOOLEAN /\ 0 \in Nat /\ 0 \in Int
      BY <1>1, <1>2, InCall DEF Local
    <2> HIDE DEF td, fl
    <2>2. [l EXCEPT !.todo = td, !.failed = fl, !.ok = TRUE, !.frame = NoFrame,
                    !.img = 0, !.gen = 0, !.epoch = 0] \in Local
      BY <1>2, <2>1, Zenon DEF Local, Version
    <2>3. rest \in Local
      BY <2>2 DEF td, fl
    <2> HIDE DEF rest
    <2> QED BY <1>7, <2>1, <2>3 DEF FlushLocal
  <1> HIDE DEF fr, rest, b
  <1>9. Settles(t, fr)
    <2>1. ASSUME NEW u \in Threads \ {t}, Flushes(u)
          PROVE  fr[local[u].frame].io = "WRITEBACK_IN_PROGRESS" /\ fr[local[u].frame].dirty
      <3>1. local[u].frame \in Frames \ {f}
        BY <1>0, <1>1, <1>2, <2>1, FrameAvoided, LocalFacts DEF AvoidsFrame, Busy
      <3> QED BY <1>0, <1>6, <2>1, <3>1, NothingSettled DEF Settles
    <2> QED BY <1>3, <1>6, <2>1 DEF Settles
  <1>10. rest.op = "RETIRE_FLUSH" => Listed(rest, fr)
    <2>1. SUFFICES ASSUME l.op = "RETIRE_FLUSH" PROVE Listed(rest, fr)
      BY <1>7
    <2>2. FileDrained(t)
      BY <1>1, <2>1 DEF OwnershipInv, ClosesDrained, Closes, IoLabels
    <2>3. ASSUME NEW p \in PageId, p.file = l.file, page_table[p].state # "ABSENT"
          PROVE  /\ page_table[p].state = "RESIDENT"
                 /\ fr[page_table[p].frame].pin = 0
                 /\ ~fr[page_table[p].frame].dirty \/ rest.failed \/ p \in rest.todo
      <3>1. /\ page_table[p].state = "RESIDENT" /\ frames[page_table[p].frame].pin = 0
            /\ ~frames[page_table[p].frame].dirty \/ l.failed \/ p \in l.todo
        BY <2>2, <2>3 DEF FileDrained, PageDrained
      <3>2. page_table[p].frame \in Frames
        BY DEF TInv, PoolOK, Entry
      <3>3. p \in l.todo => p \in rest.todo \/ rest.failed
        BY <1>7 DEF GivenUp
      <3> QED BY <1>3, <1>6, <1>7, <3>1, <3>2, <3>3
    <2> QED BY <1>7, <2>2, <2>3 DEF Listed, FileDrained
  <1> QED BY <1>0, <1>1, <1>4, <1>5, <1>7, <1>8, <1>9, <1>10, FlushPagesOwns

(* RetireFile from its wait on, behind the gate fs. *)
LEMMA DrainOwns ==
    ASSUME TInv, TInv', CallsOK, OwnershipInv, FlushesBehindGate, NEW t \in Threads,
           pc[t] \in {"retire", "drain"}, NEW fs \in [Files -> FileEntry], Gates(fs), NEW aw,
           Drain(t, fs, aw)
    PROVE  OwnershipInv'
  <1>0. /\ Structure /\ Settles(t, frames) /\ frames \in [Frames -> Frame] /\ InFlush(t)
        /\ local[t].file \in Files
    BY NothingSettled, InCall
       DEF OwnershipInv, TInv, PoolOK, InFlush, FlushPoints, FlushLocal
  <1>1. CASE /\ files' = fs /\ Goto(t, "drain")
             /\ UNCHANGED <<frames, free_list, page_table, local>>
    <2>1. QuietPool
      BY <1>1 DEF QuietPool, SameBindings, EntryKept, Gates
    <2>2. Alone(t) /\ pc'[t] = "drain"
      BY <1>1, Moves
    <2> QED BY <2>1, <2>2, PassiveKept, QuietAction DEF PassiveLabels
  <1>2. CASE /\ Drained(local[t].file) /\ local[t].op = "RETIRE_FLUSH"
             /\ FlushPages(t, [local[t] EXCEPT !.todo = DirtyResident(local[t].file)],
                           frames, fs, aw)
    <2> DEFINE s == DirtyResident(local[t].file)
    <2>1. s \in SUBSET PageId /\ s = DirtyResident(local[t].file)
      BY DEF DirtyResident
    <2>2. FlushPages(t, [local[t] EXCEPT !.todo = s], frames, fs, aw)
      BY <1>2
    <2>3. local[t].op \notin Requests
      BY <1>2 DEF Requests, Fetches
    <2> HIDE DEF s
    <2> QED BY <1>0, <1>2, <2>1, <2>2, <2>3, FlushTodo
  <1>3. CASE Drained(local[t].file) /\ CloseFile(t, local[t], frames, fs)
    <2>1. ASSUME NEW p \in PageId, p.file = local[t].file, page_table[p].state # "ABSENT"
          PROVE  /\ page_table[p].state = "RESIDENT"
                 /\ frames[page_table[p].frame].pin = 0
                 /\ \A u \in Threads \ {t} : AvoidsFrame(u, page_table[p].frame)
      <3>1. /\ page_table[p].state = "RESIDENT" /\ frames[page_table[p].frame].pin = 0
            /\ frames[page_table[p].frame].io = "NONE"
        BY <1>3, <2>1 DEF Drained
      <3>2. Maps(p, "RESIDENT", page_table[p].frame)
        BY <3>1 DEF Maps
      <3>3. page_table[p].frame \in Frames /\ frames[page_table[p].frame].state = "RESIDENT"
        BY <1>0, <3>2, MappedFrame
      <3> QED BY <1>0, <3>1, <3>3, FrameAvoided
    <2>2. Abandoned(t, local[t].file) /\ ~files[local[t].file].creating
      BY <1>3, <2>1 DEF Abandoned, Drained
    <2> QED BY <1>0, <1>3, <2>2, CloseFileOwns
  <1> QED BY <1>1, <1>2, <1>3 DEF Drain

LEMMA RetireOwns ==
    ASSUME TInv, TInv', CallsOK, OwnershipInv, FlushesBehindGate, NEW t \in Threads,
           Retire(t) \/ RetireWake(t)
    PROVE  OwnershipInv'
  <1>0. /\ Gates(files) /\ files \in [Files -> FileEntry] /\ pc[t] \in {"retire", "drain"}
        /\ local[t].file \in Files
    BY NothingSettled, InCall
       DEF OwnershipInv, TInv, PoolOK, Retire, RetireWake, At, FlushLocal
  <1>1. CASE Drain(t, files, asleep)
    BY <1>0, <1>1, DrainOwns
  <1>2. CASE Drain(t, [files EXCEPT ![local[t].file].state = "RETIRING"], {})
    <2> DEFINE fs == [files EXCEPT ![local[t].file].state = "RETIRING"]
    <2>1. fs \in [Files -> FileEntry] /\ Gates(fs)
      BY <1>0 DEF FileEntry, Gates
    <2>2. Drain(t, fs, {})
      BY <1>2
    <2> HIDE DEF fs
    <2> QED BY <1>0, <2>1, <2>2, DrainOwns
  <1>3. CASE Return(t, "error") /\ UNCHANGED <<poolVars, asleep>>
    <2>1. Alone(t) /\ pc'[t] = "idle"
      BY <1>3, Returns
    <2> QED BY <1>0, <1>3, <2>1, UnchangedPool, PassiveKept, QuietAction DEF PassiveLabels
  <1>4. CASE Goto(t, "threw") /\ UNCHANGED <<poolVars, asleep, local>>
    <2>1. Alone(t) /\ pc'[t] = "threw"
      BY <1>4, Moves
    <2> QED BY <1>0, <1>4, <2>1, UnchangedPool, PassiveKept, QuietAction DEF PassiveLabels
  <1> QED BY <1>1, <1>2, <1>3, <1>4 DEF Retire, RetireWake

LEMMA ShutdownOwns ==
    ASSUME TInv, TInv', CallsOK, OwnershipInv, FlushesBehindGate, NEW t \in Threads, Shutdown(t)
    PROVE  OwnershipInv'
  <1>0. /\ Gates(files) /\ files \in [Files -> FileEntry] /\ pc[t] \in {"quiesce", "shutdown"}
        /\ InFlush(t)
    BY NothingSettled DEF OwnershipInv, TInv, PoolOK, Shutdown, At, InFlush, FlushPoints
  <1>1. local[t].op \notin Requests /\ local[t].op # "RETIRE_FLUSH"
    BY <1>0 DEF CallsOK, OpAt, Requests, Fetches
  <1>2. PICK aw : AwaitIdle(t, aw)
    BY DEF Shutdown
  <1>3. CASE Goto(t, "shutdown") /\ UNCHANGED <<poolVars, local>>
    <2>1. Alone(t) /\ pc'[t] = "shutdown"
      BY <1>3, Moves
    <2> QED BY <1>0, <1>3, <2>1, UnchangedPool, PassiveKept, QuietAction DEF PassiveLabels
  <1>4. CASE FlushPages(t, [local[t] EXCEPT !.todo = DirtyResident(NoFrame)], frames, files, aw)
    <2> DEFINE s == DirtyResident(NoFrame)
    <2>1. s \in SUBSET PageId
      BY DEF DirtyResident
    <2>2. FlushPages(t, [local[t] EXCEPT !.todo = s], frames, files, aw)
      BY <1>4
    <2> HIDE DEF s
    <2> QED BY <1>0, <1>1, <2>1, <2>2, FlushTodo
  <1> QED BY <1>2, <1>3, <1>4 DEF AwaitIdle

(* RegisterFile opens a file that owns nothing. *)
LEMMA RegisterOwns ==
    ASSUME TInv, TInv', OwnershipInv, FlushesBehindGate, NEW t \in Threads,
           ReadPageCount(t) \/ RegisterFile(t)
    PROVE  OwnershipInv'
  <1>0. /\ Structure /\ Pins /\ ClosesDrained /\ pc[t] \in {"register", "emplace"}
        /\ local[t].file \in Files
    BY InCall DEF OwnershipInv, ReadPageCount, RegisterFile, At, FlushLocal
  <1>1. Alone(t) /\ pc'[t] \in {"idle", "emplace"}
    <2>1. CASE Goto(t, "emplace") /\ local' = [local EXCEPT ![t].count = physical[local[t].file]]
      BY <2>1, OnlyMoves DEF Goto
    <2>2. CASE \E res : Return(t, res)
      BY <2>2, Returns
    <2> QED BY <2>1, <2>2 DEF ReadPageCount, RegisterFile
  <1>2. Kept(t) /\ PinKept(t)
    BY <1>0, <1>1, PassiveKept DEF PassiveLabels
  <1>3. CASE UNCHANGED poolVars
    BY <1>1, <1>2, <1>3, UnchangedPool, QuietAction
  <1>4. ASSUME NEW d \in Files, files[d].state = "CLOSED", UNCHANGED <<frames, free_list, page_table>>,
               files' = [files EXCEPT ![d] = [state |-> "ACTIVE", creating |-> FALSE,
                                              published |-> local[t].count]]
        PROVE  OwnershipInv'
    <2>1. /\ files'[d].state = "ACTIVE" /\ ~files'[d].creating
          /\ \A e \in Files \ {d} : files'[e] = files[e]
      BY <1>4 DEF TInv, PoolOK
    <2>2. ~files[d].creating /\ \A p \in PageId : p.file = d => page_table[p].state = "ABSENT"
      BY <1>0, <1>4 DEF Structure, ClosedOwnsNothing
    <2>3. PoolKept({}, {})
      <3>1. ASSUME NEW q \in PageId, page_table[q].state # "ABSENT"
            PROVE  files'[q.file].published >= files[q.file].published
        <4>1. q.file \in Files \ {d}
          BY <2>2, <3>1, PageIdFields
        <4>2. files[q.file].published \in Nat
          BY <4>1 DEF TInv, PoolOK, FileEntry
        <4> QED BY <2>1, <4>1, <4>2
      <3> QED BY <1>4, <3>1 DEF PoolKept, FrameKept, EntryKept
    <2>4. ASSUME NEW u \in Threads \ {t} PROVE OwnerKept(u, {}, {})
      <3>1. ThreadOwns(u) /\ Kept(u)
        BY <1>0, <1>1, OtherPinKept DEF Structure, ThreadsOwn, Alone
      <3>2. Creates(u) => local[u].file \in Files \ {d}
        BY <2>2, <3>1, LocalFacts DEF ThreadOwns
      <3> QED BY <1>4, <2>1, <3>1, <3>2 DEF OwnerKept, ThreadOwns
    <2>5. /\ ~Loads(t)' /\ ~Reads(t)' /\ ~Intends(t)' /\ ~Holds(t)' /\ ~Builds(t)' /\ ~Creates(t)'
          /\ ~Evicts(t)' /\ ~Flushes(t)' /\ ~Busy(t)' /\ ~Closes(t)' /\ CopiesToFlush(t)'
          /\ ~Holds(t) /\ ~Builds(t)
      BY <1>0, <1>1 DEF Loads, Reads, Intends, Holds, Builds, Creates, Evicts, Flushes, Busy,
                        IoLabels, Closes, CopiesToFlush
    <2>6. Takes(t, {}, {}) /\ ThreadOwns(t)'
      BY <2>5 DEF Takes, ThreadOwns
    <2>7. ClosedOwnsNothing'
      BY <1>0, <1>4, <2>1 DEF Structure, ClosedOwnsNothing
    <2>8. Structure'
      <3>1. OthersKept(t, {}, {})
        BY <2>4 DEF OthersKept
      <3> QED BY <1>0, <2>3, <2>6, <2>7, <3>1, StructureStep
    <2>9. Pins'
      <3>1. \A u \in Threads : PinKept(u)
        BY <1>1, <1>2, OtherPinKept DEF Alone
      <3>2. PinsKept({}, {})
        BY <1>4, <3>1, PinnersKept DEF PinsKept
      <3> QED BY <1>0, <3>2, PinsStep
    <2>10. ClosesDrained'
      <3>1. ClosingKept({})
        BY <1>4, <2>1 DEF ClosingKept
      <3> QED BY <1>0, <2>3, <2>4, <2>5, <3>1, ClosingStep DEF OwnerKept
    <2> QED BY <2>8, <2>9, <2>10 DEF OwnershipInv
  <1> QED BY <1>0, <1>3, <1>4 DEF ReadPageCount, RegisterFile, poolVars

LEMMA CallOwns ==
    ASSUME TInv, TInv', OwnershipInv, FlushesBehindGate, NEW t \in Threads,
           NEW op \in Operations, NEW p \in PageId, Call(t, op, p)
    PROVE  OwnershipInv'
  <1>1. PICK l, r : pc' = [pc EXCEPT ![t] = l] /\ local' = [local EXCEPT ![t] = r]
                    /\ l \in {"pin", "turn", "start_flush", "retire", "quiesce", "register"}
    BY DEF Call, Goto, Operations
  <1>2. Alone(t) /\ pc'[t] = l
    BY <1>1, OnlyMoves
  <1>3. pc[t] = "idle"
    BY DEF Call, At
  <1>4. QuietPool
    BY UnchangedPool DEF Call
  <1>5. Kept(t) /\ PinKept(t)
    BY <1>1, <1>2, <1>3, PassiveKept DEF PassiveLabels
  <1> QED BY <1>2, <1>4, <1>5, QuietAction

(* Nothing is owned, pinned or mapped when the pool has been constructed. *)
LEMMA InitOwns == Init => OwnershipInv
  <1> SUFFICES ASSUME Init PROVE OwnershipInv
    OBVIOUS
  <1>0. TInv
    BY InitOK
  <1>1. \A t \in Threads : pc[t] = "idle"
    BY DEF Init
  <1>2. ASSUME NEW t \in Threads
        PROVE  /\ ~Reads(t) /\ ~Intends(t) /\ ~Loads(t) /\ ~Evicts(t) /\ ~Holds(t) /\ ~Builds(t)
               /\ ~Creates(t) /\ ~Flushes(t) /\ ~Busy(t) /\ ~Closes(t) /\ CopiesToFlush(t)
    BY <1>1 DEF Loads, Reads, Intends, Holds, Builds, Creates, Evicts, Flushes, Busy, IoLabels,
                Closes, CopiesToFlush
  <1>3. ThreadsOwn /\ ThreadsApart /\ ClosesDrained
    BY <1>2 DEF ThreadsOwn, ThreadOwns, ThreadsApart, ClosesDrained
  <1>4. \A f \in Frames : /\ frames[f].state = "FREE" /\ frames[f].page = NoPage
                          /\ frames[f].pin = 0 /\ f \in free_list
    BY DEF Init
  <1>5. \A p \in PageId : page_table[p].state = "ABSENT" /\ page_table[p].claims = 0
    BY DEF Init, Absent
  <1>6. \A d \in Files : ~files[d].creating
    BY DEF Init, Closed
  <1>7. FramesBound /\ EntriesBound /\ MappedBelow /\ ClosedOwnsNothing
    BY <1>4, <1>5, <1>6
       DEF FramesBound, FrameBound, EntriesBound, EntryBound, MappedBelow, Below, ClosedOwnsNothing
  <1>8. ASSUME NEW f \in Frames PROVE PinFit(f) /\ PinBound(f)
    <2>1. Pinners(f) = {} /\ 0 =< MaxPins
      BY <1>1, ConstantsAssumption DEF Pinners, HoldsPin
    <2> QED BY <1>4, <2>1, FS_EmptySet DEF PinFit, PinBound
  <1>9. ASSUME NEW p \in PageId PROVE ClaimsFit(p)
    <2>1. Joiners(p) = {} /\ 0 =< MaxPins
      BY <1>1, ConstantsAssumption DEF Joiners
    <2> QED BY <1>5, <2>1 DEF ClaimsFit, Loading
  <1> QED BY <1>3, <1>7, <1>8, <1>9 DEF OwnershipInv, Structure, Pins

-----------------------------------------------------------------------------
(* The gate of a retirement.                                                *)

(* A retirement past its gate: it waits for its file to drain, or flushes it. *)
PastGate(t) == pc[t] = "drain" \/ Closes(t)

(* The clients of the pool let at most one thread retire files, or register no file while    *)
(* the pool is in use: otherwise a file can be closed and registered again behind the back   *)
(* of a retirement that waits, and the gate is gone (see the run TwoRetirers).               *)
OneRetirer == \A t, u \in Threads : Menu[t] \cap Retires # {} /\ Menu[u] \cap Retires # {} => t = u
NoRegistration == \A t \in Threads : "REGISTER" \notin Menu[t]
CoordinatedClients == OneRetirer \/ NoRegistration

(* Behind t's gate the file is RETIRING, or another retirement has closed it for good. *)
GatesHold ==
    \A t \in Threads :
       PastGate(t) => \/ files[local[t].file].state = "RETIRING"
                      \/ files[local[t].file].state = "CLOSED" /\ ~OneRetirer

LEMMA GatesHoldFlush == GatesHold => FlushesBehindGate
  BY DEF GatesHold, FlushesBehindGate, PastGate

(* The other threads are where they were, in the same calls. *)
OthersStay(t) ==
    \A u \in Threads \ {t} :
       pc'[u] = pc[u] /\ local'[u].op = local[u].op /\ local'[u].file = local[u].file

(* Thread t returns, or goes on with its call. *)
GoesOn(t) ==
    \/ pc'[t] = "idle"
    \/ /\ pc[t] # "idle" /\ local'[t].op = local[t].op /\ local'[t].file = local[t].file
       /\ OpAt(pc[t], local[t].op) => OpAt(pc'[t], local[t].op)

(* Only a retirement closes a file and only a registration opens one. *)
FileStates(t) ==
    \A d \in Files :
       \/ files'[d].state = files[d].state
       \/ files[d].state = "ACTIVE" /\ files'[d].state = "RETIRING"
       \/ files'[d].state = "CLOSED" /\ pc[t] # "idle" /\ local[t].op \in Retires
       \/ files[d].state = "CLOSED" /\ pc[t] # "idle" /\ local[t].op = "REGISTER"

LEMMA CallsStep ==
    ASSUME TInv, CallsOK, NEW t \in Threads, OthersStay(t), GoesOn(t)
    PROVE  CallsOK'
  BY DEF CallsOK, OthersStay, GoesOn

LEMMA GatesStep ==
    ASSUME TInv, TInv', CallsOK, GatesHold, CoordinatedClients, NEW t \in Threads, OthersStay(t),
           FileStates(t),
           PastGate(t)' => \/ files'[local'[t].file].state = "RETIRING"
                           \/ /\ PastGate(t) /\ local'[t].file = local[t].file
                              /\ files'[local[t].file].state = files[local[t].file].state
    PROVE  GatesHold'
  <1>1. ASSUME NEW u \in Threads \ {t}, PastGate(u)'
        PROVE  \/ files'[local'[u].file].state = "RETIRING"
               \/ files'[local'[u].file].state = "CLOSED" /\ ~OneRetirer
    <2>1. PastGate(u) /\ local'[u].file = local[u].file /\ pc[u] # "idle"
      BY <1>1 DEF OthersStay, PastGate, Closes, IoLabels
    <2>2. local[u].op \in Retires /\ local[u].op \in Menu[u]
      BY <2>1 DEF CallsOK, OpAt, PastGate, Closes, Retires
    <2>3. local[u].file \in Files
      BY <2>1, InCall DEF FlushLocal
    <2>4. pc[t] # "idle" => local[t].op \in Menu[t]
      BY DEF CallsOK
    <2>5. pc[t] # "idle" /\ local[t].op \in Retires => ~OneRetirer
      BY <2>2, <2>4 DEF OneRetirer
    <2>6. ~OneRetirer => ~(pc[t] # "idle" /\ local[t].op = "REGISTER")
      BY <2>4 DEF CoordinatedClients, NoRegistration
    <2> QED BY <2>1, <2>3, <2>5, <2>6 DEF GatesHold, FileStates
  <1>2. ASSUME PastGate(t)'
        PROVE  \/ files'[local'[t].file].state = "RETIRING"
               \/ files'[local'[t].file].state = "CLOSED" /\ ~OneRetirer
    BY <1>2 DEF GatesHold
  <1> QED BY <1>1, <1>2 DEF GatesHold

(* A step that leaves files and gates alone. *)
Ordinary(t) ==
    /\ OthersStay(t) /\ GoesOn(t)
    /\ \A d \in Files : files'[d].state = files[d].state
    /\ PastGate(t)' => PastGate(t) /\ local'[t].file = local[t].file

LEMMA OrdinaryStep ==
    ASSUME TInv, TInv', CallsOK, GatesHold, CoordinatedClients, NEW t \in Threads, Ordinary(t)
    PROVE  CallsOK' /\ GatesHold'
  <1>1. PastGate(t) => local[t].file \in Files
    BY InCall DEF PastGate, Closes, IoLabels, FlushLocal
  <1>2. FileStates(t)
    BY DEF Ordinary, FileStates
  <1>3. CallsOK'
    BY CallsStep DEF Ordinary
  <1>4. GatesHold'
    BY <1>1, <1>2, GatesStep DEF Ordinary
  <1> QED BY <1>3, <1>4

(* Labels every operation may be at. *)
FreeLabels == Labels \ {"start_flush", "flush", "copy", "retire", "drain", "quiesce", "shutdown",
                        "register", "emplace"}

LEMMA OthersAlone ==
    ASSUME NEW t \in Threads, Alone(t)
    PROVE  OthersStay(t)
  BY DEF Alone, OthersStay

LEMMA OrdinaryReturn ==
    ASSUME TInv, NEW t \in Threads, OthersStay(t), pc'[t] = "idle",
           \A d \in Files : files'[d].state = files[d].state
    PROVE  Ordinary(t)
  BY DEF Ordinary, GoesOn, PastGate, Closes, IoLabels

LEMMA OrdinaryMove ==
    ASSUME TInv, NEW t \in Threads, OthersStay(t), pc[t] # "idle", pc'[t] \in FreeLabels,
           pc'[t] \in IoLabels => pc[t] \in {"copy"} \cup IoLabels \/ local[t].op \in Requests,
           local'[t].op = local[t].op, local'[t].file = local[t].file,
           \A d \in Files : files'[d].state = files[d].state
    PROVE  Ordinary(t)
  <1>1. OpAt(pc'[t], local[t].op)
    BY DEF OpAt, FreeLabels
  <1>2. PastGate(t)' => PastGate(t)
    BY DEF PastGate, Closes, IoLabels, FreeLabels, Requests, Fetches
  <1> QED BY <1>1, <1>2 DEF Ordinary, GoesOn

LEMMA FetchOrdinary ==
    ASSUME TInv, NEW t \in Threads,
           FetchRefused(t) \/ PinResident(t) \/ AwaitEviction(t) \/ JoinLoad(t) \/ JoinWake(t)
    PROVE  Ordinary(t)
  <1>0. /\ UNCHANGED files /\ pc[t] \in {"pin", "join"} /\ local[t] \in Local
    BY LocalFacts
       DEF FetchRefused, PinResident, AwaitEviction, JoinLoad, JoinWake, At, poolVars
  <1>1. CASE \E res : Return(t, res)
    BY <1>0, <1>1, Returns, OthersAlone, OrdinaryReturn
  <1>2. CASE UNCHANGED <<pc, local>>
    BY <1>0, <1>2, OrdinaryMove DEF OthersStay, FreeLabels, Labels, IoLabels
  <1>3. ASSUME NEW l \in {"latch", "join"}, Goto(t, l), NEW r, local' = [local EXCEPT ![t] = r],
               r.op = local[t].op, r.file = local[t].file
        PROVE  Ordinary(t)
    <2>1. Alone(t) /\ pc'[t] = l /\ local'[t] = r
      BY <1>3, OnlyMoves DEF Goto
    <2> QED BY <1>0, <1>3, <2>1, OthersAlone, OrdinaryMove DEF FreeLabels, Labels, IoLabels
  <1>4. ASSUME NEW f PROVE /\ [local[t] EXCEPT !.frame = f].op = local[t].op
                           /\ [local[t] EXCEPT !.frame = f].file = local[t].file
    BY <1>0 DEF Local
  <1>5. ASSUME NEW x PROVE /\ [local[t] EXCEPT !.load = x].op = local[t].op
                           /\ [local[t] EXCEPT !.load = x].file = local[t].file
    BY <1>0 DEF Local
  <1>6. ASSUME NEW f, NEW x
        PROVE  /\ [local[t] EXCEPT !.frame = f, !.load = x].op = local[t].op
               /\ [local[t] EXCEPT !.frame = f, !.load = x].file = local[t].file
    BY <1>0 DEF Local
  <1>7. CASE PinResident(t)
    BY <1>3, <1>4, <1>7 DEF PinResident
  <1>8. CASE JoinLoad(t)
    BY <1>3, <1>5, <1>8 DEF JoinLoad
  <1>9. CASE /\ Goto(t, "latch")
             /\ local' = [local EXCEPT ![t] = [@ EXCEPT !.frame = local[t].load, !.load = "NONE"]]
    BY <1>3, <1>6, <1>9
  <1> QED BY <1>1, <1>2, <1>7, <1>8, <1>9, ZenonT(30) DEF FetchRefused, AwaitEviction, JoinWake

LEMMA GuardOrdinary ==
    ASSUME TInv, NEW t \in Threads,
           Latch(t) \/ Edit(t) \/ MarkDirty(t) \/ ReleaseLatch(t) \/ Unpin(t)
    PROVE  Ordinary(t)
  <1>0. UNCHANGED files /\ pc[t] \in GuardLabels
    BY DEF Latch, Edit, MarkDirty, ReleaseLatch, Unpin, At, poolVars, GuardLabels
  <1>1. CASE Unpin(t)
    BY <1>0, <1>1, Returns, OthersAlone, OrdinaryReturn DEF Unpin
  <1>2. CASE Latch(t) \/ Edit(t) \/ MarkDirty(t) \/ ReleaseLatch(t)
    <2>1. PICK l \in GuardLabels : Goto(t, l)
      BY <1>2 DEF Latch, Edit, MarkDirty, ReleaseLatch, GuardLabels
    <2>2. Alone(t) /\ pc'[t] = l /\ local'[t] = local[t]
      BY <1>2, <2>1, Moves DEF Latch, Edit, MarkDirty, ReleaseLatch
    <2> QED BY <1>0, <2>1, <2>2, OthersAlone, OrdinaryMove
            DEF FreeLabels, Labels, IoLabels, GuardLabels
  <1> QED BY <1>1, <1>2

LEMMA IoOrdinary ==
    ASSUME TInv, NEW t \in Threads,
           \/ ReadPage(t) \/ ReserveNewPageNo(t) \/ CopyImage(t) \/ WriteImage(t) \/ SyncFile(t)
    PROVE  Ordinary(t)
  <1>0. /\ UNCHANGED files /\ local[t] \in Local
        /\ pc[t] \in {"read", "extend", "copy"} \cup IoLabels
    BY LocalFacts
       DEF ReadPage, ReserveNewPageNo, CopyImage, WriteImage, SyncFile, At, poolVars, IoLabels
  <1>1. ASSUME NEW l, Goto(t, l), NEW r, local' = [local EXCEPT ![t] = r],
               r.op = local[t].op, r.file = local[t].file,
               \/ l \in {"loaded", "extended"}
               \/ l \in IoLabels /\ pc[t] \in {"copy"} \cup IoLabels
        PROVE  Ordinary(t)
    <2>1. Alone(t) /\ pc'[t] = l /\ local'[t] = r
      BY <1>1, OnlyMoves DEF Goto
    <2> QED BY <1>0, <1>1, <2>1, OthersAlone, OrdinaryMove DEF FreeLabels, Labels, IoLabels
  <1>2. ASSUME NEW x PROVE /\ [local[t] EXCEPT !.ok = x].op = local[t].op
                           /\ [local[t] EXCEPT !.ok = x].file = local[t].file
    BY <1>0 DEF Local
  <1>3. ASSUME NEW x, NEW n PROVE /\ [local[t] EXCEPT !.ok = x, !.count = n].op = local[t].op
                                  /\ [local[t] EXCEPT !.ok = x, !.count = n].file = local[t].file
    BY <1>0 DEF Local
  <1>4. ASSUME NEW v, NEW g PROVE /\ [local[t] EXCEPT !.img = v, !.gen = g].op = local[t].op
                                  /\ [local[t] EXCEPT !.img = v, !.gen = g].file = local[t].file
    BY <1>0 DEF Local
  <1>5. CASE ReadPage(t)
    BY <1>1, <1>2, <1>5, ZenonT(30) DEF ReadPage
  <1>6. CASE ReserveNewPageNo(t)
    <2>1. PICK x, n : \/ local' = [local EXCEPT ![t] = [@ EXCEPT !.ok = x]]
                      \/ local' = [local EXCEPT ![t] = [@ EXCEPT !.ok = x, !.count = n]]
      BY <1>6, ZenonT(30) DEF ReserveNewPageNo
    <2>2. Goto(t, "extended")
      BY <1>6 DEF ReserveNewPageNo
    <2>3. CASE local' = [local EXCEPT ![t] = [@ EXCEPT !.ok = x]]
      BY <1>1, <1>2, <2>2, <2>3
    <2>4. CASE local' = [local EXCEPT ![t] = [@ EXCEPT !.ok = x, !.count = n]]
      BY <1>1, <1>3, <2>2, <2>4
    <2> QED BY <2>1, <2>3, <2>4
  <1>7. CASE CopyImage(t)
    BY <1>1, <1>4, <1>7 DEF CopyImage, At, IoLabels
  <1>8. CASE WriteImage(t)
    <2>1. CASE Goto(t, "sync") /\ UNCHANGED local
      <3>1. local' = [local EXCEPT ![t] = local[t]]
        BY <2>1 DEF TInv, ControlOK
      <3> QED BY <1>1, <1>8, <2>1, <3>1 DEF WriteImage, At, IoLabels
    <2>2. CASE Goto(t, "wrote") /\ local' = [local EXCEPT ![t].ok = FALSE]
      BY <1>1, <1>2, <1>8, <2>2 DEF WriteImage, At, IoLabels
    <2> QED BY <1>8, <2>1, <2>2 DEF WriteImage
  <1>9. CASE SyncFile(t)
    BY <1>1, <1>2, <1>9 DEF SyncFile, At, IoLabels
  <1> QED BY <1>5, <1>6, <1>7, <1>8, <1>9

(* Loads that are resolved leave their fetches in the same calls. *)
LEMMA ResolveStays ==
    ASSUME TInv, NEW t \in Threads, NEW l, NEW p, NEW x, Goto(t, l),
           \A u \in Threads \ {t} : local'[u] = Resolve(p, x)[u]
    PROVE  OthersStay(t) /\ pc'[t] = l
  <1>1. pc'[t] = l /\ \A u \in Threads \ {t} : pc'[u] = pc[u]
    BY DEF Goto, TInv, ControlOK
  <1>2. ASSUME NEW u \in Threads \ {t}
        PROVE  local'[u].op = local[u].op /\ local'[u].file = local[u].file
    <2>1. local'[u] = local[u] \/ local'[u] = [local[u] EXCEPT !.load = x]
      BY DEF Resolve
    <2>2. local[u] \in Local
      BY LocalFacts
    <2>3. /\ [local[u] EXCEPT !.load = x].op = local[u].op
          /\ [local[u] EXCEPT !.load = x].file = local[u].file
      BY <2>2 DEF Local
    <2> QED BY <2>1, <2>3
  <1> QED BY <1>1, <1>2 DEF OthersStay

LEMMA GrantedOrdinary ==
    ASSUME TInv, NEW t \in Threads, pc[t] # "idle", NEW f, NEW fr, NEW pt,
           Granted(t, f, fr, pt), \A d \in Files : files'[d].state = files[d].state
    PROVE  Ordinary(t)
  <1>0. local[t] \in Local
    BY LocalFacts
  <1>1. ASSUME NEW l \in {"extend", "read"}, Goto(t, l), NEW r, local' = [local EXCEPT ![t] = r],
               r.op = local[t].op, r.file = local[t].file
        PROVE  Ordinary(t)
    <2>1. Alone(t) /\ pc'[t] = l /\ local'[t] = r
      BY <1>1, OnlyMoves DEF Goto
    <2> QED BY <1>1, <2>1, OthersAlone, OrdinaryMove DEF FreeLabels, Labels, IoLabels
  <1>2. ASSUME NEW n
        PROVE  /\ [local[t] EXCEPT !.frame = f, !.count = n].op = local[t].op
               /\ [local[t] EXCEPT !.frame = f, !.count = n].file = local[t].file
    BY <1>0 DEF Local
  <1>3. /\ [local[t] EXCEPT !.frame = f].op = local[t].op
        /\ [local[t] EXCEPT !.frame = f].file = local[t].file
    BY <1>0 DEF Local
  <1> QED BY <1>1, <1>2, <1>3 DEF Granted

LEMMA RefusedOrdinary ==
    ASSUME TInv, NEW t \in Threads, pc[t] # "idle", NEW pt, NEW fs \in [Files -> FileEntry],
           \A d \in Files : fs[d].state = files[d].state, Refused(t, pt, fs)
    PROVE  Ordinary(t)
  <1>0. local[t].file \in Files
    BY InCall DEF FlushLocal
  <1>1. \A d \in Files : files'[d].state = files[d].state
    BY <1>0 DEF Refused, FileEntry
  <1>2. OthersStay(t) /\ pc'[t] = "idle"
    <2>1. CASE local' = [local EXCEPT ![t] = [Fresh EXCEPT !.result = "error"]]
      BY <2>1, OthersAlone, OnlyMoves DEF Refused, Goto
    <2>2. CASE local' = [Resolve(local[t].page, "FAILED") EXCEPT
                            ![t] = [Fresh EXCEPT !.result = "error"]]
      <3>1. \A u \in Threads \ {t} : local'[u] = Resolve(local[t].page, "FAILED")[u]
        BY <2>2 DEF Resolve
      <3> QED BY <3>1, ResolveStays DEF Refused
    <2> QED BY <2>1, <2>2 DEF Refused
  <1> QED BY <1>1, <1>2, OrdinaryReturn

LEMMA AcquireOrdinary ==
    ASSUME TInv, NEW t \in Threads, pc[t] # "idle", local[t].op \in Requests, NEW pt,
           NEW fs \in [Files -> FileEntry], \A d \in Files : fs[d].state = files[d].state,
           AcquireFrame(t, pt, fs)
    PROVE  Ordinary(t)
  <1>1. ASSUME files' = fs, NEW f, NEW fr, NEW pu, Granted(t, f, fr, pu) PROVE Ordinary(t)
    BY <1>1, GrantedOrdinary
  <1>2. CASE Refused(t, pt, fs)
    BY <1>2, RefusedOrdinary
  <1>3. ASSUME files' = fs, Goto(t, "write"), NEW f,
               local' = [local EXCEPT ![t] = [@ EXCEPT !.frame = f, !.target = frames[f].page,
                                                       !.img = frames[f].ver]]
        PROVE  Ordinary(t)
    <2> DEFINE r == [local[t] EXCEPT !.frame = f, !.target = frames[f].page, !.img = frames[f].ver]
    <2>1. r.op = local[t].op /\ r.file = local[t].file
      BY LocalFacts DEF Local
    <2> HIDE DEF r
    <2>2. Alone(t) /\ pc'[t] = "write" /\ local'[t] = r
      BY <1>3, OnlyMoves DEF Goto, r
    <2> QED BY <1>3, <2>1, <2>2, OthersAlone, OrdinaryMove DEF FreeLabels, Labels, IoLabels
  <1> QED BY <1>1, <1>2, <1>3, ZenonT(30) DEF AcquireFrame

LEMMA RequestOrdinary ==
    ASSUME TInv, NEW t \in Threads,
           \/ LoadPage(t) \/ FinishLoad(t) \/ FinishEviction(t)
           \/ NewPage(t) \/ BindNewPage(t) \/ FinishNewPage(t)
    PROVE  Ordinary(t)
  <1>0. /\ pc[t] \in {"pin", "loaded", "wrote", "turn", "extended", "build"}
        /\ files \in [Files -> FileEntry] /\ local[t] \in Local /\ local[t].file \in Files
        /\ pc[t] = "pin" => local[t].op \in Requests
        /\ pc[t] = "turn" => local[t].op \in Requests
    <2>1. pc[t] \in {"pin", "loaded", "wrote", "turn", "extended", "build"}
      BY DEF LoadPage, FinishLoad, FinishEviction, NewPage, BindNewPage, FinishNewPage, At
    <2> QED BY <2>1, InCall DEF TInv, PoolOK, ControlOK, ThreadOK, Requests, Fetches, FlushLocal
  <1>1. CASE LoadPage(t)
    <2>1. PICK pt : AcquireFrame(t, pt, files)
      BY <1>1 DEF LoadPage
    <2> QED BY <1>0, <1>1, <2>1, AcquireOrdinary DEF LoadPage, At
  <1>2. CASE FinishLoad(t)
    <2>1. PICK p : p = local[t].page
      OBVIOUS
    <2>2. CASE /\ local' = [Resolve(p, "FAILED") EXCEPT ![t] = [Fresh EXCEPT !.result = "error"]]
               /\ Goto(t, "idle")
      <3>1. \A u \in Threads \ {t} : local'[u] = Resolve(p, "FAILED")[u]
        BY <2>2 DEF Resolve
      <3> QED BY <1>2, <2>2, <3>1, ResolveStays, OrdinaryReturn DEF FinishLoad
    <2>3. CASE local' = Resolve(p, local[t].frame) /\ Goto(t, "latch")
      <3>1. OthersStay(t) /\ pc'[t] = "latch"
        BY <2>3, ResolveStays
      <3>2. t \notin Joiners(p)
        BY <1>2 DEF FinishLoad, At, Joiners
      <3>3. local'[t] = local[t]
        BY <2>3, <3>2 DEF Resolve
      <3> QED BY <1>0, <1>2, <3>1, <3>3, OrdinaryMove DEF FinishLoad, FreeLabels, Labels, IoLabels
    <2> QED BY <1>2, <2>1, <2>2, <2>3 DEF FinishLoad
  <1>3. CASE FinishEviction(t)
    <2>1. CASE UNCHANGED files /\ \E f, fr, pt : Granted(t, f, fr, pt)
      BY <1>0, <2>1, GrantedOrdinary
    <2>2. CASE \E pt : Refused(t, pt, files)
      BY <1>0, <2>2, RefusedOrdinary
    <2> QED BY <1>3, <2>1, <2>2 DEF FinishEviction
  <1>4. CASE NewPage(t)
    <2>1. CASE Return(t, "error") /\ UNCHANGED poolVars
      BY <2>1, Returns, OthersAlone, OrdinaryReturn DEF poolVars
    <2>2. CASE UNCHANGED <<poolVars, pc, local>>
      BY <1>0, <2>2, OrdinaryMove DEF OthersStay, FreeLabels, Labels, IoLabels, poolVars
    <2>3. CASE AcquireFrame(t, page_table, [files EXCEPT ![local[t].file].creating = TRUE])
      <3> DEFINE fs == [files EXCEPT ![local[t].file].creating = TRUE]
      <3>1. fs \in [Files -> FileEntry] /\ \A d \in Files : fs[d].state = files[d].state
        BY <1>0 DEF FileEntry
      <3>2. AcquireFrame(t, page_table, fs)
        BY <2>3
      <3>3. local[t].op \in Requests /\ pc[t] # "idle"
        BY <1>0, <1>4 DEF NewPage, At
      <3> HIDE DEF fs
      <3> QED BY <3>1, <3>2, <3>3, AcquireOrdinary
    <2> QED BY <1>4, <2>1, <2>2, <2>3 DEF NewPage
  <1>5. CASE BindNewPage(t)
    <2>1. CASE files' = EndTurn(local[t].file) /\ Return(t, "error")
      <3>1. \A d \in Files : files'[d].state = files[d].state
        BY <1>0, <2>1 DEF EndTurn, FileEntry
      <3> QED BY <2>1, <3>1, Returns, OthersAlone, OrdinaryReturn
    <2>2. ASSUME NEW p, local' = [local EXCEPT ![t] = [@ EXCEPT !.page = p, !.count = 0]],
                 Goto(t, "build"), UNCHANGED files
          PROVE  Ordinary(t)
      <3> DEFINE r == [local[t] EXCEPT !.page = p, !.count = 0]
      <3>1. r.op = local[t].op /\ r.file = local[t].file
        BY <1>0 DEF Local
      <3> HIDE DEF r
      <3>2. Alone(t) /\ pc'[t] = "build" /\ local'[t] = r
        BY <2>2, OnlyMoves DEF Goto, r
      <3> QED BY <1>0, <2>2, <3>1, <3>2, OthersAlone, OrdinaryMove
              DEF FreeLabels, Labels, IoLabels
    <2> QED BY <1>5, <2>1, <2>2, ZenonT(30) DEF BindNewPage
  <1>6. CASE FinishNewPage(t)
    <2>1. CASE files' = EndTurn(local[t].file) /\ Return(t, "error")
      <3>1. \A d \in Files : files'[d].state = files[d].state
        BY <1>0, <2>1 DEF EndTurn, FileEntry
      <3> QED BY <2>1, <3>1, Returns, OthersAlone, OrdinaryReturn
    <2>2. CASE /\ files' = [files EXCEPT ![local[t].file] =
                               [@ EXCEPT !.published = local[t].page.no + 1, !.creating = FALSE]]
               /\ Goto(t, "latch") /\ UNCHANGED local
      <3>1. \A d \in Files : files'[d].state = files[d].state
        BY <1>0, <2>2 DEF FileEntry
      <3>2. Alone(t) /\ pc'[t] = "latch" /\ local'[t] = local[t]
        <4>1. Goto(t, "latch") /\ UNCHANGED local
          BY <2>2
        <4> QED BY <4>1, Moves
      <3> QED BY <1>0, <3>1, <3>2, OthersAlone, OrdinaryMove DEF FreeLabels, Labels, IoLabels
    <2> QED BY <1>6, <2>1, <2>2 DEF FinishNewPage
  <1> QED BY <1>1, <1>2, <1>3, <1>4, <1>5, <1>6

-----------------------------------------------------------------------------
(* The flush loop and the gate.                                             *)

(* What a pass of the flush loop does to calls and files. *)
Passes(t, l, fs) ==
    /\ OthersStay(t)
    /\ \/ pc'[t] = "idle" /\ l.op \in Retires
          /\ files' = [fs EXCEPT ![l.file] = Closed]
       \/ pc'[t] = "idle" /\ files' = fs
       \/ /\ pc'[t] \in {"flush", "copy"} /\ files' = fs
          /\ local'[t].op = l.op /\ local'[t].file = l.file

LEMMA FlushPasses ==
    ASSUME TInv, NEW t \in Threads, NEW l \in Local, NEW fr, NEW fs, NEW aw,
           FlushPages(t, l, fr, fs, aw)
    PROVE  Passes(t, l, fs)
  <1>1. CASE l.op = "RETIRE_FLUSH" /\ CloseFile(t, l, fr, fs)
    BY <1>1, Returns, OthersAlone DEF CloseFile, Passes, Retires
  <1>2. ASSUME NEW res, Return(t, res), files' = fs PROVE Passes(t, l, fs)
    BY <1>2, Returns, OthersAlone DEF Passes
  <1>3. ASSUME NEW m, NEW x \in {"flush", "copy"}, Goto(t, x), local' = [local EXCEPT ![t] = m],
               files' = fs, m.op = l.op, m.file = l.file
        PROVE  Passes(t, l, fs)
    <2>1. Alone(t) /\ pc'[t] = x /\ local'[t] = m
      BY <1>3, OnlyMoves DEF Goto
    <2> QED BY <1>3, <2>1, OthersAlone DEF Passes
  <1>4. ASSUME NEW p, NEW s, NEW rest, rest = [l EXCEPT !.todo = s, !.target = p],
               files' = fs, NEW f, NEW e,
               \/ Goto(t, "flush") /\ local' = [local EXCEPT ![t] = rest]
               \/ /\ Goto(t, "copy")
                  /\ local' = [local EXCEPT ![t] = [rest EXCEPT !.frame = f, !.epoch = e]]
        PROVE  Passes(t, l, fs)
    <2>1. rest.op = l.op /\ rest.file = l.file
      BY <1>4 DEF Local
    <2> DEFINE m == [rest EXCEPT !.frame = f, !.epoch = e]
    <2>2. m.op = l.op /\ m.file = l.file
      BY <1>4 DEF Local
    <2> HIDE DEF m
    <2>3. CASE Goto(t, "flush") /\ local' = [local EXCEPT ![t] = rest]
      BY <1>3, <1>4, <2>1, <2>3
    <2>4. CASE Goto(t, "copy") /\ local' = [local EXCEPT ![t] = m]
      BY <1>3, <1>4, <2>2, <2>4
    <2> QED BY <1>4, <2>3, <2>4 DEF m
  <1>5. CASE FlushDone(t, l, fr, fs, aw)
    BY <1>1, <1>2, <1>5 DEF FlushDone
  <1>6. ASSUME NEW p \in l.todo,
               LET f == page_table[p].frame
                   rest == [l EXCEPT !.todo = {q \in l.todo : PageLeq(p, q)}, !.target = p]
               IN /\ \/ Goto(t, "flush") /\ local' = [local EXCEPT ![t] = rest]
                     \/ /\ Goto(t, "copy")
                        /\ local' = [local EXCEPT ![t] = [rest EXCEPT !.frame = f,
                                                                      !.epoch = fr[f].epoch]]
                  /\ files' = fs
        PROVE  Passes(t, l, fs)
    BY <1>4, <1>6, ZenonT(30)
  <1> QED BY <1>5, <1>6, ZenonT(30) DEF FlushPages

(* A registry in which only gates have been closed, t's own among them or already behind t. *)
Gated(t, fs) ==
    /\ fs \in [Files -> FileEntry]
    /\ \A d \in Files : \/ fs[d].state = files[d].state
                        \/ files[d].state = "ACTIVE" /\ fs[d].state = "RETIRING"
    /\ local[t].op = "RETIRE_FLUSH" \/ pc[t] \in {"retire", "drain"} =>
          \/ fs[local[t].file].state = "RETIRING"
          \/ PastGate(t) /\ fs[local[t].file].state = files[local[t].file].state

LEMMA PassesGate ==
    ASSUME TInv, TInv', CallsOK, GatesHold, CoordinatedClients, NEW t \in Threads, pc[t] # "idle",
           NEW l, l.op = local[t].op, l.file = local[t].file, l.op \notin Requests,
           NEW fs, Gated(t, fs), Passes(t, l, fs)
    PROVE  CallsOK' /\ GatesHold'
  <1>0. OthersStay(t) /\ l.file \in Files
    BY InCall DEF Passes, FlushLocal
  <1>1. GoesOn(t)
    BY DEF Passes, GoesOn, OpAt
  <1>2. FileStates(t)
    <2>1. CASE files' = fs
      BY <2>1 DEF FileStates, Gated
    <2>2. CASE l.op \in Retires /\ files' = [fs EXCEPT ![l.file] = Closed]
      <3>1. \A d \in Files : files'[d] = IF d = l.file THEN Closed ELSE fs[d]
        BY <2>2 DEF Gated
      <3> QED BY <2>2, <3>1 DEF FileStates, Gated, Closed
    <2> QED BY <2>1, <2>2 DEF Passes
  <1>3. PastGate(t)' => /\ local[t].op = "RETIRE_FLUSH" /\ local'[t].file = local[t].file
                        /\ files' = fs
    BY DEF Passes, PastGate, Closes, IoLabels
  <1>4. CallsOK'
    BY <1>0, <1>1, CallsStep
  <1>5. GatesHold'
    BY <1>0, <1>2, <1>3, GatesStep DEF Gated
  <1> QED BY <1>4, <1>5

(* The loop started with the pages s. *)
LEMMA TodoGate ==
    ASSUME TInv, TInv', CallsOK, GatesHold, CoordinatedClients, NEW t \in Threads, pc[t] # "idle",
           local[t].op \notin Requests, NEW s, NEW fs, Gated(t, fs), NEW aw,
           s \in SUBSET PageId, FlushPages(t, [local[t] EXCEPT !.todo = s], frames, fs, aw)
    PROVE  CallsOK' /\ GatesHold'
  <1> DEFINE l == [local[t] EXCEPT !.todo = s]
  <1>1. l \in Local
    BY InCall, TodoType DEF FlushLocal
  <1>2. l.op = local[t].op /\ l.file = local[t].file
    BY LocalFacts DEF Local
  <1>3. FlushPages(t, l, frames, fs, aw)
    OBVIOUS
  <1> HIDE DEF l
  <1>4. Passes(t, l, fs)
    BY <1>1, <1>3, FlushPasses
  <1> QED BY <1>2, <1>4, PassesGate

LEMMA FlushGate ==
    ASSUME TInv, TInv', CallsOK, GatesHold, CoordinatedClients, NEW t \in Threads,
           Flush(t) \/ FlushWake(t) \/ Reconcile(t)
    PROVE  CallsOK' /\ GatesHold'
  <1>0. /\ pc[t] \in {"start_flush", "flush", "wrote"} /\ local[t] \in Local
        /\ files \in [Files -> FileEntry]
        /\ pc[t] = "wrote" => local[t].op \notin Requests
    BY LocalFacts DEF Flush, FlushWake, Reconcile, At, TInv, PoolOK, Requests, Fetches
  <1>1. local[t].op \notin Requests /\ (local[t].op = "RETIRE_FLUSH" => PastGate(t))
    BY <1>0 DEF CallsOK, OpAt, Requests, Fetches, PastGate, Closes, IoLabels
  <1>2. Gated(t, files)
    BY <1>0, <1>1 DEF Gated
  <1>3. CASE Flush(t)
    <2>1. ASSUME NEW s \in SUBSET PageId,
                 FlushPages(t, [local[t] EXCEPT !.todo = s], frames, files, asleep)
          PROVE  CallsOK' /\ GatesHold'
      BY <1>0, <1>1, <1>2, <2>1, TodoGate
    <2>2. CASE Return(t, "error") /\ UNCHANGED poolVars
      BY <2>2, Returns, OthersAlone, OrdinaryReturn, OrdinaryStep DEF poolVars
    <2>3. local[t].op = "FLUSH_PAGE" => {local[t].page} \in SUBSET PageId
      BY <1>0, InCall DEF FlushLocal
    <2>4. DirtyResident(local[t].file) \in SUBSET PageId /\ DirtyResident(NoFrame) \in SUBSET PageId
      BY DEF DirtyResident
    <2> QED BY <1>3, <2>1, <2>2, <2>3, <2>4 DEF Flush
  <1>4. CASE FlushWake(t)
    <2>1. Passes(t, local[t], files)
      BY <1>0, <1>4, FlushPasses DEF FlushWake
    <2> QED BY <1>0, <1>1, <1>2, <2>1, PassesGate
  <1>5. CASE Reconcile(t)
    <2> DEFINE l == local[t]
               td == l.todo \ GivenUp(l)
               fl == l.failed \/ ~l.ok
               rest == [l EXCEPT !.todo = td, !.failed = fl, !.ok = TRUE,
                                 !.frame = NoFrame, !.img = 0, !.gen = 0, !.epoch = 0]
    <2>1. PICK fr : FlushPages(t, rest, fr, files, {})
      BY <1>5 DEF Reconcile
    <2>2. td \in SUBSET PageId /\ fl \in BOOLEAN /\ 0 \in Nat /\ 0 \in Int
      BY <1>0 DEF Local
    <2>3. rest.op = l.op /\ rest.file = l.file
      BY <1>0 DEF Local
    <2> HIDE DEF td, fl
    <2>4. rest \in Local
      BY <1>0, <2>2, Zenon DEF Local, Version
    <2> HIDE DEF rest
    <2>5. Passes(t, rest, files)
      BY <2>1, <2>4, FlushPasses
    <2> QED BY <1>0, <1>1, <1>2, <2>3, <2>5, PassesGate
  <1> QED BY <1>3, <1>4, <1>5

LEMMA RetireGate ==
    ASSUME TInv, TInv', CallsOK, GatesHold, CoordinatedClients, NEW t \in Threads,
           Retire(t) \/ RetireWake(t)
    PROVE  CallsOK' /\ GatesHold'
  <1>0. /\ pc[t] \in {"retire", "drain"} /\ local[t] \in Local /\ local[t].file \in Files
        /\ files \in [Files -> FileEntry]
    BY LocalFacts, InCall DEF Retire, RetireWake, At, TInv, PoolOK, FlushLocal
  <1>1. local[t].op \in Retires /\ local[t].op \notin Requests
    BY <1>0 DEF CallsOK, OpAt, Retires, Requests, Fetches
  <1>2. ASSUME NEW fs, NEW aw, Gated(t, fs), Drain(t, fs, aw) PROVE CallsOK' /\ GatesHold'
    <2>1. CASE files' = fs /\ Goto(t, "drain") /\ UNCHANGED local
      <3>1. Alone(t) /\ pc'[t] = "drain" /\ local'[t] = local[t]
        BY <2>1, Moves
      <3>2. OthersStay(t) /\ GoesOn(t)
        BY <1>0, <1>1, <3>1, OthersAlone DEF GoesOn, OpAt
      <3>3. FileStates(t)
        BY <1>2, <2>1 DEF FileStates, Gated
      <3>4. \/ files'[local'[t].file].state = "RETIRING"
            \/ /\ PastGate(t) /\ local'[t].file = local[t].file
               /\ files'[local[t].file].state = files[local[t].file].state
        BY <1>0, <1>2, <2>1, <3>1 DEF Gated
      <3> QED BY <3>2, <3>3, <3>4, CallsStep, GatesStep
    <2>2. CASE FlushPages(t, [local[t] EXCEPT !.todo = DirtyResident(local[t].file)],
                          frames, fs, aw)
      <3> DEFINE s == DirtyResident(local[t].file)
      <3>1. s \in SUBSET PageId
        BY DEF DirtyResident
      <3>2. FlushPages(t, [local[t] EXCEPT !.todo = s], frames, fs, aw)
        BY <2>2
      <3> HIDE DEF s
      <3> QED BY <1>0, <1>1, <1>2, <3>1, <3>2, TodoGate
    <2>3. CASE CloseFile(t, local[t], frames, fs)
      <3>1. Passes(t, local[t], fs)
        BY <1>1, <2>3, Returns, OthersAlone DEF CloseFile, Passes
      <3> QED BY <1>0, <1>1, <1>2, <3>1, PassesGate
    <2> QED BY <1>2, <2>1, <2>2, <2>3 DEF Drain
  <1>3. CASE Return(t, "error") /\ UNCHANGED poolVars
    BY <1>3, Returns, OthersAlone, OrdinaryReturn, OrdinaryStep DEF poolVars
  <1>4. CASE Goto(t, "threw") /\ UNCHANGED <<poolVars, local>>
    <2>1. Alone(t) /\ pc'[t] = "threw" /\ local'[t] = local[t]
      BY <1>4, Moves
    <2>2. Ordinary(t)
      BY <1>0, <1>4, <2>1, OthersAlone, OrdinaryMove DEF FreeLabels, Labels, IoLabels, poolVars
    <2> QED BY <2>2, OrdinaryStep
  <1>5. CASE Retire(t)
    <2>1. CASE /\ files[local[t].file].state = "ACTIVE"
               /\ Drain(t, [files EXCEPT ![local[t].file].state = "RETIRING"], {})
      <3> DEFINE fs == [files EXCEPT ![local[t].file].state = "RETIRING"]
      <3>1. /\ fs \in [Files -> FileEntry] /\ fs[local[t].file].state = "RETIRING"
            /\ \A d \in Files \ {local[t].file} : fs[d] = files[d]
        BY <1>0 DEF FileEntry
      <3>2. Drain(t, fs, {})
        BY <2>1
      <3> HIDE DEF fs
      <3>3. Gated(t, fs)
        BY <2>1, <3>1 DEF Gated
      <3> QED BY <1>2, <3>2, <3>3
    <2>2. CASE files[local[t].file].state = "RETIRING" /\ Drain(t, files, asleep)
      <3>1. Gated(t, files)
        BY <1>0, <2>2 DEF Gated
      <3> QED BY <1>2, <2>2, <3>1
    <2> QED BY <1>3, <1>5, <2>1, <2>2 DEF Retire
  <1>6. CASE RetireWake(t)
    <2>1. Gated(t, files)
      BY <1>0, <1>6 DEF Gated, RetireWake, At, PastGate
    <2>2. CASE Drain(t, files, asleep)
      BY <1>2, <2>1, <2>2
    <2> QED BY <1>4, <1>6, <2>2 DEF RetireWake
  <1> QED BY <1>5, <1>6

LEMMA ShutdownGate ==
    ASSUME TInv, TInv', CallsOK, GatesHold, CoordinatedClients, NEW t \in Threads, Shutdown(t)
    PROVE  CallsOK' /\ GatesHold'
  <1>0. /\ pc[t] \in {"quiesce", "shutdown"} /\ files \in [Files -> FileEntry]
    BY DEF Shutdown, At, TInv, PoolOK
  <1>1. local[t].op = "SHUTDOWN" /\ local[t].op \notin Requests
    BY <1>0 DEF CallsOK, OpAt, Requests, Fetches
  <1>2. PICK aw : AwaitIdle(t, aw)
    BY DEF Shutdown
  <1>3. CASE Goto(t, "shutdown") /\ UNCHANGED <<poolVars, local>>
    <2>1. Alone(t) /\ pc'[t] = "shutdown" /\ local'[t] = local[t]
      BY <1>3, Moves
    <2>2. Ordinary(t)
      BY <1>0, <1>1, <1>3, <2>1, OthersAlone DEF Ordinary, GoesOn, OpAt, PastGate, Closes,
         IoLabels, poolVars
    <2> QED BY <2>2, OrdinaryStep
  <1>4. CASE FlushPages(t, [local[t] EXCEPT !.todo = DirtyResident(NoFrame)], frames, files, aw)
    <2> DEFINE s == DirtyResident(NoFrame)
    <2>1. s \in SUBSET PageId
      BY DEF DirtyResident
    <2>2. FlushPages(t, [local[t] EXCEPT !.todo = s], frames, files, aw)
      BY <1>4
    <2>3. Gated(t, files)
      BY <1>0, <1>1 DEF Gated
    <2> HIDE DEF s
    <2> QED BY <1>0, <1>1, <2>1, <2>2, <2>3, TodoGate
  <1> QED BY <1>2, <1>3, <1>4 DEF AwaitIdle

LEMMA RegisterGate ==
    ASSUME TInv, TInv', CallsOK, GatesHold, CoordinatedClients, NEW t \in Threads,
           ReadPageCount(t) \/ RegisterFile(t)
    PROVE  CallsOK' /\ GatesHold'
  <1>0. /\ pc[t] \in {"register", "emplace"} /\ local[t] \in Local /\ local[t].file \in Files
    BY LocalFacts, InCall DEF ReadPageCount, RegisterFile, At, FlushLocal
  <1>1. local[t].op = "REGISTER"
    BY <1>0 DEF CallsOK, OpAt
  <1>2. FileStates(t)
    <2>1. CASE UNCHANGED files
      BY <2>1 DEF FileStates
    <2>2. ASSUME NEW r, files' = [files EXCEPT ![local[t].file] = r],
                 files[local[t].file].state = "CLOSED"
          PROVE  FileStates(t)
      <3>1. \A d \in Files \ {local[t].file} : files'[d] = files[d]
        BY <2>2 DEF TInv, PoolOK
      <3> QED BY <1>0, <1>1, <2>2, <3>1 DEF FileStates
    <2> QED BY <2>1, <2>2 DEF ReadPageCount, RegisterFile, poolVars
  <1>3. CASE \E res : Return(t, res)
    <2>1. Alone(t) /\ pc'[t] = "idle"
      BY <1>3, Returns
    <2>2. OthersStay(t) /\ GoesOn(t) /\ ~PastGate(t)'
      BY <2>1, OthersAlone DEF GoesOn, PastGate, Closes, IoLabels
    <2> QED BY <1>2, <2>2, CallsStep, GatesStep
  <1>4. CASE Goto(t, "emplace") /\ local' = [local EXCEPT ![t].count = physical[local[t].file]]
    <2> DEFINE r == [local[t] EXCEPT !.count = physical[local[t].file]]
    <2>1. r.op = local[t].op /\ r.file = local[t].file
      BY <1>0 DEF Local
    <2> HIDE DEF r
    <2>2. Alone(t) /\ pc'[t] = "emplace" /\ local'[t] = r
      BY <1>4, OnlyMoves DEF Goto, r
    <2>3. OthersStay(t) /\ GoesOn(t) /\ ~PastGate(t)'
      BY <1>0, <1>1, <2>1, <2>2, OthersAlone DEF GoesOn, OpAt, PastGate, Closes, IoLabels
    <2> QED BY <1>2, <2>3, CallsStep, GatesStep
  <1> QED BY <1>3, <1>4 DEF ReadPageCount, RegisterFile

LEMMA CallGate ==
    ASSUME TInv, TInv', CallsOK, GatesHold, CoordinatedClients, NEW t \in Threads,
           NEW op \in Operations, NEW p \in PageId, Call(t, op, p)
    PROVE  CallsOK' /\ GatesHold'
  <1> DEFINE l == CASE op \in {"FETCH_READ", "FETCH_WRITE"} -> "pin"
                    [] op = "NEW_PAGE" -> "turn"
                    [] op \in {"FLUSH_PAGE", "FLUSH_FILE", "FLUSH_ALL"} -> "start_flush"
                    [] op \in {"RETIRE_FLUSH", "RETIRE_DISCARD"} -> "retire"
                    [] op = "SHUTDOWN" -> "quiesce"
                    [] op = "REGISTER" -> "register"
             a == IF op \in {"FETCH_READ", "FETCH_WRITE", "FLUSH_PAGE"} THEN p ELSE NoPage
             r == [Fresh EXCEPT !.op = op, !.file = p.file, !.page = a, !.goal = Goal(op, p)]
  <1>1. pc' = [pc EXCEPT ![t] = l] /\ local' = [local EXCEPT ![t] = r] /\ op \in Menu[t]
        /\ UNCHANGED files
    BY DEF Call, Goto, poolVars
  <1>2. r.op = op
    BY DEF Fresh
  <1>3. OpAt(l, op) /\ l \notin {"drain", "flush", "copy"} \cup IoLabels
    BY DEF OpAt, Operations, Retires, Requests, Fetches, IoLabels
  <1> HIDE DEF l, r
  <1>4. Alone(t) /\ pc'[t] = l /\ local'[t] = r
    BY <1>1, OnlyMoves
  <1>5. OthersStay(t) /\ ~PastGate(t)' /\ FileStates(t)
    BY <1>1, <1>3, <1>4, OthersAlone DEF PastGate, Closes, FileStates
  <1>6. CallsOK'
    BY <1>1, <1>2, <1>3, <1>4, <1>5 DEF CallsOK, OthersStay
  <1>7. GatesHold'
    BY <1>5, GatesStep
  <1> QED BY <1>6, <1>7

-----------------------------------------------------------------------------
(* The theorems.                                                            *)

PoolInv == TInv /\ CallsOK /\ GatesHold /\ OwnershipInv

LEMMA InitPool == Init => PoolInv
  <1> SUFFICES ASSUME Init PROVE PoolInv
    OBVIOUS
  <1>1. \A t \in Threads : pc[t] = "idle"
    BY DEF Init
  <1>2. CallsOK /\ GatesHold
    BY <1>1 DEF CallsOK, GatesHold, PastGate, Closes, IoLabels
  <1> QED BY <1>2, InitOK, InitOwns DEF PoolInv

LEMMA OwnershipStutters ==
    ASSUME PoolInv, UNCHANGED vars
    PROVE  PoolInv'
  <1>1. TInv' /\ CallsOK' /\ GatesHold'
    BY DEF PoolInv, TInv, ControlOK, PoolOK, DiskOK, RestOK, CallsOK, GatesHold, PastGate, Closes, vars
  <1>2. ThreadsOwn' /\ ThreadsApart' /\ ClosesDrained'
    BY DEF PoolInv, OwnershipInv, Structure, ThreadsOwn, ThreadOwns, ThreadsApart, ClosesDrained,
           FileDrained, PageDrained, Loads, Reads, Intends, Holds, Builds, Creates, Evicts, Flushes,
           Busy, Closes, CopiesToFlush, Maps, vars
  <1>3. FramesBound' /\ EntriesBound' /\ MappedBelow' /\ ClosedOwnsNothing'
    BY DEF PoolInv, OwnershipInv, Structure, FramesBound, FrameBound, EntriesBound, EntryBound,
           MappedBelow, Below, Builds, ClosedOwnsNothing, Maps, Reserves, vars
  <1>4. Pins'
    BY DEF PoolInv, OwnershipInv, Pins, PinFit, PinBound, Pinners, HoldsPin, ClaimsFit, Loading,
           Joiners, vars
  <1> QED BY <1>1, <1>2, <1>3, <1>4 DEF PoolInv, OwnershipInv, Structure

LEMMA NextPool ==
    ASSUME CoordinatedClients, PoolInv, [Next]_vars
    PROVE  PoolInv'
  <1>0. TInv /\ TInv' /\ CallsOK /\ GatesHold /\ OwnershipInv /\ FlushesBehindGate
    BY NextOK, GatesHoldFlush DEF PoolInv
  <1>1. ASSUME NEW t \in Threads, Step(t) PROVE OwnershipInv'
    BY <1>0, <1>1, FetchOwns, PinResidentOwns, JoinLoadOwns, LoadPageOwns, IoOwns, FinishLoadOwns,
       FinishEvictionOwns, GuardOwns, UnpinOwns, NewPageOwns, BindNewPageOwns, FinishNewPageOwns,
       FlushOwns, ReconcileOwns, RetireOwns, ShutdownOwns, RegisterOwns DEF Step
  <1>2. ASSUME NEW t \in Threads, Step(t) PROVE CallsOK' /\ GatesHold'
    <2>1. CASE Ordinary(t)
      BY <1>0, <2>1, OrdinaryStep
    <2> QED BY <1>0, <1>2, <2>1, FetchOrdinary, GuardOrdinary, IoOrdinary, RequestOrdinary, FlushGate,
               RetireGate, ShutdownGate, RegisterGate DEF Step
  <1>3. ASSUME NEW t \in Threads, NEW op \in Operations, NEW p \in PageId, Call(t, op, p)
        PROVE  OwnershipInv' /\ CallsOK' /\ GatesHold'
    BY <1>0, <1>3, CallOwns, CallGate
  <1>4. CASE UNCHANGED vars
    BY <1>4, OwnershipStutters
  <1> QED BY <1>0, <1>1, <1>2, <1>3, <1>4 DEF Next, Terminated, PoolInv

(* What the ownership invariant says of frames, pins and guards. *)
LEMMA PoolInvFrames == PoolInv => FramesConserved
  <1> SUFFICES ASSUME PoolInv PROVE FramesConserved
    OBVIOUS
  <1>0. TInv /\ Structure
    BY DEF PoolInv, OwnershipInv
  <1>1. ASSUME NEW f \in Frames
        PROVE  LET owners == {t \in Threads : Reserves(t, f)} IN
               /\ Cardinality(owners) =< 1
               /\ f \in free_list => owners = {}
               /\ frames[f].state = "FREE" <=> (f \in free_list \/ owners # {})
               /\ frames[f].state # "FREE" =>
                     /\ frames[f].page \in PageId
                     /\ page_table[frames[f].page].frame = f
                     /\ page_table[frames[f].page].state = frames[f].state
    <2> DEFINE owners == {t \in Threads : Reserves(t, f)}
    <2>1. ASSUME NEW t \in owners
          PROVE  Holds(t) /\ Busy(t) /\ local[t].frame = f /\ frames[f].state = "FREE"
                 /\ f \notin free_list
      <3>1. Holds(t) /\ Busy(t) /\ local[t].frame = f
        BY DEF Reserves, Holds, Busy
      <3> QED BY <1>0, <3>1 DEF Structure, ThreadsOwn, ThreadOwns
    <2>2. \A t, u \in owners : t = u
      BY <1>0, <2>1 DEF Structure, ThreadsApart
    <2>3. Cardinality(owners) =< 1
      <3>1. CASE owners = {}
        BY <3>1, FS_EmptySet
      <3>2. CASE owners # {}
        <4>1. PICK t : owners = {t}
          BY <2>2, <3>2
        <4>2. Cardinality({t}) = 1
          BY FS_Singleton
        <4> QED BY <4>1, <4>2
      <3> QED BY <3>1, <3>2
    <2>4. FrameBound(f)
      BY <1>0 DEF Structure, FramesBound
    <2>5. frames[f].state = "FREE" <=> (f \in free_list \/ owners # {})
      BY <2>1, <2>4 DEF FrameBound
    <2> QED BY <2>1, <2>3, <2>4, <2>5 DEF FrameBound, Maps
  <1> QED BY <1>0, <1>1 DEF FramesConserved, Structure, EntriesBound, EntryBound

LEMMA PoolInvPins == PoolInv => PinsAccounted /\ PinnedStaysBound
  <1> SUFFICES ASSUME PoolInv PROVE PinsAccounted /\ PinnedStaysBound
    OBVIOUS
  <1>1. Pins
    BY DEF PoolInv, OwnershipInv
  <1>2. PinsAccounted
    BY <1>1 DEF Pins, PinFit, Pinners, ClaimsFit, PinsAccounted
  <1>3. PinnedStaysBound
    BY <1>1 DEF Pins, PinBound, Pinners, PinnedStaysBound
  <1> QED BY <1>2, <1>3

LEMMA PoolInvClosed == PoolInv => ClosedOwnsNothing
  BY DEF PoolInv, OwnershipInv, Structure

(* For any number of threads, frames, files and pages, and whatever I/O fails: AcquireFrame, *)
(* ResetFrame, ReleaseFrameToFreeList and RetireFile neither leak a frame nor give it to two *)
(* owners, and the page table and the frames always agree.                                   *)
THEOREM NoFrameLeaks ==
    ASSUME CoordinatedClients
    PROVE  Spec => []FramesConserved
  <1>1. PoolInv /\ [Next]_vars => PoolInv'
    BY NextPool
  <1> QED BY <1>1, InitPool, PoolInvFrames, PTL DEF Spec

(* The pin count of a frame is the number of guards on it, given out or on their way: no     *)
(* interleaving of PinResidentLocked, JoinLoad, PublishLoadLocked and Unpin loses a pin,     *)
(* duplicates one or passes max_pin_count_.                                                  *)
THEOREM NoPinLeaks ==
    ASSUME CoordinatedClients
    PROVE  Spec => []PinsAccounted
  <1>1. PoolInv /\ [Next]_vars => PoolInv'
    BY NextPool
  <1> QED BY <1>1, InitPool, PoolInvPins, PTL DEF Spec

(* A guard's frame stays resident and bound to the guard's page for as long as the guard     *)
(* lives: eviction, retirement, failed loads and other creations leave it alone.             *)
THEOREM GuardsStayValid ==
    ASSUME CoordinatedClients
    PROVE  Spec => []PinnedStaysBound
  <1>1. PoolInv /\ [Next]_vars => PoolInv'
    BY NextPool
  <1> QED BY <1>1, InitPool, PoolInvPins, PTL DEF Spec

(* RetireFile leaves nothing behind: a file that is CLOSED has no mapping, no load under way *)
(* and no creation, and none comes up while it stays CLOSED.                                 *)
THEOREM RetirementIsComplete ==
    ASSUME CoordinatedClients
    PROVE  Spec => []ClosedOwnsNothing
  <1>1. PoolInv /\ [Next]_vars => PoolInv'
    BY NextPool
  <1> QED BY <1>1, InitPool, PoolInvClosed, PTL DEF Spec

(* With a single retiring thread RetireFile goes on from its wait only while the file is     *)
(* still RETIRING. The run TwoRetirers shows that two retiring threads break this.           *)
THEOREM OneRetirerKeepsItsGate ==
    ASSUME OneRetirer
    PROVE  Spec => RetiresBehindGate
  <1>1. PoolInv /\ [Next]_vars => PoolInv'
    BY NextPool DEF CoordinatedClients
  <1>2. PoolInv => \A t \in Threads : pc[t] = "drain" => files[local[t].file].state = "RETIRING"
    BY DEF PoolInv, GatesHold, PastGate
  <1>3. PoolInv /\ [Next]_vars
        => [\A t \in Threads :
               pc[t] = "drain" /\ pc'[t] # "drain" => files[local[t].file].state = "RETIRING"]_vars
    BY <1>2
  <1> QED BY <1>1, <1>3, InitPool, PTL DEF Spec, RetiresBehindGate
=============================================================================
