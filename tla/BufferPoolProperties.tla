------------------------ MODULE BufferPoolProperties ------------------------
(***************************************************************************)
(* What the buffer pool promises, stated over the state of BufferPool.      *)
(***************************************************************************)
EXTENDS BufferPool

(* Every variable keeps its type: frame metadata, page table, registry and thread locals   *)
(* stay in the enumerations of buffer_frame.h and buffer_pool.h.                           *)
TypeOK ==
    /\ frames \in [Frames -> Frame]
    /\ free_list \subseteq Frames
    /\ page_table \in [PageId -> Entry]
    /\ files \in [Files -> FileEntry]
    /\ quiescing \in BOOLEAN
    /\ asleep \subseteq Threads
    /\ pc \in [Threads -> Labels]
    /\ local \in [Threads -> Local]
    /\ cache \in [PageId -> Version]
    /\ stable \in [PageId -> Version]
    /\ physical \in [Files -> Nat]
    /\ calls \in Nat

-----------------------------------------------------------------------------
(* Ownership of frames and pages.                                          *)

(* NewPage owns a frame that is FREE and unlisted while it reserves a page number. *)
Reserves(t, f) == pc[t] \in {"extend", "extended"} /\ local[t].frame = f

(* A frame is FREE exactly when it is listed or reserved, never both and never reserved    *)
(* twice, and every other frame is the frame of exactly one page-table entry, in the same  *)
(* state: AcquireFrame, ResetFrame and ReleaseFrameToFreeList neither leak a frame nor     *)
(* hand it to two requesters (7.13, invariant 12).                                         *)
FramesConserved ==
    /\ \A f \in Frames :
          LET owners == {t \in Threads : Reserves(t, f)} IN
          /\ Cardinality(owners) =< 1
          /\ f \in free_list => owners = {}
          /\ frames[f].state = "FREE" <=> (f \in free_list \/ owners # {})
          /\ frames[f].state # "FREE" =>
                /\ frames[f].page \in PageId
                /\ page_table[frames[f].page].frame = f
                /\ page_table[frames[f].page].state = frames[f].state
    /\ \A p \in PageId :
          page_table[p].state \in {"LOADING", "RESIDENT", "EVICTING"} =>
             frames[page_table[p].frame].page = p

(* Thread t owns a pin on frame f: it has or waits for a guard, is giving one back, or its *)
(* claim on a load was converted and it has not yet woken up.                              *)
HoldsPin(t, f) ==
    \/ pc[t] \in {"latch", "reading", "writing", "edited", "unpin"} /\ local[t].frame = f
    \/ pc[t] = "join" /\ local[t].load = f

(* Publication turns every claim into exactly one pin, and no path loses or duplicates one *)
(* (PublishLoadLocked, PinResidentLocked, JoinLoad, Unpin).                                *)
PinsAccounted ==
    /\ \A f \in Frames :
          frames[f].pin = Cardinality({t \in Threads : HoldsPin(t, f)})
    /\ \A p \in PageId :
          page_table[p].claims = IF Loading(p) /\ page_table[p].claims > 0
                                 THEN 1 + Cardinality(Joiners(p)) ELSE 0
    /\ \A f \in Frames : frames[f].pin =< MaxPins

(* A pinned frame stays bound to the page its guard was made for: no eviction, retirement  *)
(* or failed load takes it away, so references into it stay valid (7.13, 14 to 16).        *)
PinnedStaysBound ==
    \A t \in Threads, f \in Frames :
       HoldsPin(t, f) =>
          /\ frames[f].state = "RESIDENT"
          /\ frames[f].page = local[t].page
          /\ page_table[local[t].page].frame = f

-----------------------------------------------------------------------------
(* Contents.                                                               *)

(* The contents of page p for its next reader: the cached page, else the file. *)
Value(p) == IF InMemory(p) THEN Published(page_table[p].frame) ELSE cache[p]

(* Some thread discards the dirty pages of file d in this step. *)
Discards(d) ==
    \E t \in Threads : local[t].op = "RETIRE_DISCARD" /\ local[t].file = d /\ pc'[t] = "idle"

(* Eviction, reload, writeback, failed I/O and retirement never change what a page holds:  *)
(* its contents only move on by one published mutation, or are given up by a discarding    *)
(* RetireFile.                                                                             *)
NoLostUpdate ==
    [][\A p \in PageId :
          \/ Value(p)' = Value(p)
          \/ Value(p)' = Value(p) + 1
          \/ Discards(p.file)]_vars

Dirty(p) == InMemory(p) /\ frames[page_table[p].frame].dirty

(* A page stops being dirty, or leaves the cache, only when its current contents are       *)
(* stable: a mutation published during a writeback, a failed write and a failed fdatasync  *)
(* all keep it dirty (7.13, 20 to 22 and 27).                                              *)
CleanOnlyWhenStable ==
    [][\A p \in PageId :
          Dirty(p) /\ ~Dirty(p)' => stable[p] = Value(p) \/ Discards(p.file)]_vars

(* No write puts bytes on disk that their writer has not published: images are copied      *)
(* under the shared latch, or from an unpinned victim (7.13, 19).                          *)
DiskNeverAhead ==
    \A p \in PageId : InMemory(p) => cache[p] =< Value(p) /\ stable[p] =< Value(p)

(* In this step a call by t of one of ops returns success. *)
Succeeds(t, ops) ==
    /\ local[t].op \in ops /\ pc[t] # "idle"
    /\ pc'[t] = "idle" /\ local'[t].result = "ok"

GoalIsStable(t) == \A p \in PageId : local[t].goal[p] > 0 => stable[p] >= local[t].goal[p]

(* When FlushPage succeeds, what the page held when the call began is stable, whoever      *)
(* wrote it: the caller, a flush it joined, or the eviction it waited for.                 *)
FlushPageIsStable ==
    [][\A t \in Threads : Succeeds(t, {"FLUSH_PAGE"}) => GoalIsStable(t)]_vars

(* The same for FlushFile and FlushAll and every page of the file or of the pool.          *)
FlushAllIsStable ==
    [][\A t \in Threads : Succeeds(t, {"FLUSH_FILE", "FLUSH_ALL"}) => GoalIsStable(t)]_vars

(* The pool implements PageStore: caching, eviction, writeback, retirement and I/O errors  *)
(* cannot be told apart from a store that publishes, persists and settles pages, and gives *)
(* up unsaved ones only for a RetireFile that discards.                                    *)
Store == INSTANCE PageStore WITH
            Page <- PageId,
            File <- LAMBDA p : p.file,
            value <- [p \in PageId |-> Value(p)],
            stable <- stable,
            unsaved <- {p \in PageId : Dirty(p)},
            doomed <- {local[t].file : t \in {u \in Threads : local[u].op = "RETIRE_DISCARD"}}

ImplementsPageStore == Store!StoreSpec

-----------------------------------------------------------------------------
(* Waiting.                                                                *)

(* The condition under which the code puts thread t to sleep. *)
MustWait(t) ==
    LET p == local[t].page
        target == local[t].target
    IN CASE pc[t] = "pin" -> Fetchable(p) /\ page_table[p].state = "EVICTING"
         [] pc[t] = "join" -> local[t].load = "PENDING"
         [] pc[t] = "turn" -> /\ ~quiescing
                              /\ files[local[t].file].state = "ACTIVE"
                              /\ files[local[t].file].creating
         [] pc[t] = "flush" -> \/ page_table[target].state = "EVICTING"
                               \/ /\ page_table[target].state = "RESIDENT"
                                  /\ frames[page_table[target].frame].io # "NONE"
         [] pc[t] = "drain" -> files[local[t].file].state # "CLOSED" /\ ~Drained(local[t].file)
         [] pc[t] = "shutdown" -> ~PoolIdle
         [] OTHER -> FALSE

(* No wakeup is lost: whatever ends a wait on state_changed_ also notifies it, so a        *)
(* sleeping thread is one whose condition still asks it to sleep.                          *)
NoLostWakeup == \A t \in asleep : MustWait(t)

(* Every call returns: no operation waits for ever behind other calls, guards and I/O.     *)
EveryCallReturns == \A t \in Threads : pc[t] # "idle" ~> pc[t] = "idle"

-----------------------------------------------------------------------------
(* Retirement, shutdown and new pages.                                     *)

(* The retirement gate: once a file is RETIRING no thread gains a pin on its pages and no  *)
(* load or new page of it still under way is published (7.12.5).                           *)
RetirementGate ==
    [][\A p \in PageId :
          files[p.file].state # "ACTIVE" /\ files'[p.file].state # "ACTIVE" =>
             /\ ~InMemory(p) => ~InMemory(p)'
             /\ \A t \in Threads, f \in Frames :
                   frames[f].page = p /\ ~HoldsPin(t, f) => ~HoldsPin(t, f)']_vars

(* A retirer that has waited for its file to drain goes on, to flush, discard and close it, *)
(* only while the file is still RETIRING. If another retirer has closed it meanwhile there  *)
(* is no file to look at, and if it has been registered again there is no gate that keeps   *)
(* new pins out while RetireFile takes its mappings away.                                   *)
RetiresBehindGate ==
    [][\A t \in Threads :
          pc[t] = "drain" /\ pc'[t] # "drain" => files[local[t].file].state = "RETIRING"]_vars

(* A CLOSED file owns nothing: no mapping, no frame, no turn (7.12.5).                     *)
ClosedOwnsNothing ==
    \A d \in Files :
       files[d].state = "CLOSED" =>
          /\ ~files[d].creating
          /\ \A p \in PageId : p.file = d => page_table[p].state = "ABSENT"

(* A published page has been initialised: whoever fetches it finds a valid image, in the   *)
(* pool or on disk, unless a write failed under a page that is still dirty in the pool.    *)
PublishedIsInitialised ==
    \A p \in PageId : p.no < files[p.file].published => Value(p) >= 1

(* RegisterFile publishes the file's current page count, so that no page already in the    *)
(* file lies beyond the bound and is taken for the tail of a failed NewPage.               *)
BoundStartsAtPageCount ==
    [][\A d \in Files : files[d].state = "CLOSED" /\ files'[d].state = "ACTIVE" =>
                         files'[d].published = physical'[d]]_vars

(* Shutdown reports success only for a pool with no pin, no I/O and nothing dirty.         *)
ShutdownIsClean ==
    [][\A t \in Threads :
          Succeeds(t, {"SHUTDOWN"}) => PoolIdle' /\ \A p \in PageId : ~Dirty(p)']_vars
=============================================================================
