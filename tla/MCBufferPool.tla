---------------------------- MODULE MCBufferPool ----------------------------
(***************************************************************************)
(* Instances of BufferPool for TLC: what each thread may call in each run.  *)
(***************************************************************************)
EXTENDS BufferPoolProperties, TLC

CONSTANTS t1, t2, t3, f1, f2

(* Fetches, edits and flushes of two pages compete for few frames. *)
FetchMenu == [t \in Threads |-> {"FETCH_READ", "FETCH_WRITE", "FLUSH_PAGE"}]

(* A file is retired, by either of two threads, and the pool is shut down, while pages are *)
(* created, changed and flushed.                                                           *)
LifecycleMenu ==
    [t \in Threads |->
        CASE t = t1 -> {"RETIRE_FLUSH", "RETIRE_DISCARD", "SHUTDOWN"}
          [] t = t2 -> {"NEW_PAGE", "RETIRE_FLUSH", "FLUSH_FILE", "FLUSH_ALL"}
          [] OTHER -> {"FETCH_WRITE", "NEW_PAGE", "FLUSH_PAGE"}]

(* Every kind of wait; one thread registers and retires the file. *)
WaitMenu ==
    [t \in Threads |-> CASE t = t1 -> {"FETCH_WRITE", "RETIRE_FLUSH", "REGISTER", "SHUTDOWN"}
                         [] t = t2 -> {"FETCH_WRITE", "FLUSH_PAGE", "NEW_PAGE"}
                         [] OTHER -> {"FETCH_READ", "NEW_PAGE"}]

(* A flush of everything beside an eviction. *)
FlushAllMenu ==
    [t \in Threads |-> IF t = t1 THEN {"FLUSH_ALL", "FLUSH_FILE"} ELSE {"FETCH_WRITE"}]

(* Files are registered, extended and retired by different threads. *)
RegisterMenu ==
    [t \in Threads |-> IF t = t1 THEN {"REGISTER"} ELSE {"REGISTER", "NEW_PAGE", "RETIRE_FLUSH"}]

(* Two threads retire the file a third one uses and registers again. *)
TwoRetirersMenu ==
    [t \in Threads |-> IF t = t3 THEN {"FETCH_READ", "REGISTER"} ELSE {"RETIRE_FLUSH", "RETIRE_DISCARD"}]

ThreadSymmetry == Permutations(Threads)
=============================================================================
