------------------------------ MODULE PageStore ------------------------------
(***************************************************************************)
(* What the buffer pool promises its clients: a store of pages, each with   *)
(* a current value and a stable value, in which caching cannot be seen.     *)
(***************************************************************************)
EXTENDS Integers

CONSTANTS Page, File(_)   \* the pages, and the file each of them belongs to

VARIABLES
    value,     \* what the next reader of each page sees
    stable,    \* what survives a power loss
    unsaved,   \* the pages whose value is not known to be stable
    doomed     \* the files whose owner has asked to give up what is not saved

storeVars == <<value, stable, unsaved, doomed>>

StoreInit ==
    /\ value \in [Page -> {0, 1}]
    /\ stable = value
    /\ unsaved = {}
    /\ doomed = {}

(* A writer publishes one change of page p, or creates it. *)
Publish(p) ==
    /\ value' = [value EXCEPT ![p] = @ + 1]
    /\ unsaved' = unsaved \cup {p}
    /\ UNCHANGED <<stable, doomed>>

(* Stable storage catches up with values the pages have or had; a page whose value has not *)
(* been saved may be torn.                                                                 *)
Persist ==
    /\ stable' \in [Page -> Int]
    /\ \A p \in Page : \/ stable'[p] \in {stable[p], value[p]}
                       \/ p \in unsaved /\ stable'[p] =< value[p]
    /\ UNCHANGED <<value, unsaved, doomed>>

(* A page counts as saved only when its value is stable. *)
Settle(p) ==
    /\ stable[p] = value[p]
    /\ unsaved' = unsaved \ {p}
    /\ UNCHANGED <<value, stable, doomed>>

(* The owner of file d asks to give up what has not been saved of it, or is refused. *)
Ask(d) ==
    /\ doomed' = doomed \cup {d} \/ doomed' = doomed \ {d}
    /\ UNCHANGED <<value, stable, unsaved>>

(* What has not been saved of file d is given up, and only if its owner has asked. *)
Discard(d) ==
    /\ d \in doomed
    /\ doomed' \in {doomed, doomed \ {d}}
    /\ value' \in [Page -> Int]
    /\ \A p \in Page : \/ value'[p] = value[p]
                       \/ p \in unsaved /\ File(p) = d /\ value'[p] < value[p]
    /\ unsaved' = {p \in unsaved : File(p) # d}
    /\ UNCHANGED stable

StoreNext ==
    \/ \E p \in Page : Publish(p) \/ Settle(p) \/ Ask(File(p)) \/ Discard(File(p))
    \/ Persist

StoreSpec == StoreInit /\ [][StoreNext]_storeVars
=============================================================================
