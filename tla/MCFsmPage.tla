----------------------------- MODULE MCFsmPage -----------------------------
(* Four-bit page numbers, which the last FSM page overruns, and pages of four entries. *)
EXTENDS FsmPage
=============================================================================
