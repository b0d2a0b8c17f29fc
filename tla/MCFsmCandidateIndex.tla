------------------------- MODULE MCFsmCandidateIndex -------------------------
(* Three heap pages, every gap of a small page, and fewer categories than gaps. *)
EXTENDS FsmCandidateIndex

AllGaps == 0..MaxFree
=============================================================================
