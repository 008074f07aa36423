---------------------------- MODULE MC_GmssstSet ----------------------------
(***************************************************************************)
(* Two threads setting the same two-element field: one element each way  *)
(* is the least that can be torn.                                          *)
(***************************************************************************)
EXTENDS GmssstSet

CONSTANTS t1, t2

MC_Threads == {t1, t2}
MC_NumElems == 2

=============================================================================
