--------------------------- MODULE MCMemoryService ---------------------------
(***************************************************************************)
(* MemoryService for TLC: the configurations give every constant a value.  *)
(***************************************************************************)
EXTENDS MemoryService
=============================================================================
