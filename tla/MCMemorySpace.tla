--------------------------- MODULE MCMemorySpace ---------------------------
(* The small instance of MemorySpace that TLC checks.  The addresses hold  *)
(* two ranges that a busy byte separates and the overflow area; a range    *)
(* grows up to seven bytes and IntMod is 6, so that the sizes of the two   *)
(* largest ranges are truncated.                                           *)
EXTENDS FreeRangeSearch
=============================================================================
