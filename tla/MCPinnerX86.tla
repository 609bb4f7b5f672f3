----------------------------- MODULE MCPinnerX86 -----------------------------
(* Small programs: the pins stand close together at the start of the code. *)
EXTENDS PinnedCode

CONSTANTS LastPin, LastText
MCPinAddr == 1 .. LastPin
MCText    == 1 .. LastText
=============================================================================
