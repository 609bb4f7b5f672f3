----------------------------- MODULE MCDollops -----------------------------
(* Small programs for Dollops.  FixMultipleFallthroughs has left every     *)
(* instruction with at most one predecessor by fallthrough, and code does  *)
(* not fall through in a circle: numbered along the fallthroughs, an       *)
(* instruction falls through to the next one or to none.  Pins and other   *)
(* indirect branch targets, a relocation, and up to MaxTargets branches.   *)
EXTENDS Dollops

CONSTANTS N, MaxTargets

MCInsn == 1 .. N

MCPrograms ==
    {[fallthrough |-> [i \in MCInsn |-> IF i \in falls THEN i + 1 ELSE None],
      target      |-> t, ibta |-> pins \cup others, pins |-> pins, relocs |-> relocs] :
        falls  \in SUBSET (1 .. N - 1),
        t      \in {f \in [MCInsn -> MCInsn \cup {None}] :
                       Cardinality({i \in MCInsn : f[i] # None}) <= MaxTargets},
        pins   \in {{1}, {2}, {1, N}},
        others \in {{}, {3}},
        relocs \in {{}, {2}}}
=============================================================================
