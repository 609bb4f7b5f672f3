------------------------------- MODULE Sled68 -------------------------------
(***************************************************************************)
(* What the processor does in a 68-sled, and how the code at the end of    *)
(* the sled finds out where it was entered.  A sled is `size` bytes 0x68   *)
(* (push imm32), then the bytes 0x90 (nop), then a jump to a chain of      *)
(* compares of the words on the stack, one group per jump point.  A word   *)
(* pushed in the sled is known by the number of 0x90 bytes in it, 0 .. 4;  *)
(* any other word is Other.  Offsets are relative to the sled.             *)
(***************************************************************************)
EXTENDS SledWords, Sequences, FiniteSets, SequencesExt, FiniteSetsExt

CONSTANTS MaxSize,         \* bound: bytes of the sled
          ProgramWords     \* words the program may have on its stack

ASSUME SledAssumption == MaxSize \in Nat \ {0} /\ ProgramWords \subseteq 0 .. Other

VARIABLES size, points, entry, pc, stack, below, untried, found

vars == <<size, points, entry, pc, stack, below, untried, found>>

(* A mistake: the groups are tried from the last jump point.               *)
First_Descending(P) == Max(P)

(* Emit68Sled builds the chain from the last jump point backwards, so the  *)
(* group of the first one is tried first.                                  *)
First(P) == Min(P)

(* The words of the program's stack below the ones the sled pushes.        *)
Depth == ceildiv(MaxSize, 5)

Init ==
    /\ size \in 1 .. MaxSize
    /\ points \in {P \in SUBSET (0 .. size - 1) : {0, size - 1} \subseteq P}
    /\ entry \in points
    /\ below \in [1 .. Depth -> ProgramWords]
    /\ pc = entry
    /\ stack = below
    /\ untried = points
    /\ found = "running"

Push ==
    /\ pc < size
    /\ stack' = <<Cardinality({i \in 1 .. 4 : pc + i >= size})>> \o stack
    /\ pc' = pc + 5
    /\ UNCHANGED <<size, points, entry, below, untried, found>>

Nop ==
    /\ size <= pc /\ pc < size + nop_overhead
    /\ pc' = pc + 1
    /\ UNCHANGED <<size, points, entry, stack, below, untried, found>>

AtChain == pc = size + nop_overhead /\ found = "running"
Group   == PushedValues(size, First(untried))
Matches == IsPrefix(Group, stack)

(* Every compare of the group agrees: lea drops the words, then a jump.    *)
Hit ==
    /\ AtChain /\ Matches
    /\ stack' = SubSeq(stack, Len(Group) + 1, Len(stack))
    /\ found' = "hit"
    /\ UNCHANGED <<size, points, entry, pc, below, untried>>

(* The last jne goes to a hlt.                                             *)
Miss ==
    /\ AtChain /\ ~ Matches
    /\ untried' = untried \ {First(untried)}
    /\ found' = IF untried' = {} THEN "hlt" ELSE "running"
    /\ UNCHANGED <<size, points, entry, pc, stack, below>>

Next == Push \/ Nop \/ Hit \/ Miss

Spec == Init /\ [][Next]_vars /\ WF_vars(Next)

-----------------------------------------------------------------------------
(* The processor is inside the sled or at its end, on words it can know.   *)
TypeOK ==
    /\ size \in 1 .. MaxSize /\ entry \in points /\ pc \in 0 .. size + nop_overhead
    /\ stack \in Seq(0 .. Other) /\ untried \subseteq points
    /\ found \in {"running", "hit", "hlt"}

(* From every jump point of a sled of Do68Sled the instruction streams     *)
(* meet at the jump behind the nops: no push swallows a byte of that jump. *)
Resynchronises == <>(pc = size + nop_overhead)

(* Whatever jump point the sled was entered at, the compares Emit68Sled    *)
(* wrote pick that one, its lea leaves the stack as the program had it,    *)
(* and no entry gets to the hlt behind the last compare.                   *)
EntryFound ==
    /\ TypeOK
    /\ found = "hit" => First(untried) = entry /\ stack = below
    /\ found # "hlt"
=============================================================================
