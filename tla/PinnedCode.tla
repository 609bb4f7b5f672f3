----------------------------- MODULE PinnedCode -----------------------------
(***************************************************************************)
(* The code PinnerX86 leaves behind, as the processor executes it from an  *)
(* address the program computed: that address leads to its instruction.    *)
(***************************************************************************)
EXTENDS PinnerX86, SequencesExt

(* What the processor does from an address: the word of each push is kept, *)
(* and the compares of a sled see the words.                               *)
Lost == [op |-> "lost"]

Word(pc) ==
    IF \A i \in 1 .. 4 : mem[pc + i] \in {"push", "nop"}
    THEN Cardinality({i \in 1 .. 4 : mem[pc + i] = "nop"}) ELSE Other

RECURSIVE Arrive(_, _)
Arrive(i, stack) ==
    CASE i.op = "pin" -> IF stack = <<>> THEN i ELSE Lost
      [] i.op = "lea" -> IF Len(stack) = 1 THEN Original(i.at) ELSE Lost
      [] i.op = "sled" ->
           LET Group(a) == PushedValues(i.end - i.start, a - i.start)
               hits == {a \in DOMAIN i.target : IsPrefix(Group(a), stack)}
           IN  IF hits = {} THEN Lost
               ELSE Arrive(i.target[Min(hits)],
                           SubSeq(stack, Len(Group(Min(hits))) + 1, Len(stack)))
      [] OTHER -> Lost

RECURSIVE Execute(_, _, _)
Execute(pc, stack, fuel) ==
    IF fuel = 0 \/ pc \notin Addr THEN Lost
    ELSE CASE mem[pc] = "push" -> Execute(pc + 5, <<Word(pc)>> \o stack, fuel - 1)
           [] mem[pc] = "nop"  -> Execute(pc + 1, stack, fuel - 1)
           [] mem[pc] = "jmp8" /\ mem[pc + 1] = "arg" ->
                Execute(IF disp[pc] = 0 THEN pc + 2 ELSE disp[pc], stack, fuel - 1)
           [] mem[pc] = "jmp32" /\ (\A i \in 1 .. 4 : mem[pc + i] = "arg") ->
                LET to == {p \in patch_list : p[2] = pc}
                IN  IF Cardinality(to) = 1 THEN Arrive((CHOOSE p \in to : TRUE)[1], stack)
                    ELSE Lost
           [] OTHER -> Lost

Reaches(a) == Execute(a, <<>>, 2 * LastByte)

-----------------------------------------------------------------------------
(* The jump behind the push of two adjacent pins lies in a sled that the   *)
(* push itself is not part of: the one case in which a pin is lost.        *)
CutPush(a) == mem[a] = "push" /\ a \notin AddrInSled /\ a + 5 \in AddrInSled

(* doPinning keeps every other pin: a program that computes the address of *)
(* a pinned instruction and jumps there gets to that instruction, with the *)
(* stack it had, through the jumps, pushes and sleds put down and the      *)
(* patches recorded, whatever the order of the pin sets and however chains *)
(* and sleds run into each other.                                          *)
PinsLead ==
    phase = "done" => \A a \in pins : CutPush(a) \/ Reaches(a) = Original(a)
=============================================================================
