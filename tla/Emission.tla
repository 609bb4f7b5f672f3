------------------------------ MODULE Emission ------------------------------
(***************************************************************************)
(* ZiprImpl_t::CreateBinaryFile around placement: the instructions are     *)
(* made fit for dollops (FixTwoByteWithPrefix, FixNoFallthroughs,          *)
(* FixMultipleFallthroughs), and after placement the dollops are written,  *)
(* branches are written again once every address is final, and pins and    *)
(* callbacks are patched (zipr/src/zipr.cpp; x86 sizer and patcher).       *)
(*                                                                         *)
(* Placement is here only its result: dollops one behind the other in any  *)
(* order, with a jump to the fallthrough dollop unless that comes next.    *)
(***************************************************************************)
EXTENDS Integers, FiniteSets, SequencesExt

CONSTANTS N,                \* instructions of the program: 1 .. N
          None, Programs,
          Orders(_),        \* the orders dollops may be placed in
          CALLBACK_TRAMPOLINE_SIZE, CallbackBytes,
          PluginsStartOver  \* what plugins do when they are asked again, below

ASSUME SizesAssumption ==
    /\ N \in Nat /\ None \notin Int
    /\ CallbackBytes \in Nat /\ CallbackBytes > 5
    /\ CALLBACK_TRAMPOLINE_SIZE = CallbackBytes
    /\ PluginsStartOver \in BOOLEAN

VARIABLES source,           \* the program as it comes from the IR
          prog,             \* of each instruction: op, prefix, ft, target
          place, final,     \* getPlace, final_insn_locations
          layout,           \* dollops in the order of their addresses
          todo,             \* entries still to be written
          mem,              \* what is in memory: operations at addresses
          m_des_to_replop, unpatched_callbacks, patch_list, pc

vars == <<source, prog, place, final, layout, todo, mem,
          m_des_to_replop, unpatched_callbacks, patch_list, pc>>

-----------------------------------------------------------------------------
(* Instructions Zipr adds: the hlt and the jump of FixNoFallthroughs, a    *)
(* jump behind an instruction, and the one placement appends to a dollop.  *)
Original == 1 .. N
hlt == N + 1
jmp == N + 2
JumpBehind(i) == N + 2 + i
Node == 1 .. 2 * N + 2
Appended(h) == 2 * N + 2 + h
Entry == 1 .. 4 * N + 4

Jcc    == {"jcc8", "loop", "jcc32"}
Branch == Jcc \cup {"jmp8", "jmp32"}

(* Programs as the transforms leave them: what is no branch has no target, *)
(* and the nodes above N are instructions not yet made.                    *)
Kinds == {"plain", "callback"} \cup Branch
Lifted(p) ==
    /\ p \in [op : [Node -> Kinds \cup {"none"}], prefix : [Node -> Nat],
              ft : [Node -> Original \cup {None}], target : [Node -> Original \cup {None}],
              pin : [Node -> Nat \cup {None}], plopped : SUBSET Node]
    /\ \A i \in Node : p.op[i] \notin Branch => p.target[i] = None
    /\ \A i \in Node \ Original : p.op[i] = "none" /\ p.prefix[i] = 0 /\ p.ft[i] = None

ASSUME ProgramsAssumption == \A p \in Programs : Lifted(p)

(* A pin has five bytes for its jump that no other pin and no dollop has:  *)
(* the pinner takes them out of the free space before placement.  Dollops  *)
(* are placed from 100 on.                                                 *)
ASSUME PinsAssumption ==
    \A p \in Programs : \A i \in Original : p.pin[i] # None =>
        /\ p.pin[i] + 5 <= 100
        /\ \A j \in Original \ {i} : p.pin[j] # None => \/ p.pin[i] + 5 <= p.pin[j]
                                                        \/ p.pin[j] + 5 <= p.pin[i]

(* The fronts, each of them once.                                          *)
ASSUME OrdersAssumption ==
    \A F \in SUBSET Node : \A order \in Orders(F) :
        order \in Seq(F) /\ IsInjective(order) /\ ToSet(order) = F

(* The length of an instruction's data bits.                               *)
Bits(op, prefix) ==
    prefix + CASE op \in {"jcc8", "jmp8", "loop"} -> 2
               [] op = "jcc32" -> 6
               [] op \in {"jmp32", "callback"} -> 5
               [] OTHER -> 1

-----------------------------------------------------------------------------
Init ==
    /\ source \in Programs /\ prog = source
    /\ place = [e \in Entry |-> None] /\ final = [e \in Entry |-> None]
    /\ layout = <<>> /\ todo = <<>> /\ mem = {}
    /\ m_des_to_replop = <<>> /\ unpatched_callbacks = {} /\ patch_list = {}
    /\ pc = "prefixes"

Prepare(next, p) ==
    /\ prog' = p /\ pc' = next
    /\ UNCHANGED <<source, place, final, layout, todo, mem, m_des_to_replop,
                   unpatched_callbacks, patch_list>>

(* A mistake: the prefixes of loops are left where they are.               *)
FixTwoByteWithPrefix_NotLoops ==
    /\ pc = "prefixes"
    /\ Prepare("fallthroughs",
               [prog EXCEPT !.prefix = [i \in Node |-> IF prog.op[i] \in Branch \ {"loop"} THEN 0
                                                       ELSE prog.prefix[i]]])

(* Branches lose their prefixes.                                           *)
FixTwoByteWithPrefix ==
    /\ pc = "prefixes"
    /\ Prepare("fallthroughs",
               [prog EXCEPT !.prefix = [i \in Node |-> IF prog.op[i] \in Branch THEN 0
                                                       ELSE prog.prefix[i]]])

(* Conditional branches without a fallthrough fall into a hlt, branches    *)
(* without a target go there.                                              *)
Lacks(i, field, ops) == i \in Original /\ field[i] = None /\ prog.op[i] \in ops

FixNoFallthroughs ==
    /\ pc = "fallthroughs"
    /\ Prepare("multiple",
         [prog EXCEPT
            !.op = [prog.op EXCEPT ![hlt] = "hlt", ![jmp] = "jmp32"],
            !.ft = [i \in Node |-> CASE i = hlt -> jmp
                                     [] Lacks(i, prog.ft, Jcc) -> hlt
                                     [] OTHER -> prog.ft[i]],
            !.target = [i \in Node |-> CASE i = jmp -> hlt
                                         [] Lacks(i, prog.target, Branch) -> hlt
                                         [] OTHER -> prog.target[i]]])

(* Of several instructions with the same fallthrough, one keeps it (the    *)
(* first of a set of pointers), the others get a jump behind them.         *)
FallsInto(f) == {i \in Node : prog.ft[i] = f}

(* A mistake: the jumps are added, and what falls through is not changed.  *)
FixMultipleFallthroughs_Unlinked ==
    /\ pc = "multiple"
    /\ \E keeps \in SUBSET {i \in Node : prog.ft[i] # None} :
          /\ \A f \in Node : FallsInto(f) # {} => Cardinality(keeps \cap FallsInto(f)) = 1
          /\ LET Jumps(i) == prog.ft[i] # None /\ i \notin keeps
                 New(n)   == \E i \in Original : n = JumpBehind(i) /\ Jumps(i)
             IN  Prepare("place",
                   [prog EXCEPT
                      !.op = [n \in Node |-> IF New(n) THEN "jmp32" ELSE prog.op[n]],
                      !.target = [n \in Node |-> IF New(n) THEN prog.ft[n - jmp] ELSE prog.target[n]]])

FixMultipleFallthroughs ==
    /\ pc = "multiple"
    /\ \E keeps \in SUBSET {i \in Node : prog.ft[i] # None} :
          /\ \A f \in Node : FallsInto(f) # {} => Cardinality(keeps \cap FallsInto(f)) = 1
          /\ LET Jumps(i) == prog.ft[i] # None /\ i \notin keeps
                 New(n)   == \E i \in Original : n = JumpBehind(i) /\ Jumps(i)
             IN  Prepare("place",
                   [prog EXCEPT
                      !.op = [n \in Node |-> IF New(n) THEN "jmp32" ELSE prog.op[n]],
                      !.ft = [n \in Node |-> IF Jumps(n) THEN JumpBehind(n) ELSE prog.ft[n]],
                      !.target = [n \in Node |-> IF New(n) THEN prog.ft[n - jmp] ELSE prog.target[n]]])

-----------------------------------------------------------------------------
(* What dollops and placement make of it.                                  *)
Pinned == {i \in Original : prog.pin[i] # None}

Reached ==
    LET Step(S) == (S \cup {prog.ft[i] : i \in S} \cup {prog.target[i] : i \in S}) \ {None}
        reach[n \in 0 .. Cardinality(Node)] == IF n = 0 THEN Pinned ELSE Step(reach[n - 1])
    IN  reach[Cardinality(Node)]

(* The dollop of front h, when F are the fronts.                           *)
Run(h, F) ==
    LET from[n \in 0 .. Cardinality(Node)] ==
            IF n = 0 THEN <<h>>
            ELSE LET next == prog.ft[Last(from[n - 1])]
                 IN  IF next \in F \cup {None} THEN from[n - 1] ELSE Append(from[n - 1], next)
    IN  from[Cardinality(Node)]

DollopOf(e) == CHOOSE d \in ToSet(layout) : e \in ToSet(d.entries)

Op(e)     == IF e \in Node THEN prog.op[e] ELSE "jmp32"
Prefix(e) == IF e \in Node THEN prog.prefix[e] ELSE 0
TargetOf(e) == IF e \in Node THEN prog.target[e] ELSE DollopOf(e).fallthrough

(* ZiprSizerX86_t::DetermineInsnSize goes by the first byte.               *)
DetermineInsnSize(e) ==
    CASE Op(e) = "jcc8" /\ Prefix(e) = 0 -> 6
      [] Op(e) = "jmp8" /\ Prefix(e) = 0 /\ TargetOf(e) # None -> 5
      [] Op(e) = "loop" /\ Prefix(e) = 0 /\ TargetOf(e) # None -> 12
      [] Op(e) = "callback" -> CALLBACK_TRAMPOLINE_SIZE
      [] OTHER -> Bits(Op(e), Prefix(e))

(* A plugin that plops an entry puts a byte of its own before it.          *)
Opening(e) == IF e \in prog.plopped THEN 1 ELSE 0
DetermineDollopEntrySize(e) == DetermineInsnSize(e) + Opening(e)

(* The dollops in some order, the jumps appended where they are needed,    *)
(* the pins as the pinner left them.  Dollops are written in the order of  *)
(* a set, which is another one.                                            *)
PlaceDollops ==
    /\ pc = "place"
    /\ \E runs \in {[h \in F |-> Run(h, F)] : F \in {Pinned \cup ({prog.target[i] : i \in Reached} \ {None})}} :
       \E order \in Orders(DOMAIN runs) :
          LET Falls(k) == prog.ft[Last(runs[order[k]])]
              Jump(k) == IF Falls(k) = None \/ (k < Len(order) /\ order[k + 1] = Falls(k)) THEN <<>>
                         ELSE <<Appended(order[k])>>
              dollops == [k \in DOMAIN order |->
                            [entries |-> runs[order[k]] \o Jump(k), fallthrough |-> Falls(k)]]
          IN  layout' = dollops
    /\ \E entries \in {FlattenSeq([k \in DOMAIN layout' |-> layout'[k].entries])} :
          LET at[k \in DOMAIN entries] ==
                  IF k = 1 THEN 100 ELSE at[k - 1] + DetermineDollopEntrySize(entries[k - 1])
          IN  /\ place' = [e \in Entry |->
                             IF e \in ToSet(entries) THEN at[CHOOSE k \in DOMAIN entries : entries[k] = e]
                             ELSE None]
              /\ todo' \in {entries,
                            FlattenSeq(Reverse([k \in DOMAIN layout' |-> layout'[k].entries]))}
    /\ mem' = {[at |-> prog.pin[i], size |-> 5, op |-> "jmp32", to |-> None, of |-> None] : i \in Pinned}
    /\ patch_list' = Pinned
    /\ pc' = "write"
    /\ UNCHANGED <<source, prog, final, m_des_to_replop, unpatched_callbacks>>

-----------------------------------------------------------------------------
(* Memory: operations at addresses; one that is partly overwritten is gone.*)
Touch(m, n) == m.at < n.at + n.size /\ n.at < m.at + m.size
Plop(M, new) == {m \in M : \A n \in new : ~ Touch(m, n)} \cup new
Item(a, size, op, to, e) == [at |-> a, size |-> size, op |-> op, to |-> to, of |-> e]

(* getFallthroughDollopEntry: the next entry, or else the dollop that      *)
(* follows.                                                                *)
FallthroughPlace(e) ==
    LET d == DollopOf(e)
        i == CHOOSE k \in DOMAIN d.entries : d.entries[k] = e
    IN  IF i < Len(d.entries) THEN place[d.entries[i + 1]]
        ELSE IF d.fallthrough = None THEN None ELSE place[d.fallthrough]

(* ZiprSizerX86_t::PlopDollopEntryWithTarget and ApplyPatch: what goes to  *)
(* address a for entry e, with its branch going to address t.  A short     *)
(* branch behind a prefix is nothing the patcher knows.                    *)
WithTarget(e, a, t) ==
    CASE Bits(Op(e), Prefix(e)) > 2 ->
           IF Op(e) \in {"jcc32", "jmp32"} THEN {Item(a, Bits(Op(e), Prefix(e)), Op(e), t, e)} ELSE {}
      [] Op(e) = "jcc8" -> {Item(a, 6, "jcc32", t, e)}
      [] Op(e) = "jmp8" -> {Item(a, 5, "jmp32", t, e)}
      [] Op(e) = "loop" ->
           IF FallthroughPlace(e) = None THEN {}
           ELSE {Item(a, 2, "loop", None, e), Item(a + 2, 5, "jmp32", FallthroughPlace(e), None),
                 Item(a + 7, 5, "jmp32", t, None)}

PlopDollopEntry(e, a, t) ==
    CASE Op(e) = "callback" -> {Item(a, 5, "call", None, e), Item(a + 5, CallbackBytes - 5, "lea", None, None)}
      [] TargetOf(e) # None -> WithTarget(e, a, t)
      [] OTHER -> {Item(a, Bits(Op(e), Prefix(e)), Op(e), None, e)}

SizeOfItems(I) == LET ends == {m.at + m.size : m \in I} IN CHOOSE b \in ends : \A c \in ends : c <= b

(* _PlopDollopEntry: the target is where its instruction already is, or    *)
(* where its dollop was placed.                                            *)
Known(e) == IF final[e] # None THEN final[e] ELSE place[e]
_PlopDollopEntry(e, a) ==
    PlopDollopEntry(e, a, IF TargetOf(e) = None THEN None ELSE Known(TargetOf(e)))

(* The plugin that plops an entry is given an address, writes its byte and *)
(* moves the instruction behind it.  Asked again, it is given the address  *)
(* it moved the instruction to: it opens there, or starts over at the      *)
(* place of the entry.                                                     *)
PlacedAddress(e, given) ==
    (IF e \in prog.plopped /\ PluginsStartOver THEN place[e] ELSE given) + Opening(e)
PluginByte(e, a) == IF Opening(e) = 0 THEN {} ELSE {Item(a - 1, 1, "pad", None, None)}

(* WriteDollops, with its assert that exactly the reserved bytes were      *)
(* written.                                                                *)
WriteEntry ==
    /\ pc = "write" /\ todo # <<>>
    /\ LET e   == Head(todo)
           a   == PlacedAddress(e, place[e])
           new == _PlopDollopEntry(e, a)
       IN  /\ mem' = Plop(mem, new \cup PluginByte(e, a))
           /\ final' = [final EXCEPT ![e] = a]
           /\ m_des_to_replop' = IF TargetOf(e) = None THEN m_des_to_replop
                                 ELSE Append(m_des_to_replop, e)
           /\ unpatched_callbacks' = IF Op(e) = "callback" THEN unpatched_callbacks \cup {e}
                                     ELSE unpatched_callbacks
           /\ pc' = IF new # {} /\ SizeOfItems(new) = place[e] + DetermineDollopEntrySize(e)
                       /\ (Op(e) = "callback" => CALLBACK_TRAMPOLINE_SIZE <= CallbackBytes)
                    THEN pc ELSE "aborted"
    /\ todo' = Tail(todo)
    /\ UNCHANGED <<source, prog, place, layout, patch_list>>

(* A mistake: the second pass is left out.                                 *)
ReplopEntry_Skipped ==
    /\ pc = "write" /\ todo = <<>> /\ m_des_to_replop # <<>>
    /\ m_des_to_replop' = Tail(m_des_to_replop)
    /\ UNCHANGED <<source, prog, place, final, layout, todo, mem, unpatched_callbacks,
                   patch_list, pc>>

(* ReplopDollopEntriesWithTargets: the plugins are asked again, at the     *)
(* final address, and the final address is set again.                      *)
ReplopEntry ==
    /\ pc = "write" /\ todo = <<>> /\ m_des_to_replop # <<>>
    /\ LET e == Head(m_des_to_replop)
           a == PlacedAddress(e, final[e])
       IN  /\ mem' = Plop(mem, _PlopDollopEntry(e, a) \cup PluginByte(e, a))
           /\ final' = [final EXCEPT ![e] = a]
    /\ m_des_to_replop' = Tail(m_des_to_replop)
    /\ UNCHANGED <<source, prog, place, layout, todo, unpatched_callbacks, patch_list, pc>>

Retarget(a, op, to) == {IF m.at = a THEN [m EXCEPT !.op = op, !.to = to] ELSE m : m \in mem}

UpdatePin(i) ==
    /\ pc = "write" /\ todo = <<>> /\ m_des_to_replop = <<>>
    /\ i \in patch_list
    /\ mem' = Retarget(prog.pin[i], "jmp32", Known(i))
    /\ patch_list' = patch_list \ {i}
    /\ UNCHANGED <<source, prog, place, final, layout, todo, m_des_to_replop,
                   unpatched_callbacks, pc>>

(* A plugin knows the callback, or its call becomes nops.                  *)
UpdateCallback(e) ==
    /\ pc = "write" /\ todo = <<>> /\ m_des_to_replop = <<>> /\ patch_list = {}
    /\ e \in unpatched_callbacks
    /\ \E op \in {"callback", "nops"} : mem' = Retarget(final[e], op, None)
    /\ unpatched_callbacks' = unpatched_callbacks \ {e}
    /\ UNCHANGED <<source, prog, place, final, layout, todo, m_des_to_replop, patch_list, pc>>

Next == \/ FixTwoByteWithPrefix \/ FixNoFallthroughs \/ FixMultipleFallthroughs
        \/ PlaceDollops \/ WriteEntry \/ ReplopEntry
        \/ \E i \in Original : UpdatePin(i) \/ UpdateCallback(i)

Spec == Init /\ [][Next]_vars

Done == /\ pc = "write" /\ todo = <<>> /\ m_des_to_replop = <<>>
        /\ patch_list = {} /\ unpatched_callbacks = {}

-----------------------------------------------------------------------------
(* OneFallthrough: from placement on, no instruction is the fallthrough of *)
(* two others, which dollops rely on when they are linked backwards.       *)
OneFallthrough ==
    pc \notin {"prefixes", "fallthroughs", "multiple"} =>
        \A f \in Node : Cardinality(FallsInto(f)) <= 1

(* SizesAgree: no assert fails; what is first written for an entry is      *)
(* exactly as long as what the sizer made placement reserve for it.  The   *)
(* second pass has no assert, see ControlKept.                             *)
SizesAgree == pc # "aborted"

(* The instruction of the program that control at address a comes to, when *)
(* jumps Zipr added are followed.                                          *)
OfProgram(a) == {m \in mem : m.at = a /\ m.of \in Original \cup {hlt}}
Hop(a) ==
    IF OfProgram(a) = {} /\ \E m \in mem : m.at = a /\ m.op \in {"pad", "jmp32"}
    THEN LET m == CHOOSE x \in mem : x.at = a IN IF m.op = "pad" THEN a + 1 ELSE m.to
    ELSE a
Reaches(a) ==
    LET path[n \in 0 .. 2 * Cardinality(Node)] == IF n = 0 THEN a ELSE Hop(path[n - 1])
        end == path[2 * Cardinality(Node)]
    IN  IF OfProgram(end) = {} THEN None ELSE (CHOOSE m \in OfProgram(end) : TRUE).of

(* ControlKept: when all is written, a pin leads to its instruction, and   *)
(* from each instruction control goes on to the fallthrough and to the     *)
(* target the program had, or to the hlt where it had none; branches go    *)
(* past what plugins put in front of their target.                         *)
Expected(i, field, ops) ==
    IF source[field][i] = None /\ source.op[i] \in ops THEN hlt ELSE source[field][i]
ControlKept ==
    Done =>
        /\ \A i \in Pinned : Reaches(prog.pin[i]) = i
        /\ \A m \in {x \in mem : x.of \in Original} :
             LET f == Expected(m.of, "ft", Jcc)
                 t == Expected(m.of, "target", Branch)
                 size == IF m.op \in {"callback", "nops"} THEN CallbackBytes ELSE m.size
             IN  /\ f # None => Reaches(m.at + size) = f
                 /\ t # None => IF m.op = "loop" THEN Reaches(m.at + 7) = t
                                ELSE Reaches(m.to) = t /\ m.to \in {final[e] : e \in Entry}
                 /\ m.op # "call"
=============================================================================
