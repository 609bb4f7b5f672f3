------------------------------ MODULE Dollops ------------------------------
(***************************************************************************)
(* ZiprDollopManager_t and Dollop_t (zipr/src/zipr_dollop_man.cpp,         *)
(* zipr/src/dollop.cpp): the instructions reachable from the pins are cut  *)
(* into dollops, straight runs that end where control cannot fall through, *)
(* or where the next instruction is an indirect branch target or already   *)
(* heads a dollop.  Dollops are split later, when one turns out to be a    *)
(* branch target in the middle and when it does not fit where it is put.   *)
(*                                                                         *)
(* A dollop is named by its first instruction, which never changes: split  *)
(* and removeDollopEntries take entries off the end.                       *)
(***************************************************************************)
EXTENDS Integers, Sequences, FiniteSets, SequencesExt

CONSTANTS Insn, None,
          Programs,         \* what FixMultipleFallthroughs leaves of the IR
          TRAMPOLINE_SIZE

InsnOrNone == Insn \cup {None}

ASSUME NoneAssumption == None \notin Insn
ASSUME SizeAssumption == TRAMPOLINE_SIZE \in Nat

(* Of the IR: FixMultipleFallthroughs has seen to it that no instruction   *)
(* is the fallthrough of two, and code does not fall through in a circle:  *)
(* however instructions are chosen, one of them goes on to no other.       *)
Typed(p) ==
    /\ p.fallthrough \in [Insn -> InsnOrNone] /\ p.target \in [Insn -> InsnOrNone]
    /\ p.ibta \subseteq Insn /\ p.pins \subseteq Insn /\ p.relocs \subseteq Insn

OneFallsInto(p) ==
    \A i, j \in Insn : p.fallthrough[i] = p.fallthrough[j] /\ p.fallthrough[i] # None => i = j

NoFallthroughCircle(p) ==
    \A S \in (SUBSET Insn) \ {{}} : \E i \in S : p.fallthrough[i] \notin S

ASSUME ProgramsAssumption ==
    \A p \in Programs : Typed(p) /\ OneFallsInto(p) /\ NoFallthroughCircle(p)

VARIABLES prog,        \* the IR: fallthrough, target, ibta, pins, relocs
          dollops,     \* the manager: m_dollops, m_insn_to_dollop, the links
          target,      \* the target dollop of each entry
          phase, todo, \* the loop of CreateDollops or UpdateAllTargets
          entries,     \* UpdateTargets' local copy of a dollop's entries
          changed

vars == <<prog, dollops, target, phase, todo, entries, changed>>

Heads(m)        == {h \in Insn : m.body[h] # <<>>}
Contained(m, i) == m.where[i] # None
Fallthrough(i)  == prog.fallthrough[i]

(* The size of a dollop: its entries and, when control falls out of it,    *)
(* the jump that may have to be written after them.                        *)
CalculateSize(body, ftDollop) ==
    Len(body) + IF ftDollop # None \/ Fallthrough(Last(body)) # None
                THEN TRAMPOLINE_SIZE ELSE 0

-----------------------------------------------------------------------------
(* Dollop_t::split at s, followed by addDollops of the new dollop: the     *)
(* links this <-> new <-> old fallthrough, both sizes, and the map.        *)

(* A mistake: the moved instructions stay mapped to the old dollop.        *)
Split_StaleMap(m, h, s) ==
    LET at   == CHOOSE k \in 1 .. Len(m.body[h]) : m.body[h][k] = s
        tail == SubSeq(m.body[h], at, Len(m.body[h]))
        kept == SubSeq(m.body[h], 1, at - 1)
    IN  [body  |-> [m.body EXCEPT ![h] = kept, ![s] = tail],
         where |-> m.where,
         ft    |-> [m.ft EXCEPT ![h] = s, ![s] = m.ft[h]],
         fb    |-> [i \in Insn |-> CASE i = s       -> h
                                     [] i = m.ft[h] -> s
                                     [] OTHER       -> m.fb[i]],
         size  |-> [m.size EXCEPT ![h] = CalculateSize(kept, s),
                                  ![s] = CalculateSize(tail, m.ft[h])]]

Split(m, h, s) ==
    LET at   == CHOOSE k \in 1 .. Len(m.body[h]) : m.body[h][k] = s
        tail == SubSeq(m.body[h], at, Len(m.body[h]))
        kept == SubSeq(m.body[h], 1, at - 1)
    IN  [body  |-> [m.body EXCEPT ![h] = kept, ![s] = tail],
         where |-> [i \in Insn |-> IF i \in Range(tail) THEN s ELSE m.where[i]],
         ft    |-> [m.ft EXCEPT ![h] = s, ![s] = m.ft[h]],
         fb    |-> [i \in Insn |-> CASE i = s       -> h
                                     [] i = m.ft[h] -> s
                                     [] OTHER       -> m.fb[i]],
         size  |-> [m.size EXCEPT ![h] = CalculateSize(kept, s),
                                  ![s] = CalculateSize(tail, m.ft[h])]]

-----------------------------------------------------------------------------
(* AddNewDollops(start) for an instruction that no dollop contains: the    *)
(* constructor's run, cut at the first instruction some dollop contains,   *)
(* then one dollop more for every indirect branch target the fallthrough   *)
(* path runs into, linked into a chain.  Where the path meets a dollop,    *)
(* the chain is linked to it, after splitting it if it is met in the       *)
(* middle.                                                                 *)

Stops(m, i) == i = None \/ i \in prog.ibta \/ Contained(m, i)

RunFrom(m, start) ==
    LET run[i \in Insn] == IF Stops(m, Fallthrough(i)) THEN <<i>>
                           ELSE <<i>> \o run[Fallthrough(i)]
    IN  run[start]

After(m, h) == Fallthrough(Last(RunFrom(m, h)))

NewHeads(m, start) ==
    LET heads[h \in Insn] ==
            {h} \cup IF After(m, h) = None \/ Contained(m, After(m, h)) THEN {}
                     ELSE heads[After(m, h)]
    IN  heads[start]

(* The first contained instruction on the fallthrough path, if any.        *)
Meets(m, start) ==
    {After(m, h) : h \in NewHeads(m, start)} \ (NewHeads(m, start) \cup {None})

EnsureHead(m, i) ==
    IF m.where[i] = i THEN m ELSE Split(m, m.where[i], i)

(* A mistake: the chain is not linked to the dollop it meets.              *)
AddFresh_NoLink(m, start) ==
    LET new == NewHeads(m, start)
        HeadOf(i) == CHOOSE h \in new : i \in Range(RunFrom(m, h))
        covered == UNION {Range(RunFrom(m, h)) : h \in new}
    IN  [body  |-> [i \in Insn |-> IF i \in new THEN RunFrom(m, i) ELSE m.body[i]],
         where |-> [i \in Insn |-> IF i \in covered THEN HeadOf(i) ELSE m.where[i]],
         ft    |-> [i \in Insn |-> IF i \in new /\ After(m, i) \in new
                                   THEN After(m, i) ELSE m.ft[i]],
         fb    |-> m.fb,
         size  |-> [i \in Insn |-> IF i \in new
                       THEN CalculateSize(RunFrom(m, i), After(m, i)) ELSE m.size[i]]]

AddFresh(m, start) ==
    LET new  == NewHeads(m, start)
        base == IF Meets(m, start) = {} THEN m
                ELSE EnsureHead(m, CHOOSE i \in Meets(m, start) : TRUE)
        HeadOf(i) == CHOOSE h \in new : i \in Range(RunFrom(m, h))
        covered   == UNION {Range(RunFrom(m, h)) : h \in new}
        Linked(i) == \E h \in new : After(m, h) = i
    IN  [body  |-> [i \in Insn |-> IF i \in new THEN RunFrom(m, i) ELSE base.body[i]],
         where |-> [i \in Insn |-> IF i \in covered THEN HeadOf(i) ELSE base.where[i]],
         ft    |-> [i \in Insn |-> IF i \in new THEN After(m, i) ELSE base.ft[i]],
         fb    |-> [i \in Insn |-> IF Linked(i)
                                   THEN CHOOSE h \in new : After(m, h) = i
                                   ELSE base.fb[i]],
         size  |-> [i \in Insn |-> IF i \in new
                       THEN CalculateSize(RunFrom(m, i), After(m, i)) ELSE base.size[i]]]

(* A mistake: a target in the middle of a dollop gets no dollop of         *)
(* its own.                                                                *)
AddNewDollops_NoSplit(m, start) ==
    IF Contained(m, start) THEN m ELSE AddFresh(m, start)

AddNewDollops(m, start) ==
    IF Contained(m, start) THEN EnsureHead(m, start) ELSE AddFresh(m, start)

-----------------------------------------------------------------------------
NoDollops == [body  |-> [i \in Insn |-> <<>>], where |-> [i \in Insn |-> None],
              ft    |-> [i \in Insn |-> None], fb    |-> [i \in Insn |-> None],
              size  |-> [i \in Insn |-> 0]]

Init ==
    /\ prog \in Programs
    /\ dollops = NoDollops
    /\ target = [i \in Insn |-> None]
    /\ phase = "pins" /\ todo = prog.pins
    /\ entries = <<>>
    /\ changed = FALSE

(* CreateDollops: a dollop for every pin that needs a patch.               *)
CreateForPin ==
    /\ phase = "pins"
    /\ \E i \in todo : /\ dollops' = AddNewDollops(dollops, i)
                       /\ todo' = todo \ {i}
    /\ UNCHANGED <<prog, target, phase, entries, changed>>

PinsDone ==
    /\ phase = "pins" /\ todo = {}
    /\ phase' = "relocs" /\ todo' = prog.relocs
    /\ UNCHANGED <<prog, dollops, target, entries, changed>>

(* UpdateAllTargets: first the instructions relocations refer to, ...      *)
CreateForReloc ==
    /\ phase = "relocs"
    /\ \E i \in todo : /\ dollops' = AddNewDollops(dollops, i)
                       /\ todo' = todo \ {i}
    /\ UNCHANGED <<prog, target, phase, entries, changed>>

RelocsDone ==
    /\ phase = "relocs" /\ todo = {}
    /\ phase' = "targets" /\ todo' = Heads(dollops)
    /\ UNCHANGED <<prog, dollops, target, entries, changed>>

(* ... then UpdateTargets on a copy of the set of dollops, each with a     *)
(* copy of its entries, in the order of their addresses in memory.         *)
UpdateTargets ==
    /\ phase = "targets" /\ entries = <<>>
    /\ \E d \in todo : /\ entries' = dollops.body[d]
                       /\ todo' = todo \ {d}
    /\ UNCHANGED <<prog, dollops, target, phase, changed>>

(* A mistake: every target counts as a change.                             *)
UpdateEntry_AlwaysChanged ==
    /\ phase = "targets" /\ entries # <<>>
    /\ entries' = Tail(entries)
    /\ LET i == Head(entries)
           t == prog.target[i]
           m == AddNewDollops(dollops, t)
       IN  IF t = None
           THEN UNCHANGED <<dollops, target, changed>>
           ELSE /\ dollops' = m
                /\ target' = [target EXCEPT ![i] = m.where[t]]
                /\ changed' = TRUE
    /\ UNCHANGED <<prog, phase, todo>>

UpdateEntry ==
    /\ phase = "targets" /\ entries # <<>>
    /\ entries' = Tail(entries)
    /\ LET i == Head(entries)
           t == prog.target[i]
           m == AddNewDollops(dollops, t)
       IN  IF t = None
           THEN UNCHANGED <<dollops, target, changed>>
           ELSE /\ dollops' = m
                /\ target' = [target EXCEPT ![i] = m.where[t]]
                /\ changed' = (changed \/ target[i] # m.where[t])
    /\ UNCHANGED <<prog, phase, todo>>

NextPass ==
    /\ phase = "targets" /\ entries = <<>> /\ todo = {}
    /\ changed
    /\ changed' = FALSE /\ todo' = Heads(dollops)
    /\ UNCHANGED <<prog, dollops, target, phase, entries>>

(* A mistake: the loop stops after one pass, changed or not.               *)
TargetsDone_OnePass ==
    /\ phase = "targets" /\ entries = <<>> /\ todo = {}
    /\ phase' = "place"
    /\ UNCHANGED <<prog, dollops, target, todo, entries, changed>>

TargetsDone ==
    /\ phase = "targets" /\ entries = <<>> /\ todo = {}
    /\ ~ changed
    /\ phase' = "place"
    /\ UNCHANGED <<prog, dollops, target, todo, entries, changed>>

(* PlaceDollops: the entries of a dollop that do not fit its place become  *)
(* a dollop of their own.                                                  *)
SplitToFit ==
    /\ phase = "place"
    /\ \E h \in Heads(dollops) : \E k \in 2 .. Len(dollops.body[h]) :
          dollops' = Split(dollops, h, dollops.body[h][k])
    /\ UNCHANGED <<prog, target, phase, todo, entries, changed>>

Next == \/ CreateForPin \/ PinsDone \/ CreateForReloc \/ RelocsDone
        \/ UpdateTargets \/ UpdateEntry \/ NextPass \/ TargetsDone
        \/ SplitToFit

Spec == Init /\ [][Next]_vars /\ WF_vars(Next)

-----------------------------------------------------------------------------
TypeOK ==
    /\ prog.pins \cup prog.relocs \subseteq Insn
    /\ \A h \in Insn : \A k \in 1 .. Len(dollops.body[h]) : dollops.body[h][k] \in Insn
    /\ dollops.where \in [Insn -> InsnOrNone]
    /\ dollops.ft \in [Insn -> InsnOrNone] /\ dollops.fb \in [Insn -> InsnOrNone]
    /\ dollops.size \in [Insn -> Nat]
    /\ target \in [Insn -> InsnOrNone]
    /\ phase \in {"pins", "relocs", "targets", "place"}
    /\ todo \in SUBSET Insn /\ changed \in BOOLEAN

Covered == {i \in Insn : Contained(dollops, i)}

(* OneDollopEach: however often dollops are met in the middle and split,   *)
(* m_insn_to_dollop and the entry lists tell the same story: an            *)
(* instruction is an entry of exactly the dollop it is mapped to, once.    *)
OneDollopEach ==
    /\ TypeOK
    /\ \A h \in Heads(dollops) : Head(dollops.body[h]) = h /\ IsInjective(dollops.body[h])
    /\ \A i, h \in Insn : i \in Range(dollops.body[h]) <=> dollops.where[i] = h

(* LayoutFollowsFallthrough: what comes after an instruction in the        *)
(* dollops, the next entry or else the front of the fallthrough dollop, is *)
(* its fallthrough in the IR; and the fallthrough and fallback pointers    *)
(* are inverse to each other and join existing dollops.  m_size, which is  *)
(* cached, is what CalculateSize would return now: it depends on the same  *)
(* entries and on whether there is a fallthrough.                          *)
LayoutNext(i) ==
    LET b == dollops.body[dollops.where[i]]
        k == CHOOSE n \in 1 .. Len(b) : b[n] = i
    IN  IF k < Len(b) THEN b[k + 1] ELSE dollops.ft[dollops.where[i]]
LayoutFollowsFallthrough ==
    /\ \A i \in Covered : LayoutNext(i) = Fallthrough(i)
    /\ \A g, h \in Insn : /\ dollops.ft[g] = h <=> dollops.fb[h] = g
                          /\ dollops.ft[g] = h => {g, h} \subseteq Heads(dollops)
    /\ \A h \in Heads(dollops) :
          dollops.size[h] = CalculateSize(dollops.body[h], dollops.ft[h])

(* TargetsAreFronts: an indirect branch target is the first entry of its   *)
(* dollop: AddNewDollops asserts this of the dollop a fallthrough runs     *)
(* into, and the pin of the target jumps to the front; a target dollop     *)
(* that was recorded before other dollops were split or added still starts *)
(* with the target instruction, and when UpdateAllTargets returns every    *)
(* entry that has a target has its dollop.                                 *)
TargetsAreFronts ==
    /\ \A i \in Covered \cap prog.ibta : dollops.where[i] = i
    /\ \A i \in Insn : target[i] # None => /\ target[i] = prog.target[i]
                                           /\ target[i] \in Heads(dollops)
    /\ phase = "place" => \A i \in Covered : target[i] = prog.target[i]

(* ExactlyReachable: when UpdateAllTargets returns, the instructions in    *)
(* dollops are those reachable from the pins and relocations by            *)
(* fallthrough and target, no more and no fewer.                           *)
Reaching ==
    {S \in SUBSET Insn : /\ prog.pins \cup prog.relocs \subseteq S
                         /\ \A i \in S : {Fallthrough(i), prog.target[i]} \subseteq S \cup {None}}
ReachableInsns == {i \in Insn : \A S \in Reaching : i \in S}
ExactlyReachable == phase = "place" => Covered = ReachableInsns

(* UpdateTerminates: the passes of UpdateAllTargets come to an end,        *)
(* although each may split dollops of the set it is working through.       *)
UpdateTerminates == <>(phase = "place")

=============================================================================
