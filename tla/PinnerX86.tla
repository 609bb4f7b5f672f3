------------------------------ MODULE PinnerX86 ------------------------------
(***************************************************************************)
(* ZiprPinnerX86_t: every instruction the program may reach by an address  *)
(* it computed (a pin) keeps that address.  The pin gets a two-byte jump,  *)
(* which is widened in place to five bytes, or leads to a slot in reach    *)
(* reserved for it; a two-byte slot is a pin again in the next round.      *)
(* Two adjacent pins use a push whose operand holds the second one's jump; *)
(* longer runs, and pins with no slot in reach, use a 68-sled.             *)
(*                                                                         *)
(* One action is one turn of the loop over unresolved_pinned_addrs,        *)
(* two_byte_pins or five_byte_pins.  Sets of pins are ordered by the heap  *)
(* address of the instruction: a turn takes any pin not yet visited.       *)
(***************************************************************************)
EXTENDS SledWords, FiniteSets, FiniteSetsExt, Functions

CONSTANTS PinAddr,      \* addresses that may be pinned
          MaxPins,      \* bound: pins of a program
          Text,         \* bytes free before pinning: the code section
          Reach         \* how far a two-byte jump is tried: 120 in the code

ASSUME TextAssumption ==
    /\ Text \subseteq Nat \ {0} /\ IsFiniteSet(Text) /\ PinAddr \subseteq Text
    /\ MaxPins \in Nat /\ Reach \in Nat

VARIABLES pins, free, mem, disp,                    \* memory_space
          two_byte_pins, five_byte_pins, patch_list,
          PatchAtAddrs, InsnSizeAtAddrs, AddrInSled, sleds,
          phase, todo, aborted

space == <<free, mem, disp>>
marks == <<PatchAtAddrs, InsnSizeAtAddrs>>
vars  == <<pins, space, two_byte_pins, five_byte_pins, patch_list, marks,
           AddrInSled, sleds, phase, todo, aborted>>

(* Bytes a sled may be written to past the last mark.                      *)
LastByte == Max(Text) + 5 + sled_overhead
Addr     == 1 .. LastByte

(* Instructions: an original one by its pin, the lea that drops the push   *)
(* of two adjacent pins, and the compares at the end of a sled.            *)
Null         == [op |-> "null"]
Original(a)  == [op |-> "pin", at |-> a]
Lea(a)       == [op |-> "lea", at |-> a]

(* A range is half open here.  0, 0 is "no range".                         *)
Pin(i, a, s, e) == [insn |-> i, addr |-> a, start |-> s, end |-> e]
HasRange(up)    == up.start # 0 \/ up.end # 0
RangeOf(up)     == up.start .. up.end - 1

FindPinnedInsnAtAddr(a) ==
    IF a \in DOMAIN InsnSizeAtAddrs THEN InsnSizeAtAddrs[a].insn ELSE Null

(* A mistake: the last byte of the zone is not looked at.                  *)
IsPinFreeZone_OneShort(a, size) ==
    \A i \in 0 .. size - 2 : FindPinnedInsnAtAddr(a + i) = Null

IsPinFreeZone(a, size) == \A i \in 0 .. size - 1 : FindPinnedInsnAtAddr(a + i) = Null
areBytesFree(a, size)  == \A i \in 0 .. size - 1 : a + i \in free

Written(a, size, op) ==
    [b \in Addr |-> IF b = a THEN op ELSE IF b \in a + 1 .. a + size - 1 THEN "arg"
                    ELSE mem[b]]
(* An entry of a map is set, or made.                                      *)
Assigned(map, k, value) == [x \in DOMAIN map \cup {k} |-> IF x = k THEN value ELSE map[x]]

AtPin(a, value) == [disp EXCEPT ![a] = value]

Init ==
    /\ pins \in {P \in SUBSET PinAddr : P # {} /\ Cardinality(P) <= MaxPins}
    /\ free = Text
    /\ mem  = [a \in Addr |-> "none"]
    /\ disp = [a \in Addr |-> 0]
    /\ two_byte_pins = {} /\ five_byte_pins = <<>> /\ patch_list = {}
    /\ PatchAtAddrs = <<>>
    /\ InsnSizeAtAddrs = [a \in pins |-> [insn |-> Original(a), size |-> 2]]
    /\ AddrInSled = {} /\ sleds = {}
    /\ phase = "reserve" /\ todo = pins /\ aborted = FALSE

-----------------------------------------------------------------------------
(* 68-sleds.  P is m_PatchAtAddrs as the caller has just left it.          *)
Target(a, P) == IF FindPinnedInsnAtAddr(a) # Null THEN FindPinnedInsnAtAddr(a)
                ELSE IF a \in DOMAIN P THEN P[a].insn ELSE Null

(* Calc68SledSize: past the first mark with room for the nops and the jump.*)
Marks(P) == {a \in Addr : Target(a, P) # Null}
SledEnd(s, P) ==
    LET marked == Marks(P)
    IN  Min({m + 1 : m \in {a \in marked : a >= s /\ (a + 1 .. a + sled_overhead) \cap marked = {}}})

JumpPoints(s, e, P) == {a \in s .. e - 1 : Target(a, P) # Null}

Emit68Sled(s, e, points, P) ==
    [op |-> "sled", start |-> s, end |-> e, target |-> [a \in points |-> Target(a, P)]]

Overlapped(s, e) == {old \in sleds : s <= old.end /\ e >= old.start}

(* Clearing the area first changes nothing: all of it is taken again.      *)
NewSled(s, e, P) ==
    LET d == Emit68Sled(s, e, JumpPoints(s, e, P), P)
        pc == e + nop_overhead
    IN  /\ free' = free \ (s .. pc + jmp_overhead - 1)
        /\ mem' = [b \in Addr |-> IF b \in s .. e - 1 THEN "push"
                                  ELSE IF b \in e .. pc - 1 THEN "nop"
                                  ELSE IF b = pc THEN "jmp32"
                                  ELSE IF b \in pc + 1 .. pc + jmp_overhead - 1 THEN "arg"
                                  ELSE mem[b]]
        /\ AddrInSled' = AddrInSled \cup (s .. pc - 1)
        /\ five_byte_pins' = Assigned(five_byte_pins, d, pc)
        /\ sleds' = sleds \cup {[start |-> s, end |-> e, points |-> DOMAIN d.target,
                                 insn |-> d]}
        /\ aborted' = (e - s <= 2)

(* A mistake: the jump behind the old sled keeps the old compares.         *)
Update68Sled_OldCompares(s, e, old, P) ==
    /\ free' = free \ (s .. old.start - 1)
    /\ mem' = [b \in Addr |-> IF b \in s .. old.start - 1 THEN "push" ELSE mem[b]]
    /\ AddrInSled' = AddrInSled \cup (s .. old.start - 1)
    /\ sleds' = (sleds \ {old}) \cup
                {[old EXCEPT !.start = s, !.points = @ \cup JumpPoints(s, e, P)]}
    /\ UNCHANGED five_byte_pins
    /\ aborted' = (e - s <= 2)

(* The new sled runs into an old one behind it, whose tail is kept.        *)
Update68Sled(s, e, old, P) ==
    LET points == old.points \cup JumpPoints(s, e, P)
        end    == Max({e, old.end})
        d      == Emit68Sled(s, end, points, P)
    IN  /\ free' = free \ (s .. old.start - 1)
        /\ mem' = [b \in Addr |-> IF b \in s .. old.start - 1 THEN "push" ELSE mem[b]]
        /\ AddrInSled' = AddrInSled \cup (s .. old.start - 1)
        /\ sleds' = (sleds \ {old}) \cup
                    {[start |-> s, end |-> end, points |-> points, insn |-> d]}
        /\ five_byte_pins' =
             [i \in (DOMAIN five_byte_pins \ {old.insn}) \cup {d} |->
                 five_byte_pins[IF i = d THEN old.insn ELSE i]]
        /\ aborted' = (e - s <= 2 \/ s > old.start)

FirstOverlapped(s, e) ==
    CHOOSE old \in Overlapped(s, e) : \A o \in Overlapped(s, e) : old.start <= o.start

Do68Sled(s, P) ==
    \E e \in {SledEnd(s, P)} :
        IF Overlapped(s, e) = {} THEN NewSled(s, e, P)
        ELSE Update68Sled(s, e, FirstOverlapped(s, e), P)

(* The address Do68Sled returns.                                           *)
SledReturns(s, P) ==
    LET e == SledEnd(s, P)
    IN  IF Overlapped(s, e) = {} THEN e + sled_overhead
        ELSE Max({e, FirstOverlapped(s, e).end})

-----------------------------------------------------------------------------
(* ReservePinnedInstructions, in order of address.                         *)
ReserveJump(a) ==
    /\ FindPinnedInsnAtAddr(a + 1) = Null
    /\ aborted' = ~ ({mem[a], mem[a + 1]} = {"none"} /\ {a, a + 1} \subseteq free)
    /\ mem' = Written(a, 2, "jmp8")
    /\ free' = free \ {a, a + 1}
    /\ two_byte_pins' = two_byte_pins \cup {Pin(Original(a), a, a, a + 2)}
    /\ todo' = todo \ {a}
    /\ UNCHANGED <<five_byte_pins, AddrInSled, sleds>>

(* Two in a row: push, then a jump behind its operand.                     *)
ReservePush(a) ==
    /\ FindPinnedInsnAtAddr(a + 1) # Null /\ IsPinFreeZone(a + 2, 5)
    /\ aborted' = ~ ({mem[a + 5], mem[a + 6]} = {"none"} /\ {a, a + 5, a + 6} \subseteq free)
    /\ mem' = [Written(a + 5, 2, "jmp8") EXCEPT ![a] = "push"]
    /\ free' = free \ {a, a + 5, a + 6}
    /\ two_byte_pins' = two_byte_pins \cup {Pin(Lea(a), a + 5, 0, 0)}
    /\ todo' = todo \ {a}
    /\ UNCHANGED <<five_byte_pins, AddrInSled, sleds>>

ReserveSled(a) ==
    /\ FindPinnedInsnAtAddr(a + 1) # Null /\ ~ IsPinFreeZone(a + 2, 5)
    /\ Do68Sled(a, PatchAtAddrs)
    /\ todo' = {b \in todo : b >= SledReturns(a, PatchAtAddrs)}
    /\ UNCHANGED two_byte_pins

ReservePinnedInstructions ==
    /\ phase = "reserve" /\ todo # {}
    /\ LET a == Min(todo) IN ReserveJump(a) \/ ReservePush(a) \/ ReserveSled(a)
    /\ UNCHANGED <<pins, disp, patch_list, marks, phase>>

-----------------------------------------------------------------------------
(* PreReserve2ByteJumpTargets.                                             *)
Slots(a, size) ==
    {s \in a - Reach .. a + Reach : s > 0 /\ areBytesFree(s, size)}

(* m_PatchAtAddrs.insert: an entry that is there stays.                    *)
RecordNewPatch(s, i, size) ==
    IF s \in DOMAIN PatchAtAddrs THEN PatchAtAddrs
    ELSE Assigned(PatchAtAddrs, s, [insn |-> i, size |-> size])

Reserve(up, s, size) ==
    /\ free' = free \ (s .. s + size - 1)
    /\ PatchAtAddrs' = RecordNewPatch(s, up.insn, size)
    /\ two_byte_pins' = (two_byte_pins \ {up}) \cup
                        {[up EXCEPT !.start = s, !.end = s + size]}
    /\ UNCHANGED <<mem, AddrInSled, sleds, five_byte_pins, aborted>>

ReserveFive(up) ==
    /\ up.addr \notin AddrInSled /\ Slots(up.addr, 5) # {}
    /\ Reserve(up, Max(Slots(up.addr, 5)), 5)

ReserveTwo(up) ==
    /\ up.addr \notin AddrInSled /\ Slots(up.addr, 5) = {} /\ Slots(up.addr, 2) # {}
    /\ Reserve(up, Max(Slots(up.addr, 2)), 2)

(* No slot in reach: a sled over the jump, which is a jump point of it.    *)
EmergencySled(up) ==
    /\ up.addr \notin AddrInSled /\ Slots(up.addr, 5) = {} /\ Slots(up.addr, 2) = {}
    /\ PatchAtAddrs' = RecordNewPatch(up.addr, up.insn, 2)
    /\ Do68Sled(up.addr, RecordNewPatch(up.addr, up.insn, 2))
    /\ UNCHANGED two_byte_pins

(* Its bytes and its mark stay as they are.                                *)
ForgetInSled(up) ==
    /\ up.addr \in AddrInSled
    /\ two_byte_pins' = two_byte_pins \ {up}

PreReserve2ByteJumpTargets ==
    /\ phase \in {"first reserve", "reserve again"}
    /\ \E up \in todo :
          /\ todo' = todo \ {up}
          /\ \/ ReserveFive(up) \/ ReserveTwo(up) \/ EmergencySled(up)
             \/ ForgetInSled(up) /\ UNCHANGED <<free, mem, AddrInSled, sleds,
                                        five_byte_pins, PatchAtAddrs, aborted>>
    /\ UNCHANGED <<pins, disp, patch_list, InsnSizeAtAddrs, phase>>

-----------------------------------------------------------------------------
(* ExpandPinnedInstructions.                                               *)
CanUpdate(up) == areBytesFree(up.addr + 2, 3) /\ up.start \notin AddrInSled

(* A mistake: bytes a sled has taken are released too.                     *)
Released_AlsoInSled(up) == RangeOf(up)

(* mergeFreeRange of the bytes of the range that no sled has taken.        *)
Released(up) == RangeOf(up) \ AddrInSled

Expand(up) ==
    /\ up.addr \notin AddrInSled /\ CanUpdate(up)
    /\ mem' = Written(up.addr, 5, "jmp32")
    /\ LET left == free \ (up.addr .. up.addr + 4)
       IN  /\ free' = left \cup Released(up)
           /\ aborted' = (Released(up) \cap left # {} \/ up.start \notin DOMAIN PatchAtAddrs)
    /\ PatchAtAddrs' = Restrict(PatchAtAddrs, DOMAIN PatchAtAddrs \ {up.start})
    /\ five_byte_pins' = Assigned(five_byte_pins, up.insn, up.addr)
    /\ InsnSizeAtAddrs' = Assigned(InsnSizeAtAddrs, up.addr,
                                   [insn |-> FindPinnedInsnAtAddr(up.addr), size |-> 5])
    /\ two_byte_pins' = two_byte_pins \ {up}

StaysTwo(up) == up.addr \notin AddrInSled /\ ~ CanUpdate(up)

ExpandPinnedInstructions ==
    /\ phase = "expand"
    /\ \E up \in todo :
          /\ todo' = todo \ {up}
          /\ \/ Expand(up)
             \/ /\ ForgetInSled(up)
                /\ UNCHANGED <<mem, free, aborted, five_byte_pins, marks>>
             \/ /\ StaysTwo(up)
                /\ UNCHANGED <<mem, free, aborted, five_byte_pins, marks, two_byte_pins>>
    /\ UNCHANGED <<pins, disp, patch_list, AddrInSled, sleds, phase>>

-----------------------------------------------------------------------------
(* Fix2BytePinnedInstructions.  PatchJump asserts a jump stands there; the *)
(* distance always fits, since Reach is less than 127.                     *)
CanPatch(a) == a \notin free /\ (mem[a] = "jmp32" \/ (mem[a] = "jmp8" /\ a + 1 \notin free))
Double(up)  == Released(up) \cap free # {}

FixInSled(up) ==
    /\ up.addr \in AddrInSled
    /\ free' = free \cup Released(up)
    /\ aborted' = Double(up)
    /\ two_byte_pins' = two_byte_pins \ {up}
    /\ UNCHANGED <<mem, disp, five_byte_pins>>

FixIntoSled(up) ==
    /\ up.addr \notin AddrInSled /\ up.start \in AddrInSled
    /\ free' = free \cup Released(up)
    /\ aborted' = (Double(up) \/ ~ CanPatch(up.addr))
    /\ disp' = AtPin(up.addr, up.start)
    /\ two_byte_pins' = two_byte_pins \ {up}
    /\ UNCHANGED <<mem, five_byte_pins>>

FixFive(up) ==
    /\ up.addr \notin AddrInSled /\ up.start \notin AddrInSled
    /\ up.end - up.start = 5
    /\ free' = (free \cup Released(up)) \ RangeOf(up)
    /\ mem' = Written(up.start, 5, "jmp32")
    /\ five_byte_pins' = Assigned(five_byte_pins, up.insn, up.start)
    /\ disp' = AtPin(up.addr, up.start)
    /\ aborted' = (Double(up) \/ ~ CanPatch(up.addr))
    /\ two_byte_pins' = two_byte_pins \ {up}

(* A mistake: the pin is not moved to its slot.                            *)
FixTwo_StaysPut(up) ==
    /\ up.addr \notin AddrInSled /\ up.start \notin AddrInSled
    /\ up.end - up.start # 5
    /\ free' = (free \cup Released(up)) \ RangeOf(up)
    /\ mem' = Written(up.start, 2, "jmp8")
    /\ disp' = AtPin(up.addr, up.start)
    /\ aborted' = (~ HasRange(up) \/ Double(up) \/ ~ CanPatch(up.addr)
                     \/ \E a \in RangeOf(up) : mem[a] # "none")
    /\ UNCHANGED <<two_byte_pins, five_byte_pins>>

(* The slot is a two-byte jump, and the pin from now on.  A pin without a  *)
(* range fails an assert.                                                  *)
FixTwo(up) ==
    /\ up.addr \notin AddrInSled /\ up.start \notin AddrInSled
    /\ up.end - up.start # 5
    /\ free' = (free \cup Released(up)) \ RangeOf(up)
    /\ mem' = Written(up.start, 2, "jmp8")
    /\ disp' = AtPin(up.addr, up.start)
    /\ aborted' = (~ HasRange(up) \/ Double(up) \/ ~ CanPatch(up.addr)
                     \/ \E a \in RangeOf(up) : mem[a] # "none")
    /\ two_byte_pins' = (two_byte_pins \ {up}) \cup {[up EXCEPT !.addr = up.start]}
    /\ UNCHANGED five_byte_pins

Fix2BytePinnedInstructions ==
    /\ phase = "fix"
    /\ \E up \in todo :
          /\ todo' = todo \ {up}
          /\ FixInSled(up) \/ FixIntoSled(up) \/ FixFive(up) \/ FixTwo(up)
    /\ UNCHANGED <<pins, patch_list, marks, AddrInSled, sleds, phase>>

-----------------------------------------------------------------------------
(* OptimizePinnedInstructions: the five-byte pins become patches.          *)
OptimizePinnedInstructions ==
    /\ phase = "optimize"
    /\ \E i \in todo :
          /\ todo' = todo \ {i}
          /\ IF five_byte_pins[i] \in AddrInSled
             THEN UNCHANGED <<space, patch_list, five_byte_pins>>
             ELSE LET a == five_byte_pins[i]
                  IN  /\ patch_list' = patch_list \cup {<<i, a>>}
                      /\ mem' = Written(a, 5, "jmp32")
                      /\ free' = free \ (a .. a + 4)
                      /\ five_byte_pins' = Restrict(five_byte_pins, DOMAIN five_byte_pins \ {i})
                      /\ UNCHANGED disp
    /\ UNCHANGED <<pins, two_byte_pins, marks, AddrInSled, sleds, phase, aborted>>

(* doPinning: what follows when a pass is over.                            *)
NextPhase ==
    CASE phase = "reserve"       -> "first reserve"
      [] phase = "first reserve" -> "expand"
      [] phase = "reserve again" -> "fix"
      [] phase \in {"expand", "fix"} ->
           IF two_byte_pins = {} THEN "optimize"
           ELSE IF phase = "expand" THEN "fix" ELSE "reserve again"
      [] phase = "optimize"      -> "done"

doPinning ==
    /\ todo = {} /\ phase # "done"
    /\ phase' = NextPhase
    /\ todo' = IF NextPhase = "optimize" THEN DOMAIN five_byte_pins ELSE two_byte_pins
    /\ UNCHANGED <<pins, space, two_byte_pins, five_byte_pins, patch_list, marks,
                   AddrInSled, sleds, aborted>>

Next ==
    /\ ~ aborted
    /\ \/ ReservePinnedInstructions \/ PreReserve2ByteJumpTargets
       \/ ExpandPinnedInstructions \/ Fix2BytePinnedInstructions
       \/ OptimizePinnedInstructions \/ doPinning

Spec == Init /\ [][Next]_vars

(* One thread runs doPinning to its end.                                   *)
FairSpec == Spec /\ WF_vars(Next)

-----------------------------------------------------------------------------
Insn == {Null} \cup {Original(a) : a \in PinAddr} \cup {Lea(a) : a \in PinAddr}
TwoBytePins == [insn : Insn, addr : Addr, start : 0 .. LastByte, end : 0 .. LastByte]

(* The containers hold what their declarations say.                        *)
TypeOK ==
    /\ pins \subseteq PinAddr /\ free \subseteq Addr
    /\ mem \in [Addr -> {"none", "push", "nop", "jmp8", "jmp32", "arg"}]
    /\ disp \in [Addr -> 0 .. LastByte]
    /\ two_byte_pins \subseteq TwoBytePins
    /\ \A up \in two_byte_pins : up.end - up.start \in {0, 2, 5}
    /\ \A i \in DOMAIN five_byte_pins :
          (i.op = "sled" \/ i \in Insn) /\ five_byte_pins[i] \in Addr
    /\ DOMAIN PatchAtAddrs \subseteq Addr /\ DOMAIN InsnSizeAtAddrs \subseteq Addr
    /\ AddrInSled \subseteq Addr /\ aborted \in BOOLEAN
    /\ phase \in {"reserve", "first reserve", "expand", "fix", "reserve again",
                  "optimize", "done"}

(* Memory that holds a jump, a sled or a slot PreReserve2ByteJumpTargets   *)
(* reserved is not free, so no dollop is placed over it later; neither     *)
(* giving slots back nor overrunning them with a sled breaks this, nor     *)
(* fails an assert of the pinner or of the memory space.  Two reserved     *)
(* slots share no byte Fix2BytePinnedInstructions would still write a jump *)
(* to.                                                                     *)
TakenBytes ==
    {a \in Addr : mem[a] # "none"} \cup UNION {RangeOf(up) : up \in two_byte_pins}
BytesAreBusy ==
    /\ TakenBytes \cap free = {}
    /\ \A u, v \in two_byte_pins : u # v => RangeOf(u) \cap RangeOf(v) \subseteq AddrInSled
TakenIsBusy == TypeOK /\ ~ aborted /\ BytesAreBusy

(* The loop of doPinning ends: the rounds that turn a two-byte pin into    *)
(* another two-byte pin further on run out of pins.                        *)
PinningEnds == <>(phase = "done")
=============================================================================
