--------------------------- MODULE PinnerX86Proofs ---------------------------
(***************************************************************************)
(* No byte the pinner has written or reserved is free, for any program,    *)
(* any layout of its text and any order of the pin sets, as long as no     *)
(* assert has failed.                                                      *)
(*                                                                         *)
(* The slot of a pin is reserved before anything is written there, and is  *)
(* given back by a call that looks only at the range and at the bytes of   *)
(* sleds.  So the invariant says, pass by pass, what the range of a pin    *)
(* is: its own jump, a slot nothing is written to but by sleds, or none.   *)
(* A sled is written over whatever stands there; it does not cut a slot,   *)
(* since a slot begins at a mark and is no longer than what lies between   *)
(* the last mark of a sled and the jump behind its nops.                   *)
(***************************************************************************)
EXTENDS PinnerX86, FiniteSetTheorems, WellFoundedInduction, TLAPS

Cells == {"none", "push", "nop", "jmp8", "jmp32", "arg"}

(* The bytes: text is what was free, and what is written stays written.    *)
SpaceInv ==
    /\ pins # {} /\ pins \subseteq PinAddr
    /\ free \subseteq Text
    /\ mem \in [Addr -> Cells]
    /\ \A b \in Addr : mem[b] # "none" => b \notin free
    /\ AddrInSled \subseteq {b \in Addr : mem[b] # "none"}
    /\ disp \in [Addr -> 0 .. LastByte]

(* The marks: where instructions are pinned, and where slots begin.        *)
MarksInv ==
    /\ DOMAIN InsnSizeAtAddrs \subseteq Text
    /\ DOMAIN PatchAtAddrs \subseteq Text
    /\ \A a \in DOMAIN PatchAtAddrs : PatchAtAddrs[a].insn \in Insn \ {Null}
    /\ \A a \in pins : FindPinnedInsnAtAddr(a) # Null
    /\ phase = "reserve" => todo \subseteq pins /\ DOMAIN InsnSizeAtAddrs \subseteq pins

(* What the range of a pin is.                                             *)
AtHome(up) == \/ up.start = up.addr /\ up.end = up.addr + 2
              \/ up.start = 0 /\ up.end = 0
InSled(up) == {up.addr, up.addr + 1} \subseteq AddrInSled
Slot(up) ==
    /\ up.start \in DOMAIN PatchAtAddrs /\ up.end - up.start \in {2, 5}
    /\ \A b \in RangeOf(up) : b \in Text /\ (b \in AddrInSled \/ mem[b] = "none")
    /\ up.start + 1 \in AddrInSled => up.start \in AddrInSled
Moved(up) == Slot(up) \/ (AtHome(up) /\ InSled(up))

(* No sled ends close before the jump of a pin: the jump stands at a mark, *)
(* or is the one behind the push of two adjacent pins.                     *)
Shielded(up) ==
    \/ up.addr \in pins \cup DOMAIN PatchAtAddrs
    \/ up.insn.op = "lea" /\ up.addr = up.insn.at + 5 /\ up.insn.at + 1 \in pins

PinInv(up) ==
    /\ up \in TwoBytePins /\ up.insn # Null
    /\ up.addr \in Text /\ up.addr + 1 \in Addr
    /\ mem[up.addr] # "none" /\ mem[up.addr + 1] # "none"
    /\ up.addr \in AddrInSled \/ mem[up.addr] = "jmp8"
    /\ Shielded(up)
    /\ phase = "reserve" => AtHome(up)
    /\ phase \in {"first reserve", "reserve again"} =>
          IF up \in todo THEN AtHome(up) ELSE Moved(up)
    /\ phase = "expand" => Moved(up)
    /\ phase = "fix" => IF up \in todo THEN Moved(up)
                        ELSE up.start = up.addr /\ up.end = up.addr + 2

PinsInv ==
    /\ \A up \in two_byte_pins : PinInv(up)
    /\ \A u, v \in two_byte_pins :
          u # v => {u.addr, u.addr + 1} \cap {v.addr, v.addr + 1} = {}
    /\ phase \in {"first reserve", "reserve again", "expand", "fix"} => todo \subseteq two_byte_pins
    /\ phase \in {"optimize", "done"} => two_byte_pins = {}

(* The sleds are told apart by where they start.                           *)
SledInv(old) ==
    /\ old.start \in Addr /\ old.end \in Int /\ old.start <= old.end
    /\ {old.start, old.start + 1} \subseteq AddrInSled
    /\ old.insn \in DOMAIN five_byte_pins
    /\ old.insn.op = "sled" /\ old.insn.start = old.start

SledsInv ==
    /\ phase \notin {"optimize", "done"} =>
          /\ \A old \in sleds : SledInv(old)
          /\ \A old, o \in sleds : old.start = o.start => old = o
    /\ phase = "optimize" => todo \subseteq DOMAIN five_byte_pins
    /\ \A i \in DOMAIN five_byte_pins :
          (i.op = "sled" \/ i \in Insn) /\ five_byte_pins[i] \in Addr

IInv ==
    /\ phase \in {"reserve", "first reserve", "expand", "fix", "reserve again",
                  "optimize", "done"}
    /\ aborted = FALSE
    /\ SpaceInv /\ MarksInv /\ PinsInv /\ SledsInv /\ BytesAreBusy

-----------------------------------------------------------------------------
(* Numbers.                                                                *)
LEMMA Least ==
    ASSUME NEW T \in SUBSET Nat, T # {}
    PROVE  \E m \in T : \A k \in T : m <= k
<1>1. PICK m \in T : \A k \in T : ~ (<<k, m>> \in OpToRel(<, Nat))
  BY NatLessThanWellFounded, WFMin
<1>2. ASSUME NEW k \in T, k < m PROVE FALSE
  <2>1. <<k, m>> \in OpToRel(<, Nat)
    BY <1>2 DEF OpToRel
  <2> QED BY <1>1, <2>1
<1> QED BY <1>2

LEMMA MinIs ==
    ASSUME NEW S \in SUBSET Nat, S # {}
    PROVE  Min(S) \in S /\ \A x \in S : Min(S) <= x
<1>1. \E m \in S : \A k \in S : m <= k
  BY Least
<1> QED BY <1>1 DEF Min

LEMMA MaxIs ==
    ASSUME NEW S \in SUBSET Int, S # {}, NEW n \in Int, \A x \in S : x <= n
    PROVE  Max(S) \in S /\ \A x \in S : x <= Max(S)
<1> DEFINE T == {n - x : x \in S}
<1>1. T \in SUBSET Nat /\ T # {}
  <2>1. \A x \in S : n - x \in Nat
    OBVIOUS
  <2> QED BY <2>1
<1>2. PICK m \in T : \A k \in T : m <= k
  BY <1>1, Least
<1>3. PICK x \in S : m = n - x
  OBVIOUS
<1>4. ASSUME NEW y \in S PROVE x >= y
  <2>1. n - x <= n - y
    BY <1>2, <1>3
  <2> QED BY <2>1
<1> HIDE DEF T
<1>5. \E z \in S : \A y \in S : z >= y
  BY <1>4
<1> QED BY <1>5 DEF Max

(* A finite set of numbers has an upper bound: take one of the largest     *)
(* parts of it that has none away from a least counterexample.             *)
LEMMA FiniteIsBounded ==
    ASSUME NEW S \in SUBSET Nat, IsFiniteSet(S)
    PROVE  \E n \in Nat : \A x \in S : x <= n
<1> DEFINE Unbounded(T) == \A n \in Nat : \E x \in T : x > n
           C == {Cardinality(T) : T \in {U \in SUBSET S : Unbounded(U)}}
<1>1. SUFFICES ASSUME Unbounded(S) PROVE FALSE
  OBVIOUS
<1>2. C \in SUBSET Nat /\ C # {}
  <2>1. \A T \in SUBSET S : Cardinality(T) \in Nat
    BY FS_Subset, FS_CardinalityType
  <2> QED BY <2>1, <1>1
<1>3. PICK c \in C : \A k \in C : c <= k
  BY <1>2, Least
<1>4. PICK T \in SUBSET S : Unbounded(T) /\ c = Cardinality(T)
  OBVIOUS
<1>5. PICK x \in T : x > 0
  BY <1>4
<1>6. IsFiniteSet(T) /\ Cardinality(T) \in Nat
  BY FS_Subset, FS_CardinalityType
<1>7. Cardinality(T \ {x}) = c - 1
  BY <1>4, <1>6, FS_RemoveElement
<1>8. Unbounded(T \ {x})
  <2> SUFFICES ASSUME NEW n \in Nat PROVE \E y \in T \ {x} : y > n
    OBVIOUS
  <2>1. PICK y \in T : y > n + x
    BY <1>4
  <2>2. y # x /\ y > n
    BY <2>1
  <2> QED BY <2>2
<1>9. c - 1 \in C
  BY <1>7, <1>8
<1> HIDE DEF C
<1>10. c \in Nat /\ c <= c - 1
  BY <1>2, <1>3, <1>9
<1> QED BY <1>10

(* A sled may be written past the text, but not past LastByte.             *)
LEMMA TextIs ==
    ASSUME Text # {}
    PROVE  /\ LastByte \in Nat
           /\ \A a \in Text : a \in Nat /\ a >= 1 /\ a + 14 <= LastByte /\ a \in Addr
<1>1. Text \in SUBSET Nat /\ IsFiniteSet(Text) /\ \A a \in Text : a >= 1
  BY TextAssumption
<1>2. PICK n \in Nat : \A a \in Text : a <= n
  BY <1>1, FiniteIsBounded
<1> PICK m : m = Max(Text)
  OBVIOUS
<1>3. m \in Text /\ \A a \in Text : a <= m
  <2>1. Text \in SUBSET Int /\ n \in Int
    BY <1>1
  <2> QED BY <2>1, <1>2, MaxIs
<1>4. m \in Nat /\ LastByte = m + 14
  <2>1. m \in Nat
    BY <1>1, <1>3
  <2> QED BY <2>1 DEF LastByte, sled_overhead, nop_overhead, jmp_overhead
<1>5. \A a \in Text : a \in Nat /\ a >= 1 /\ a + 14 <= LastByte
  BY <1>1, <1>3, <1>4
<1>6. LastByte \in Nat
  BY <1>1, <1>3, <1>4
<1> QED BY <1>5, <1>6 DEF Addr

JumpSize == {2, 5}
JumpOp   == {"jmp8", "jmp32"}
Writes(W, a, size, op) ==
    /\ W \in [Addr -> Cells]
    /\ \A b \in Addr : IF a <= b /\ b < a + size THEN W[b] # "none" ELSE W[b] = mem[b]
    /\ a \in Addr => W[a] = op

(* What a write does, wherever it is.                                      *)
LEMMA WrittenIs ==
    ASSUME SpaceInv, NEW a, NEW size \in JumpSize, a \in Int, NEW op \in JumpOp
    PROVE  Writes(Written(a, size, op), a, size, op)
<1>1. \A b \in Addr : b \in Int
  BY TextIs, TextAssumption DEF Addr, SpaceInv
<1> DEFINE W == [b \in Addr |-> IF b = a THEN op ELSE IF b \in a + 1 .. a + size - 1 THEN "arg"
                                ELSE mem[b]]
<1>2. Written(a, size, op) = W
  BY DEF Written
<1>3. W \in [Addr -> Cells]
  BY DEF SpaceInv, Cells, JumpOp
<1>4. ASSUME NEW b \in Addr
      PROVE  IF a <= b /\ b < a + size THEN W[b] # "none" ELSE W[b] = mem[b]
  <2>1. b = a \/ b \in a + 1 .. a + size - 1 <=> a <= b /\ b < a + size
    BY <1>1 DEF JumpSize
  <2> QED BY <2>1 DEF JumpOp
<1> QED BY <1>2, <1>3, <1>4 DEF Writes

-----------------------------------------------------------------------------
(* Sleds.                                                                  *)

(* Where a sled ends: behind a mark, and before nothing marked where its   *)
(* nops and its jump go.                                                   *)
LEMMA SledEndIs ==
    ASSUME MarksInv, NEW s \in Text, NEW P, DOMAIN P \subseteq Text, Target(s, P) # Null
    PROVE  /\ SledEnd(s, P) \in Nat /\ SledEnd(s, P) > s
           /\ SledEnd(s, P) + 13 <= LastByte
           /\ \A a \in SledEnd(s, P) .. SledEnd(s, P) + 8 : Target(a, P) = Null
<1>1. LastByte \in Nat /\ \A a \in Text : a \in Nat /\ a >= 1 /\ a + 14 <= LastByte /\ a \in Addr
  BY TextIs
<1>2. \A a \in Addr : Target(a, P) # Null => a \in Text
  BY DEF MarksInv, Target, FindPinnedInsnAtAddr
<1> DEFINE M == Marks(P)
           L == {a \in M : a >= s /\ (a + 1 .. a + sled_overhead) \cap M = {}}
           E == {m + 1 : m \in L}
<1>3. M \subseteq Text /\ s \in M /\ M \in SUBSET Nat /\ \A a \in Addr : Target(a, P) # Null => a \in M
  BY <1>1, <1>2 DEF Marks
<1>4. SledEnd(s, P) = Min(E)
  BY DEF SledEnd
<1>5. sled_overhead = 9
  BY DEF sled_overhead, nop_overhead, jmp_overhead
<1> HIDE DEF M
<1>6. PICK m : m \in M /\ \A a \in M : a <= m
  <2>1. M \in SUBSET Int /\ M # {} /\ LastByte \in Int /\ \A a \in M : a <= LastByte
    BY <1>1, <1>3
  <2> QED BY <2>1, MaxIs
<1>7. m \in L
  <2>1. m >= s /\ m \in Nat
    BY <1>3, <1>6
  <2>2. \A a \in M : a \notin m + 1 .. m + sled_overhead
    BY <1>3, <1>6, <2>1
  <2> QED BY <1>6, <2>1, <2>2
<1>8. E \in SUBSET Nat /\ E # {}
  BY <1>3, <1>7
<1>9. Min(E) \in E
  BY <1>8, MinIs
<1>10. PICK k \in L : Min(E) = k + 1
  BY <1>9
<1>11. k \in Nat /\ k >= s /\ k \in Text /\ (k + 1 .. k + 9) \cap M = {}
  BY <1>3, <1>5, <1>10
<1>12. PICK e : e = k + 1
  OBVIOUS
<1>13. e \in Nat /\ e > s /\ e + 13 <= LastByte /\ (e .. e + 8) \cap M = {}
  BY <1>1, <1>11, <1>12
<1>14. \A a \in e .. e + 8 : Target(a, P) = Null
  <2> SUFFICES ASSUME NEW a \in e .. e + 8 PROVE Target(a, P) = Null
    OBVIOUS
  <2>1. a \in Addr /\ a \notin M
    BY <1>1, <1>13 DEF Addr
  <2> QED BY <2>1, <1>3
<1> QED BY <1>4, <1>10, <1>12, <1>13, <1>14

(* The first of the sleds a new one runs into.                             *)
LEMMA FirstOverlappedIs ==
    ASSUME NEW s, NEW e, Overlapped(s, e) # {}, \A old \in sleds : old.start \in Nat
    PROVE  /\ FirstOverlapped(s, e) \in Overlapped(s, e)
           /\ \A o \in Overlapped(s, e) : FirstOverlapped(s, e).start <= o.start
<1> DEFINE T == {o.start : o \in Overlapped(s, e)}
<1>1. T \in SUBSET Nat /\ T # {}
  BY DEF Overlapped
<1>2. PICK m \in T : \A k \in T : m <= k
  BY <1>1, Least
<1>3. PICK old \in Overlapped(s, e) : old.start = m
  OBVIOUS
<1>4. \A o \in Overlapped(s, e) : old.start <= o.start
  BY <1>2, <1>3
<1> QED BY <1>3, <1>4 DEF FirstOverlapped

(* What laying a sled does to the bytes.  A byte that is not in the sled   *)
(* and changed is in the jump behind it, far from the next mark.           *)
SledBytes(s, P) ==
    /\ free' \subseteq free /\ mem' \in [Addr -> Cells]
    /\ \A b \in Addr : mem[b] # "none" => mem'[b] # "none"
    /\ \A b \in Addr : mem'[b] # "none" => b \notin free'
    /\ AddrInSled \subseteq AddrInSled'
    /\ AddrInSled' \subseteq {b \in Addr : mem'[b] # "none"}
    /\ {s, s + 1} \subseteq AddrInSled'
    /\ \A b \in AddrInSled' : b \in AddrInSled \/ b = s \/ b - 1 \in AddrInSled'
    /\ \A b \in Addr : \/ b \in AddrInSled' \/ mem'[b] = mem[b]
                       \/ \E e \in Nat : /\ b \in e + 4 .. e + 8
                                         /\ \A a \in e .. e + 8 : Target(a, P) = Null

FiveIs(D) == \A i \in DOMAIN D : (i.op = "sled" \/ i \in Insn) /\ D[i] \in Addr

LEMMA NewSledIs ==
    ASSUME SpaceInv, FiveIs(five_byte_pins),
           \A old \in sleds : SledInv(old), \A o, q \in sleds : o.start = q.start => o = q,
           NEW s \in Text, NEW P, NEW e \in Nat, e > s, e + 13 <= LastByte,
           \A a \in e .. e + 8 : Target(a, P) = Null,
           Overlapped(s, e) = {}, NewSled(s, e, P), aborted' = FALSE
    PROVE  /\ SledBytes(s, P) /\ FiveIs(five_byte_pins')
           /\ \A old \in sleds' : SledInv(old)'
           /\ \A o, q \in sleds' : o.start = q.start => o = q
<1>1. LastByte \in Nat /\ s \in Nat /\ s >= 1 /\ Addr = 1 .. LastByte
  BY TextIs DEF Addr
<1> DEFINE d == Emit68Sled(s, e, JumpPoints(s, e, P), P)
           r == [start |-> s, end |-> e, points |-> DOMAIN d.target, insn |-> d]
<1>2. /\ free' = free \ (s .. e + 8)
      /\ mem' = [b \in Addr |-> IF b \in s .. e - 1 THEN "push"
                                ELSE IF b \in e .. e + 3 THEN "nop"
                                ELSE IF b = e + 4 THEN "jmp32"
                                ELSE IF b \in e + 5 .. e + 8 THEN "arg"
                                ELSE mem[b]]
      /\ AddrInSled' = AddrInSled \cup (s .. e + 3)
      /\ five_byte_pins' = Assigned(five_byte_pins, d, e + 4)
      /\ sleds' = sleds \cup {r}
  <2>1. PICK pc : pc = e + nop_overhead
    OBVIOUS
  <2>2. pc = e + 4 /\ pc - 1 = e + 3 /\ pc + 1 = e + 5 /\ pc + jmp_overhead - 1 = e + 8
    BY <2>1 DEF nop_overhead, jmp_overhead
  <2> HIDE DEF d
  <2>3. /\ free' = free \ (s .. pc + jmp_overhead - 1)
        /\ mem' = [b \in Addr |-> IF b \in s .. e - 1 THEN "push"
                                  ELSE IF b \in e .. pc - 1 THEN "nop"
                                  ELSE IF b = pc THEN "jmp32"
                                  ELSE IF b \in pc + 1 .. pc + jmp_overhead - 1 THEN "arg"
                                  ELSE mem[b]]
        /\ AddrInSled' = AddrInSled \cup (s .. pc - 1)
        /\ five_byte_pins' = Assigned(five_byte_pins, d, pc)
        /\ sleds' = sleds \cup {r}
    BY <2>1, Zenon DEF NewSled, d
  <2> QED BY <2>2, <2>3
<1>3. e - s > 2
  <2>1. aborted' = (e - s <= 2)
    BY DEF NewSled
  <2>2. ~ (e - s <= 2)
    BY <2>1
  <2> QED BY <2>2, <1>1
<1> HIDE DEF d
<1>4. SledBytes(s, P)
  <2>1. \A b \in Addr : mem'[b] = IF b \in s .. e - 1 THEN "push"
                                  ELSE IF b \in e .. e + 3 THEN "nop"
                                  ELSE IF b = e + 4 THEN "jmp32"
                                  ELSE IF b \in e + 5 .. e + 8 THEN "arg"
                                  ELSE mem[b]
    BY <1>2
  <2>2. free' \subseteq free /\ mem' \in [Addr -> Cells]
    BY <1>2 DEF SpaceInv, Cells
  <2>3. \A b \in Addr : mem[b] # "none" => mem'[b] # "none"
    BY <2>1
  <2>4. \A b \in Addr : mem'[b] # "none" => b \notin free'
    <3> SUFFICES ASSUME NEW b \in Addr, mem'[b] # "none", b \in free' PROVE FALSE
      OBVIOUS
    <3>1. b \notin s .. e + 8 /\ b \in free /\ b \in Int
      BY <1>1, <1>2
    <3>2. mem'[b] = mem[b]
      BY <1>1, <2>1, <3>1
    <3> QED BY <3>1, <3>2 DEF SpaceInv
  <2>5. AddrInSled \subseteq AddrInSled' /\ {s, s + 1} \subseteq AddrInSled'
    BY <1>1, <1>2, <1>3
  <2>6. AddrInSled' \subseteq {b \in Addr : mem'[b] # "none"}
    <3> SUFFICES ASSUME NEW b \in AddrInSled' PROVE b \in Addr /\ mem'[b] # "none"
      OBVIOUS
    <3>1. CASE b \in AddrInSled
      BY <3>1, <2>3 DEF SpaceInv
    <3>2. CASE b \in s .. e + 3
      <4>1. b \in Addr /\ (b \in s .. e - 1 \/ b \in e .. e + 3)
        BY <3>2, <1>1
      <4> QED BY <4>1, <2>1
    <3> QED BY <3>1, <3>2, <1>2
  <2>7. \A b \in AddrInSled' : b \in AddrInSled \/ b = s \/ b - 1 \in AddrInSled'
    BY <1>1, <1>2
  <2>8. \A b \in Addr : \/ b \in AddrInSled' \/ mem'[b] = mem[b]
                        \/ b \in e + 4 .. e + 8
    <3> SUFFICES ASSUME NEW b \in Addr, b \notin AddrInSled', mem'[b] # mem[b]
                 PROVE  b \in e + 4 .. e + 8
      OBVIOUS
    <3>1. b \in Int /\ b \notin s .. e + 3
      BY <1>1, <1>2
    <3>2. b \notin s .. e - 1 /\ b \notin e .. e + 3
      BY <3>1, <1>1
    <3> QED BY <3>1, <3>2, <2>1
  <2> QED BY <2>2, <2>3, <2>4, <2>5, <2>6, <2>7, <2>8 DEF SledBytes
<1>5. d.op = "sled" /\ d.start = s
  BY DEF d, Emit68Sled
<1>6. /\ DOMAIN five_byte_pins' = DOMAIN five_byte_pins \cup {d}
      /\ \A i \in DOMAIN five_byte_pins' : five_byte_pins'[i] = IF i = d THEN e + 4 ELSE five_byte_pins[i]
  BY <1>2 DEF Assigned
<1>7. FiveIs(five_byte_pins')
  <2>1. e + 4 \in Addr
    BY <1>1
  <2> QED BY <1>5, <1>6, <2>1 DEF FiveIs
<1>8. r.start = s /\ r.end = e /\ r.insn = d
  OBVIOUS
<1> HIDE DEF r
<1>9. \A old \in sleds' : SledInv(old)'
  <2> SUFFICES ASSUME NEW old \in sleds' PROVE SledInv(old)'
    OBVIOUS
  <2>1. CASE old \in sleds
    BY <2>1, <1>2, <1>6 DEF SledInv
  <2>2. CASE old = r
    <3>1. s \in Addr /\ s <= e
      BY <1>1
    <3> QED BY <2>2, <3>1, <1>4, <1>5, <1>6, <1>8 DEF SledInv, SledBytes
  <2> QED BY <2>1, <2>2, <1>2
<1>10. \A o \in sleds : o.start # s
  <2> SUFFICES ASSUME NEW o \in sleds, o.start = s PROVE FALSE
    OBVIOUS
  <2>1. s <= o.end /\ e >= o.start
    BY <1>1 DEF SledInv
  <2> QED BY <2>1 DEF Overlapped
<1>11. \A o, q \in sleds' : o.start = q.start => o = q
  BY <1>2, <1>8, <1>10
<1> QED BY <1>4, <1>7, <1>9, <1>11

LEMMA UpdateSledIs ==
    ASSUME SpaceInv, FiveIs(five_byte_pins),
           \A old \in sleds : SledInv(old), \A o, q \in sleds : o.start = q.start => o = q,
           NEW s \in Text, NEW P, NEW e \in Nat, NEW old \in sleds,
           old \in Overlapped(s, e), \A o \in Overlapped(s, e) : old.start <= o.start,
           Update68Sled(s, e, old, P), aborted' = FALSE
    PROVE  /\ SledBytes(s, P) /\ FiveIs(five_byte_pins')
           /\ \A o \in sleds' : SledInv(o)'
           /\ \A o, q \in sleds' : o.start = q.start => o = q
<1>1. LastByte \in Nat /\ s \in Nat /\ s >= 1 /\ Addr = 1 .. LastByte
      /\ s \in Addr
  BY TextIs DEF Addr
<1>2. SledInv(old) /\ old.start \in Nat /\ old.start <= LastByte
  BY <1>1 DEF SledInv
<1> DEFINE points == old.points \cup JumpPoints(s, e, P)
           end == Max({e, old.end})
           d == Emit68Sled(s, end, points, P)
           r == [start |-> s, end |-> end, points |-> points, insn |-> d]
<1>3. /\ free' = free \ (s .. old.start - 1)
      /\ mem' = [b \in Addr |-> IF b \in s .. old.start - 1 THEN "push" ELSE mem[b]]
      /\ AddrInSled' = AddrInSled \cup (s .. old.start - 1)
      /\ sleds' = (sleds \ {old}) \cup {r}
      /\ five_byte_pins' =
             [i \in (DOMAIN five_byte_pins \ {old.insn}) \cup {d} |->
                 five_byte_pins[IF i = d THEN old.insn ELSE i]]
      /\ aborted' = (e - s <= 2 \/ s > old.start)
  BY DEF Update68Sled
<1>4. s <= old.start
  <2>1. ~ (s > old.start)
    BY <1>3
  <2> QED BY <2>1, <1>1, <1>2
<1>5. end \in Int /\ end >= e /\ end >= old.end
  <2>1. {e, old.end} \in SUBSET Int /\ {e, old.end} # {}
    BY <1>2 DEF SledInv
  <2>2. PICK n \in Int : \A x \in {e, old.end} : x <= n
    <3>1. CASE e <= old.end
      BY <3>1, <1>2 DEF SledInv
    <3>2. CASE ~ (e <= old.end)
      BY <3>2, <1>2 DEF SledInv
    <3> QED BY <3>1, <3>2
  <2> QED BY <2>1, <2>2, MaxIs
<1> HIDE DEF end
<1>6. d.op = "sled" /\ d.start = s
  BY DEF Emit68Sled
<1> HIDE DEF d
<1>7. r.start = s /\ r.end = end /\ r.insn = d
  OBVIOUS
<1> HIDE DEF r
<1>8. SledBytes(s, P)
  <2>1. \A b \in Addr : mem'[b] = IF b \in s .. old.start - 1 THEN "push" ELSE mem[b]
    BY <1>3
  <2>2. free' \subseteq free /\ mem' \in [Addr -> Cells]
    BY <1>3 DEF SpaceInv, Cells
  <2>3. \A b \in Addr : mem[b] # "none" => mem'[b] # "none"
    BY <2>1
  <2>4. \A b \in Addr : mem'[b] # "none" => b \notin free'
    BY <2>1, <1>3 DEF SpaceInv
  <2>5. AddrInSled \subseteq AddrInSled' /\ {s, s + 1} \subseteq AddrInSled'
    <3>1. {old.start, old.start + 1} \subseteq AddrInSled
      BY <1>2 DEF SledInv
    <3>2. CASE s = old.start
      BY <3>1, <3>2, <1>3
    <3>3. CASE s + 1 = old.start
      BY <3>1, <3>3, <1>1, <1>3
    <3>4. CASE s # old.start /\ s + 1 # old.start
      <4>1. s + 1 <= old.start - 1
        BY <3>4, <1>1, <1>2, <1>4
      <4> QED BY <4>1, <1>1, <1>2, <1>3
    <3> QED BY <3>2, <3>3, <3>4, <1>3
  <2>6. AddrInSled' \subseteq {b \in Addr : mem'[b] # "none"}
    <3> SUFFICES ASSUME NEW b \in AddrInSled' PROVE b \in Addr /\ mem'[b] # "none"
      OBVIOUS
    <3>1. CASE b \in AddrInSled
      BY <3>1, <2>3 DEF SpaceInv
    <3>2. CASE b \in s .. old.start - 1
      <4>1. b \in Addr
        BY <3>2, <1>1, <1>2
      <4> QED BY <4>1, <3>2, <2>1
    <3> QED BY <3>1, <3>2, <1>3
  <2>7. \A b \in AddrInSled' : b \in AddrInSled \/ b = s \/ b - 1 \in AddrInSled'
    BY <1>1, <1>2, <1>3
  <2>8. \A b \in Addr : b \in AddrInSled' \/ mem'[b] = mem[b]
    BY <2>1, <1>3
  <2> QED BY <2>2, <2>3, <2>4, <2>5, <2>6, <2>7, <2>8 DEF SledBytes
<1>9. old.insn \in DOMAIN five_byte_pins /\ old.insn.start = old.start
  BY <1>2 DEF SledInv
<1>10. FiveIs(five_byte_pins')
  BY <1>3, <1>6, <1>9 DEF FiveIs
<1>11. \A o \in sleds \ {old} : o.start # old.start /\ o.insn \in DOMAIN five_byte_pins'
  <2> SUFFICES ASSUME NEW o \in sleds \ {old}
               PROVE  o.start # old.start /\ o.insn \in DOMAIN five_byte_pins'
    OBVIOUS
  <2>1. o.start # old.start
    OBVIOUS
  <2>2. o.insn # old.insn
    BY <2>1, <1>9 DEF SledInv
  <2> QED BY <2>1, <2>2, <1>3 DEF SledInv
<1>12. \A o \in sleds' : SledInv(o)'
  <2> SUFFICES ASSUME NEW o \in sleds' PROVE SledInv(o)'
    OBVIOUS
  <2>1. CASE o \in sleds \ {old}
    BY <2>1, <1>3, <1>11 DEF SledInv
  <2>2. CASE o = r
    <3>1. s <= end
      BY <1>1, <1>2, <1>4, <1>5 DEF SledInv
    <3>2. d \in DOMAIN five_byte_pins'
      BY <1>3
    <3> QED BY <2>2, <3>1, <3>2, <1>1, <1>5, <1>6, <1>7, <1>8 DEF SledInv, SledBytes
  <2> QED BY <2>1, <2>2, <1>3
<1>13. \A o \in sleds \ {old} : o.start # s
  <2> SUFFICES ASSUME NEW o \in sleds \ {old}, o.start = s PROVE FALSE
    OBVIOUS
  <2>1. o \in Overlapped(s, e)
    <3>1. s <= o.end
      BY DEF SledInv
    <3>2. e >= o.start
      BY <1>1, <1>2, <1>4 DEF Overlapped
    <3> QED BY <3>1, <3>2 DEF Overlapped
  <2>2. old.start = s
    BY <2>1, <1>1, <1>2, <1>4
  <2> QED BY <2>2, <1>11
<1>14. \A o, q \in sleds' : o.start = q.start => o = q
  BY <1>3, <1>7, <1>13
<1> QED BY <1>8, <1>10, <1>12, <1>14

(* Do68Sled keeps what is known of the bytes and of the sleds.             *)
LEMMA DoSledIs ==
    ASSUME SpaceInv, MarksInv, SledsInv, phase \notin {"optimize", "done"},
           NEW s \in Text, NEW P, DOMAIN P \subseteq Text, Target(s, P) # Null,
           Do68Sled(s, P), aborted' = FALSE
    PROVE  /\ SledBytes(s, P) /\ FiveIs(five_byte_pins')
           /\ \A old \in sleds' : SledInv(old)'
           /\ \A o, q \in sleds' : o.start = q.start => o = q
<1>1. PICK e : e = SledEnd(s, P)
  OBVIOUS
<1>2. e \in Nat /\ e > s /\ e + 13 <= LastByte /\ \A a \in e .. e + 8 : Target(a, P) = Null
  BY <1>1, SledEndIs
<1>3. /\ FiveIs(five_byte_pins) /\ \A old \in sleds : SledInv(old)
      /\ \A o, q \in sleds : o.start = q.start => o = q
  BY DEF SledsInv, FiveIs
<1>4. IF Overlapped(s, e) = {} THEN NewSled(s, e, P)
      ELSE Update68Sled(s, e, FirstOverlapped(s, e), P)
  BY <1>1 DEF Do68Sled
<1>5. CASE Overlapped(s, e) = {}
  BY <1>2, <1>3, <1>4, <1>5, NewSledIs
<1>6. CASE Overlapped(s, e) # {}
  <2>1. \A old \in sleds : old.start \in Nat
    BY <1>3, TextIs DEF SledInv, Addr
  <2>2. PICK old : old = FirstOverlapped(s, e)
    OBVIOUS
  <2>3. old \in Overlapped(s, e) /\ \A o \in Overlapped(s, e) : old.start <= o.start
    BY <2>1, <2>2, <1>6, FirstOverlappedIs
  <2>4. old \in sleds
    BY <2>3 DEF Overlapped
  <2> QED BY <1>2, <1>3, <1>4, <1>6, <2>2, <2>3, <2>4, UpdateSledIs
<1> QED BY <1>5, <1>6

(* A sled leaves the ranges and the jumps of the pins as they are, but     *)
(* for the bytes it takes into itself.                                     *)
LEMMA SledLeavesPins ==
    ASSUME IInv, NEW s \in Text, NEW P, SledBytes(s, P),
           DOMAIN PatchAtAddrs \subseteq DOMAIN P,
           \A a \in DOMAIN PatchAtAddrs : P[a].insn = PatchAtAddrs[a].insn,
           (s \notin AddrInSled /\ mem[s] # "none") \/ phase = "reserve",
           DOMAIN PatchAtAddrs \subseteq DOMAIN PatchAtAddrs', UNCHANGED pins,
           NEW up \in two_byte_pins
    PROVE  /\ mem'[up.addr] # "none" /\ mem'[up.addr + 1] # "none"
           /\ (up.addr \in AddrInSled \/ mem[up.addr] = "jmp8")'
           /\ Shielded(up)'
           /\ AtHome(up) => AtHome(up)'
           /\ InSled(up) => InSled(up)'
           /\ Slot(up) /\ phase # "reserve" => Slot(up)'
<1>1. PinInv(up) /\ up.addr \in Addr /\ up.addr \in Int
      /\ LastByte \in Nat /\ Addr = 1 .. LastByte
  <2>1. PinInv(up)
    BY DEF IInv, PinsInv
  <2>2. up.addr \in Text
    BY <2>1 DEF PinInv
  <2> QED BY <2>1, <2>2, TextIs DEF Addr
<1>2. \A a \in pins \cup DOMAIN PatchAtAddrs : Target(a, P) # Null
  BY DEF IInv, MarksInv, Target
<1>3. mem'[up.addr] # "none" /\ mem'[up.addr + 1] # "none"
  BY <1>1 DEF PinInv, SledBytes
<1>4. (up.addr \in AddrInSled \/ mem[up.addr] = "jmp8")'
  <2> SUFFICES ASSUME up.addr \notin AddrInSled', mem'[up.addr] # "jmp8" PROVE FALSE
    OBVIOUS
  <2>1. mem'[up.addr] # mem[up.addr]
    BY <1>1 DEF PinInv, SledBytes
  <2>2. PICK e \in Nat : up.addr \in e + 4 .. e + 8 /\ \A a \in e .. e + 8 : Target(a, P) = Null
    BY <2>1, <1>1 DEF SledBytes
  <2>3. up.addr \in e .. e + 8
    BY <2>2
  <2>4. CASE up.addr \in pins \cup DOMAIN PatchAtAddrs
    BY <2>2, <2>3, <2>4, <1>2
  <2>5. CASE up.insn.op = "lea" /\ up.addr = up.insn.at + 5 /\ up.insn.at + 1 \in pins
    <3>1. up.insn.at \in Int
      <4>1. up.insn.at + 1 \in Text
        BY <2>5, TextAssumption DEF IInv, SpaceInv
      <4>2. up.insn \in Insn
        BY <1>1 DEF PinInv, TwoBytePins
      <4>3. up.insn.at \in PinAddr
        BY <2>5, <4>2 DEF Insn, Null, Original, Lea
      <4>4. PICK x : x = up.insn.at
        OBVIOUS
      <4>5. x \in Text
        BY <4>3, <4>4, TextAssumption
      <4>6. x \in Nat
        BY <4>5, TextIs
      <4> QED BY <4>4, <4>6
    <3>2. up.insn.at + 1 \in e .. e + 8
      BY <3>1, <2>2, <2>5
    <3> QED BY <3>2, <2>2, <2>5, <1>2
  <2> QED BY <2>4, <2>5, <1>1 DEF PinInv, Shielded
<1>5. Shielded(up)'
  BY <1>1 DEF PinInv, Shielded
<1>6. AtHome(up) => AtHome(up)'
  BY DEF AtHome
<1>7. InSled(up) => InSled(up)'
  BY DEF InSled, SledBytes
<1>8. ASSUME Slot(up), phase # "reserve" PROVE Slot(up)'
  <2>1. up.start \in Nat /\ up.end \in Nat /\ up.start \in RangeOf(up)
        /\ \A b \in RangeOf(up) : b \in Int /\ up.start <= b /\ b <= up.start + 4
    <3>1. up.start \in 0 .. LastByte /\ up.end \in 0 .. LastByte
      BY <1>1 DEF PinInv, TwoBytePins
    <3>2. up.start \in Nat /\ up.end \in Nat
      BY <3>1, <1>1
    <3>3. up.end - up.start \in {2, 5}
      BY <1>8 DEF Slot
    <3>4. up.end = up.start + 2 \/ up.end = up.start + 5
      BY <3>2, <3>3
    <3> QED BY <3>2, <3>4 DEF RangeOf
  <2>2. ASSUME NEW b \in RangeOf(up) PROVE b \in AddrInSled' \/ mem'[b] = "none"
    <3>1. b \in Addr /\ (b \in AddrInSled \/ mem[b] = "none")
      BY <1>8, TextIs DEF Slot
    <3>2. CASE b \in AddrInSled' \/ mem'[b] = mem[b]
      BY <3>1, <3>2 DEF SledBytes
    <3>3. ASSUME NEW e \in Nat, b \in e + 4 .. e + 8, \A a \in e .. e + 8 : Target(a, P) = Null
          PROVE  FALSE
      <4>1. up.start \in e .. e + 8
        BY <2>1, <3>3
      <4> QED BY <4>1, <3>3, <1>2, <1>8 DEF Slot
    <3> QED BY <3>1, <3>2, <3>3 DEF SledBytes
  <2>3. ASSUME up.start + 1 \in AddrInSled' PROVE up.start \in AddrInSled'
    <3>1. CASE up.start + 1 \in AddrInSled
      BY <3>1, <1>8 DEF Slot, SledBytes
    <3>2. CASE up.start + 1 = s
      <4>1. s \in RangeOf(up)
        BY <2>1, <1>8, <3>2 DEF Slot, RangeOf
      <4> QED BY <4>1, <1>8 DEF Slot
    <3>3. CASE up.start \in AddrInSled'
      BY <3>3
    <3>4. \A b \in AddrInSled' : b \in AddrInSled \/ b = s \/ b - 1 \in AddrInSled'
      BY DEF SledBytes
    <3>5. up.start + 1 \in AddrInSled \/ up.start + 1 = s \/ up.start \in AddrInSled'
      <4>1. PICK x : x = up.start + 1
        OBVIOUS
      <4>2. x \in AddrInSled'
        BY <4>1, <2>3
      <4>3. x \in AddrInSled \/ x = s \/ x - 1 \in AddrInSled'
        BY <3>4, <4>2
      <4>4. x - 1 = up.start
        BY <4>1, <2>1
      <4> QED BY <4>1, <4>3, <4>4
    <3> QED BY <3>1, <3>2, <3>3, <3>5
  <2> QED BY <1>8, <2>2, <2>3 DEF Slot, RangeOf
<1> QED BY <1>3, <1>4, <1>5, <1>6, <1>7, <1>8

-----------------------------------------------------------------------------
(* The passes.                                                             *)

(* What is known of a pin, and of the bytes, before every step.            *)
LEMMA BytesAre ==
    ASSUME IInv
    PROVE  /\ LastByte \in Nat /\ Addr = 1 .. LastByte
           /\ \A a \in Text : a \in Nat /\ a >= 1 /\ a + 14 <= LastByte /\ a \in Addr
           /\ \A b \in free : b \in Text /\ b \in Addr /\ mem[b] = "none"
           /\ \A b \in AddrInSled : b \in Addr /\ mem[b] # "none"
<1>1. Text # {}
  BY TextAssumption DEF IInv, SpaceInv
<1>2. /\ LastByte \in Nat
      /\ \A a \in Text : a \in Nat /\ a >= 1 /\ a + 14 <= LastByte /\ a \in Addr
  BY <1>1, TextIs
<1>3. free \subseteq Text /\ \A b \in Addr : mem[b] # "none" => b \notin free
  BY DEF IInv, SpaceInv
<1>4. AddrInSled \subseteq {b \in Addr : mem[b] # "none"}
  BY DEF IInv, SpaceInv
<1> QED BY <1>2, <1>3, <1>4 DEF Addr

LEMMA PinIs ==
    ASSUME IInv, NEW up \in two_byte_pins
    PROVE  /\ PinInv(up) /\ up \in TwoBytePins
           /\ up.addr \in Text /\ up.addr \in Nat /\ up.addr >= 1
           /\ up.addr \in Addr /\ up.addr + 1 \in Addr
           /\ up.start \in Nat /\ up.end \in Nat
           /\ up.addr \notin free /\ up.addr + 1 \notin free
           /\ \A b \in RangeOf(up) : b \notin free
<1>1. PinInv(up)
  BY DEF IInv, PinsInv
<1>2. up \in TwoBytePins /\ up.addr \in Text /\ up.addr + 1 \in Addr
      /\ mem[up.addr] # "none" /\ mem[up.addr + 1] # "none"
  BY <1>1 DEF PinInv
<1>3. up.addr \in Addr /\ up.addr \in Nat /\ up.addr >= 1
  BY <1>2, BytesAre
<1>4. up.addr \notin free /\ up.addr + 1 \notin free
  BY <1>2, <1>3, BytesAre
<1>5. up.start \in 0 .. LastByte /\ up.end \in 0 .. LastByte
  BY <1>2 DEF TwoBytePins
<1>6. up.start \in Nat /\ up.end \in Nat
  BY <1>5, BytesAre
<1>7. \A b \in RangeOf(up) : b \notin free
  BY DEF IInv, BytesAreBusy, TakenBytes
<1> QED BY <1>1, <1>2, <1>3, <1>4, <1>6, <1>7

LEMMA SlotIs ==
    ASSUME IInv, NEW up \in two_byte_pins, Slot(up)
    PROVE  /\ up.end = up.start + 2 \/ up.end = up.start + 5
           /\ up.start \in RangeOf(up) /\ up.start + 1 \in RangeOf(up)
           /\ up.start \in Text /\ up.start + 1 \in Text
           /\ \A b \in RangeOf(up) : /\ b \in Int /\ b \in Addr
                                     /\ b \in AddrInSled \/ mem[b] = "none"
           /\ ~ AtHome(up) \/ up.start \in AddrInSled
<1>1. up.start \in Nat /\ up.end \in Nat /\ PinInv(up)
  BY PinIs
<1>2. up.end - up.start \in {2, 5}
  BY DEF Slot
<1>3. up.end = up.start + 2 \/ up.end = up.start + 5
  BY <1>1, <1>2
<1>4. up.start \in RangeOf(up) /\ up.start + 1 \in RangeOf(up)
  BY <1>1, <1>3 DEF RangeOf
<1>5. \A b \in RangeOf(up) : b \in Text /\ (b \in AddrInSled \/ mem[b] = "none")
  BY DEF Slot
<1>6. \A b \in RangeOf(up) : b \in Int
  BY <1>1 DEF RangeOf
<1>7. AtHome(up) => up.start \in AddrInSled
  <2> SUFFICES ASSUME AtHome(up), up.start \notin AddrInSled PROVE FALSE
    OBVIOUS
  <2>1. up.start = up.addr \/ up.start = up.end
    BY DEF AtHome
  <2>2. mem[up.start] = "none"
    BY <1>4, <1>5
  <2>3. mem[up.addr] # "none"
    BY <1>1 DEF PinInv
  <2>4. up.start # up.end
    BY <1>1, <1>3
  <2> QED BY <2>1, <2>2, <2>3, <2>4
<1> QED BY <1>3, <1>4, <1>5, <1>6, <1>7, BytesAre

(* A step that lays no sled keeps a pin as it was when it leaves its jump  *)
(* and its slot.                                                           *)
LEMMA PinKept ==
    ASSUME IInv, NEW up \in two_byte_pins, UNCHANGED <<pins, AddrInSled, phase>>,
           mem'[up.addr] # "none", mem'[up.addr + 1] # "none",
           up.addr \in AddrInSled \/ mem'[up.addr] = mem[up.addr],
           up.addr \in DOMAIN PatchAtAddrs => up.addr \in DOMAIN PatchAtAddrs',
           phase = "reserve" \/ (up \in todo' <=> up \in todo),
           Slot(up) /\ phase # "reserve" => Slot(up)'
    PROVE  PinInv(up)'
<1>1. PinInv(up)
  BY PinIs
<1>2. Shielded(up)'
  BY <1>1 DEF PinInv, Shielded
<1>3. AtHome(up) => AtHome(up)'
  BY DEF AtHome
<1>4. Moved(up) /\ phase # "reserve" => Moved(up)'
  BY <1>3 DEF Moved, InSled
<1>5. /\ up \in TwoBytePins /\ up.insn # Null
      /\ up.addr \in Text /\ up.addr + 1 \in Addr
      /\ up.addr \in AddrInSled \/ mem'[up.addr] = "jmp8"
  BY <1>1 DEF PinInv
<1>6. /\ phase = "reserve" => AtHome(up)
      /\ phase \in {"first reserve", "reserve again"} =>
            IF up \in todo THEN AtHome(up) ELSE Moved(up)
      /\ phase = "expand" => Moved(up)
      /\ phase = "fix" => IF up \in todo THEN Moved(up)
                          ELSE up.start = up.addr /\ up.end = up.addr + 2
  BY <1>1 DEF PinInv
<1> QED BY <1>2, <1>3, <1>4, <1>5, <1>6 DEF PinInv

(* A jump is written where two bytes were free, and a pin is made for it.  *)
LEMMA NewPinStep ==
    ASSUME IInv, phase = "reserve", NEW a \in todo, a \in free,
           NEW new \in TwoBytePins, new.insn # Null, AtHome(new), Shielded(new),
           new.addr \in free, new.addr + 1 \in free,
           mem' \in [Addr -> Cells], mem'[new.addr] = "jmp8", mem'[new.addr + 1] # "none",
           mem'[a] # "none",
           \A b \in Addr : b \notin {a, new.addr, new.addr + 1} => mem'[b] = mem[b],
           free' = free \ {a, new.addr, new.addr + 1},
           two_byte_pins' = two_byte_pins \cup {new}, todo' = todo \ {a}, aborted' = FALSE,
           UNCHANGED <<five_byte_pins, AddrInSled, sleds, pins, disp, PatchAtAddrs,
                       InsnSizeAtAddrs, phase>>
    PROVE  IInv'
<1>1. new.addr \in Text /\ new.addr + 1 \in Addr /\ new.addr \in Addr /\ new.addr \in Nat
  BY BytesAre
<1>2. \A b \in Addr : mem[b] # "none" => mem'[b] = mem[b]
  BY BytesAre
<1>3. SpaceInv'
  BY <1>2 DEF IInv, SpaceInv
<1>4. MarksInv'
  <2>1. DOMAIN PatchAtAddrs' = DOMAIN PatchAtAddrs
    OBVIOUS
  <2> QED BY <2>1 DEF IInv, MarksInv, FindPinnedInsnAtAddr
<1>5. ASSUME NEW up \in two_byte_pins
      PROVE  /\ PinInv(up)' /\ \A b \in RangeOf(up) : b \notin free
             /\ {up.addr, up.addr + 1} \cap {new.addr, new.addr + 1} = {}
  <2>1. PinInv(up) /\ up.addr \in Addr /\ up.addr + 1 \in Addr
        /\ up.addr \notin free /\ up.addr + 1 \notin free
        /\ \A b \in RangeOf(up) : b \notin free
    BY PinIs
  <2>2. mem[up.addr] # "none" /\ mem[up.addr + 1] # "none"
    BY <2>1 DEF PinInv
  <2>3. mem'[up.addr] = mem[up.addr] /\ mem'[up.addr + 1] = mem[up.addr + 1]
    BY <2>1, <2>2, <1>2
  <2>4. PinInv(up)'
    BY <2>2, <2>3, PinKept
  <2> QED BY <2>1, <2>4
<1>6. PinInv(new)'
  BY <1>1 DEF PinInv, AtHome, Shielded
<1>7. PinsInv'
  <2>1. \A u, v \in two_byte_pins' :
            u # v => {u.addr, u.addr + 1} \cap {v.addr, v.addr + 1} = {}
    BY <1>5 DEF IInv, PinsInv
  <2> QED BY <2>1, <1>5, <1>6 DEF PinsInv
<1>8. SledsInv'
  BY DEF IInv, SledsInv, SledInv
<1>9. \A b \in RangeOf(new) : b \in free /\ b \notin free'
  <2>1. CASE new.start = new.addr /\ new.end = new.addr + 2
    BY <2>1, <1>1 DEF RangeOf
  <2>2. CASE new.start = 0 /\ new.end = 0
    BY <2>2 DEF RangeOf
  <2> QED BY <2>1, <2>2 DEF AtHome
<1>10. BytesAreBusy'
  <2>1. \A up \in two_byte_pins' : \A b \in RangeOf(up) : b \notin free'
    BY <1>5, <1>9
  <2>2. \A u, v \in two_byte_pins' : u # v => RangeOf(u) \cap RangeOf(v) \subseteq AddrInSled
    BY <1>5, <1>9 DEF IInv, BytesAreBusy
  <2> QED BY <2>1, <2>2, <1>3 DEF BytesAreBusy, TakenBytes, SpaceInv, RangeOf
<1> QED BY <1>3, <1>4, <1>7, <1>8, <1>10 DEF IInv

LEMMA ReserveJumpStep ==
    ASSUME IInv, phase = "reserve", NEW a \in todo, ReserveJump(a), aborted' = FALSE,
           UNCHANGED <<pins, disp, patch_list, marks, phase>>
    PROVE  IInv'
<1>1. a \in pins /\ a \in PinAddr /\ a \in Text
  BY TextAssumption DEF IInv, MarksInv, SpaceInv
<1>2. a \in Nat /\ a >= 1 /\ a \in Addr /\ LastByte \in Nat /\ Addr = 1 .. LastByte
  BY <1>1, BytesAre
<1>3. a \in free /\ a + 1 \in free
  <2>1. {a, a + 1} \subseteq free
    BY DEF ReserveJump
  <2> QED BY <2>1
<1>4. a + 1 \in Addr /\ a + 1 \in Text
  BY <1>3, BytesAre
<1> DEFINE new == Pin(Original(a), a, a, a + 2)
<1>5. /\ mem' = Written(a, 2, "jmp8") /\ free' = free \ {a, a + 1}
      /\ two_byte_pins' = two_byte_pins \cup {new}
      /\ todo' = todo \ {a}
      /\ UNCHANGED <<five_byte_pins, AddrInSled, sleds, pins, disp, PatchAtAddrs, InsnSizeAtAddrs, phase>>
  BY DEF ReserveJump, marks
<1>6. new.insn = Original(a) /\ new.addr = a /\ new.start = a /\ new.end = a + 2
  BY DEF Pin
<1>7. new \in TwoBytePins /\ new.insn # Null
  <2>1. a + 2 \in 0 .. LastByte /\ a \in 0 .. LastByte
    BY <1>1, <1>2, BytesAre
  <2>2. Original(a) \in Insn
    BY <1>1 DEF Insn
  <2>3. Original(a) # Null
    BY DEF Original, Null
  <2> QED BY <2>1, <2>2, <2>3, <1>2, <1>6 DEF TwoBytePins, Pin
<1> HIDE DEF new
<1>8. /\ mem' \in [Addr -> Cells]
      /\ mem'[a] = "jmp8" /\ mem'[a + 1] # "none"
      /\ \A b \in Addr : b \notin {a, a + 1} => mem'[b] = mem[b]
  <2>1. SpaceInv /\ a \in Int /\ 2 \in JumpSize /\ "jmp8" \in JumpOp
    BY <1>2 DEF IInv, JumpSize, JumpOp
  <2>2. Writes(Written(a, 2, "jmp8"), a, 2, "jmp8")
    BY <2>1, WrittenIs, Zenon
  <2>3. \A b \in Addr : a <= b /\ b < a + 2 <=> b = a \/ b = a + 1
    BY <1>2
  <2> QED BY <2>2, <2>3, <1>2, <1>4, <1>5 DEF Writes
<1>9. AtHome(new) /\ Shielded(new)
  BY <1>1, <1>6 DEF AtHome, Shielded
<1>10. free' = free \ {a, new.addr, new.addr + 1}
  BY <1>5, <1>6
<1> QED BY <1>3, <1>5, <1>6, <1>7, <1>8, <1>9, <1>10, NewPinStep

(* Two in a row: the second is pinned too, which keeps sleds away from the *)
(* jump behind the operand of the push.                                    *)
LEMMA ReservePushStep ==
    ASSUME IInv, phase = "reserve", NEW a \in todo, ReservePush(a), aborted' = FALSE,
           UNCHANGED <<pins, disp, patch_list, marks, phase>>
    PROVE  IInv'
<1>1. a \in pins /\ a \in PinAddr /\ a \in Text /\ a + 1 \in pins
  <2>1. a + 1 \in DOMAIN InsnSizeAtAddrs
    BY DEF ReservePush, FindPinnedInsnAtAddr
  <2> QED BY <2>1, TextAssumption DEF IInv, MarksInv, SpaceInv
<1>2. a \in Nat /\ a >= 1 /\ a \in Addr /\ LastByte \in Nat /\ Addr = 1 .. LastByte
  BY <1>1, BytesAre
<1>3. PICK c : c = a + 5
  OBVIOUS
<1>4. c \in Nat /\ a + 6 = c + 1 /\ a # c /\ a # c + 1 /\ c >= 1
  BY <1>2, <1>3
<1>5. a \in free /\ c \in free /\ c + 1 \in free
  <2>1. {a, a + 5, a + 6} \subseteq free
    BY DEF ReservePush
  <2> QED BY <2>1, <1>3, <1>4
<1>6. c \in Addr /\ c + 1 \in Addr /\ c \in Text /\ c + 1 \in Text
  BY <1>5, BytesAre
<1> DEFINE new == Pin(Lea(a), c, 0, 0)
<1>7. /\ mem' = [Written(c, 2, "jmp8") EXCEPT ![a] = "push"] /\ free' = free \ {a, c, c + 1}
      /\ two_byte_pins' = two_byte_pins \cup {new}
      /\ todo' = todo \ {a}
      /\ UNCHANGED <<five_byte_pins, AddrInSled, sleds, pins, disp, PatchAtAddrs, InsnSizeAtAddrs, phase>>
  BY <1>3, <1>4 DEF ReservePush, marks
<1>8. new.insn = Lea(a) /\ new.addr = c /\ new.start = 0 /\ new.end = 0
  BY DEF Pin
<1>9. new \in TwoBytePins /\ new.insn # Null
  <2>1. 0 \in 0 .. LastByte
    BY <1>2
  <2>2. Lea(a) \in Insn
    BY <1>1 DEF Insn
  <2>3. Lea(a) # Null
    BY DEF Lea, Null
  <2> QED BY <2>1, <2>2, <2>3, <1>6, <1>8 DEF TwoBytePins, Pin
<1> HIDE DEF new
<1>10. /\ mem' \in [Addr -> Cells]
       /\ mem'[c] = "jmp8" /\ mem'[c + 1] # "none" /\ mem'[a] # "none"
       /\ \A b \in Addr : b \notin {a, c, c + 1} => mem'[b] = mem[b]
  <2>1. SpaceInv /\ c \in Int /\ 2 \in JumpSize /\ "jmp8" \in JumpOp
    BY <1>4 DEF IInv, JumpSize, JumpOp
  <2> DEFINE W == Written(c, 2, "jmp8")
  <2>2. Writes(W, c, 2, "jmp8")
    BY <2>1, WrittenIs, Zenon
  <2>3. mem' = [W EXCEPT ![a] = "push"]
    BY <1>7
  <2> HIDE DEF W
  <2>4. mem' \in [Addr -> Cells] /\ mem'[a] = "push" /\ \A b \in Addr : b # a => mem'[b] = W[b]
    BY <2>2, <2>3, <1>2 DEF Cells, Writes
  <2>5. \A b \in Addr : c <= b /\ b < c + 2 <=> b = c \/ b = c + 1
    BY <1>2, <1>4
  <2> QED BY <2>2, <2>4, <2>5, <1>4, <1>6 DEF Writes
<1>11. AtHome(new) /\ Shielded(new)
  <2>1. new.insn.op = "lea" /\ new.insn.at = a
    BY <1>8 DEF Lea
  <2> QED BY <2>1, <1>1, <1>3, <1>8 DEF AtHome, Shielded
<1>12. free' = free \ {a, new.addr, new.addr + 1}
  BY <1>7, <1>8
<1> QED BY <1>5, <1>7, <1>8, <1>9, <1>10, <1>11, <1>12, NewPinStep

(* A sled is laid over whatever stands there; a pin that goes into it is   *)
(* where a pass that reserves slots has left it.                           *)
LEMMA SledStep ==
    ASSUME IInv, phase \in {"reserve", "first reserve", "reserve again"},
           NEW s \in Text, NEW P, DOMAIN P \subseteq Text,
           Target(s, P) # Null, Do68Sled(s, P), aborted' = FALSE,
           DOMAIN PatchAtAddrs \subseteq DOMAIN P,
           \A a \in DOMAIN PatchAtAddrs : P[a].insn = PatchAtAddrs[a].insn,
           (s \notin AddrInSled /\ mem[s] # "none") \/ phase = "reserve",
           PatchAtAddrs' \in {PatchAtAddrs, P}, \A a \in DOMAIN P : P[a].insn \in Insn \ {Null},
           UNCHANGED <<pins, disp, two_byte_pins, InsnSizeAtAddrs, phase>>,
           todo' \subseteq todo,
           \A up \in two_byte_pins : \/ phase = "reserve" \/ (up \in todo' <=> up \in todo)
                                     \/ up.addr = s /\ up \in todo
    PROVE  IInv'
<1>1. /\ SledBytes(s, P) /\ FiveIs(five_byte_pins')
      /\ \A old \in sleds' : SledInv(old)'
      /\ \A o, q \in sleds' : o.start = q.start => o = q
  BY DoSledIs DEF IInv
<1>2. SpaceInv'
  BY <1>1 DEF IInv, SpaceInv, SledBytes
<1>3. DOMAIN PatchAtAddrs \subseteq DOMAIN PatchAtAddrs'
  OBVIOUS
<1>4. MarksInv'
  <2>1. DOMAIN PatchAtAddrs' \subseteq Text
        /\ \A a \in DOMAIN PatchAtAddrs' : PatchAtAddrs'[a].insn \in Insn \ {Null}
    BY DEF IInv, MarksInv
  <2> QED BY <2>1 DEF IInv, MarksInv, FindPinnedInsnAtAddr
<1>5. ASSUME NEW up \in two_byte_pins PROVE PinInv(up)'
  <2>1. /\ mem'[up.addr] # "none" /\ mem'[up.addr + 1] # "none"
        /\ (up.addr \in AddrInSled \/ mem[up.addr] = "jmp8")'
        /\ Shielded(up)'
        /\ AtHome(up) => AtHome(up)'
        /\ InSled(up) => InSled(up)'
        /\ Slot(up) /\ phase # "reserve" => Slot(up)'
    BY <1>1, <1>3, SledLeavesPins
  <2>2. PinInv(up)
    BY PinIs
  <2>3. Moved(up) /\ phase # "reserve" => Moved(up)'
    BY <2>1 DEF Moved
  <2>4. up \in TwoBytePins /\ up.insn # Null /\ up.addr \in Text /\ up.addr + 1 \in Addr
    BY <2>2 DEF PinInv
  <2>5. phase = "reserve" => AtHome(up)'
    BY <2>1, <2>2 DEF PinInv
  <2>6. up.addr = s => InSled(up)'
    BY <1>1 DEF SledBytes, InSled
  <2>7. phase # "reserve" => IF up \in todo' THEN AtHome(up)' ELSE Moved(up)'
    <3> SUFFICES ASSUME phase # "reserve" PROVE IF up \in todo' THEN AtHome(up)' ELSE Moved(up)'
      OBVIOUS
    <3>1. IF up \in todo THEN AtHome(up) ELSE Moved(up)
      BY <2>2 DEF PinInv
    <3>2. CASE up \in todo' <=> up \in todo
      BY <3>1, <3>2, <2>1, <2>3
    <3>3. CASE up.addr = s /\ up \in todo
      BY <3>1, <3>3, <2>1, <2>6 DEF Moved
    <3> QED BY <3>2, <3>3
  <2> QED BY <2>1, <2>4, <2>5, <2>7 DEF PinInv
<1>6. PinsInv'
  <2>1. \A u, v \in two_byte_pins' :
            u # v => {u.addr, u.addr + 1} \cap {v.addr, v.addr + 1} = {}
    BY DEF IInv, PinsInv
  <2>2. phase' \in {"first reserve", "reserve again", "expand", "fix"} => todo' \subseteq two_byte_pins'
    BY DEF IInv, PinsInv
  <2> QED BY <1>5, <2>1, <2>2 DEF PinsInv
<1>7. SledsInv'
  BY <1>1 DEF SledsInv, FiveIs
<1>8. BytesAreBusy'
  <2>1. \A up \in two_byte_pins' : \A b \in RangeOf(up) : b \notin free'
    BY <1>1, PinIs DEF SledBytes
  <2>2. (\A u, v \in two_byte_pins : u # v => RangeOf(u) \cap RangeOf(v) \subseteq AddrInSled)'
    BY <1>1 DEF IInv, BytesAreBusy, SledBytes, RangeOf
  <2> QED BY <2>1, <2>2, <1>2 DEF BytesAreBusy, TakenBytes, SpaceInv, RangeOf
<1>9. phase' \in {"reserve", "first reserve", "expand", "fix", "reserve again",
                  "optimize", "done"}
  OBVIOUS
<1>10. aborted' = FALSE
  OBVIOUS
<1> QED BY <1>2, <1>4, <1>6, <1>7, <1>8, <1>9, <1>10, Zenon DEF IInv

LEMMA ReserveSledStep ==
    ASSUME IInv, phase = "reserve", NEW a \in todo, ReserveSled(a), aborted' = FALSE,
           UNCHANGED <<pins, disp, patch_list, marks, phase>>
    PROVE  IInv'
<1>1. a \in pins /\ a \in Text
  BY TextAssumption DEF IInv, MarksInv, SpaceInv
<1>2. Target(a, PatchAtAddrs) # Null
  BY <1>1 DEF IInv, MarksInv, Target
<1>3. todo' \subseteq todo
  BY DEF ReserveSled
<1>4. /\ DOMAIN PatchAtAddrs \subseteq Text
      /\ \A b \in DOMAIN PatchAtAddrs : PatchAtAddrs[b].insn \in Insn \ {Null}
  BY DEF IInv, MarksInv
<1>5. Do68Sled(a, PatchAtAddrs) /\ two_byte_pins' = two_byte_pins
  BY DEF ReserveSled
<1>6. /\ PatchAtAddrs' \in {PatchAtAddrs, PatchAtAddrs}
      /\ UNCHANGED <<pins, disp, two_byte_pins, InsnSizeAtAddrs, phase>>
      /\ DOMAIN PatchAtAddrs \subseteq DOMAIN PatchAtAddrs
      /\ \A b \in DOMAIN PatchAtAddrs : PatchAtAddrs[b].insn = PatchAtAddrs[b].insn
      /\ phase \in {"reserve", "first reserve", "reserve again"}
      /\ \A up \in two_byte_pins : \/ phase = "reserve" \/ (up \in todo' <=> up \in todo)
                                   \/ up.addr = a /\ up \in todo
  BY <1>5 DEF marks
<1> QED BY <1>1, <1>2, <1>3, <1>4, <1>5, <1>6, SledStep

LEMMA EmergencySledStep ==
    ASSUME IInv, phase \in {"first reserve", "reserve again"},
           NEW up \in todo, EmergencySled(up), todo' = todo \ {up}, aborted' = FALSE,
           UNCHANGED <<pins, disp, patch_list, InsnSizeAtAddrs, phase>>
    PROVE  IInv'
<1> DEFINE P == RecordNewPatch(up.addr, up.insn, 2)
<1>1. up \in two_byte_pins
  BY DEF IInv, PinsInv
<1>2. up.addr \in Text /\ mem[up.addr] # "none" /\ up.addr \notin AddrInSled
      /\ up.insn \in Insn \ {Null}
  BY <1>1, PinIs DEF PinInv, TwoBytePins, EmergencySled
<1>3. /\ DOMAIN PatchAtAddrs \subseteq Text
      /\ \A b \in DOMAIN PatchAtAddrs : PatchAtAddrs[b].insn \in Insn \ {Null}
  BY DEF IInv, MarksInv
<1>4. /\ DOMAIN P = DOMAIN PatchAtAddrs \cup {up.addr}
      /\ \A a \in DOMAIN PatchAtAddrs : P[a].insn = PatchAtAddrs[a].insn
      /\ \A a \in DOMAIN P : P[a].insn \in Insn \ {Null}
  BY <1>2, <1>3 DEF RecordNewPatch, Assigned
<1>5. PatchAtAddrs' = P /\ Do68Sled(up.addr, P) /\ two_byte_pins' = two_byte_pins
  BY DEF EmergencySled
<1> HIDE DEF P
<1>6. Target(up.addr, P) # Null
  BY <1>4 DEF Target
<1>7. DOMAIN P \subseteq Text
  BY <1>2, <1>3, <1>4
<1>8. \A v \in two_byte_pins : \/ phase = "reserve" \/ (v \in todo' <=> v \in todo)
                               \/ v.addr = up.addr /\ v \in todo
  OBVIOUS
<1> QED BY <1>2, <1>4, <1>5, <1>6, <1>7, <1>8, SledStep

(* A slot is the last run of free bytes in reach.                          *)
LEMMA SlotsIs ==
    ASSUME NEW a \in Nat, NEW n, Slots(a, n) # {}
    PROVE  /\ Max(Slots(a, n)) \in Nat /\ Max(Slots(a, n)) > 0
           /\ areBytesFree(Max(Slots(a, n)), n)
<1> DEFINE S == Slots(a, n)
<1>1. Reach \in Nat
  BY TextAssumption
<1>2. \A y \in S : y \in Int /\ y <= a + Reach /\ y > 0 /\ areBytesFree(y, n)
  BY <1>1 DEF Slots
<1>3. S \in SUBSET Int /\ S # {} /\ a + Reach \in Int
  BY <1>1, <1>2
<1> HIDE DEF S
<1>4. Max(S) \in S
  BY <1>2, <1>3, MaxIs
<1>5. PICK s \in S : s = Max(S)
  BY <1>4
<1>6. s \in Nat /\ s > 0 /\ areBytesFree(s, n)
  BY <1>2
<1> QED BY <1>5, <1>6 DEF S

Reserving == phase \in {"first reserve", "reserve again"}

(* Nothing is written to a slot, so the range is all that keeps it from    *)
(* being given away.                                                       *)
LEMMA ReserveStep ==
    ASSUME IInv, Reserving, NEW up \in todo, NEW s \in Nat, s > 0,
           NEW n \in {2, 5}, areBytesFree(s, n), Reserve(up, s, n), todo' = todo \ {up},
           UNCHANGED <<pins, disp, patch_list, InsnSizeAtAddrs, phase>>
    PROVE  IInv'
<1>1. up \in two_byte_pins /\ todo \subseteq two_byte_pins
  BY DEF IInv, PinsInv, Reserving
<1>2. s \in s .. s + n - 1 /\ s + 1 \in s .. s + n - 1
  OBVIOUS
<1>3. s + n - 1 \in s .. s + n - 1
  OBVIOUS
<1>4. \A b \in s .. s + n - 1 : b \in free
  <2> SUFFICES ASSUME NEW b \in s .. s + n - 1 PROVE b \in free
    OBVIOUS
  <2>1. PICK i : i = b - s
    OBVIOUS
  <2>2. i \in 0 .. n - 1 /\ s + i = b
    BY <2>1
  <2>3. s + i \in free
    BY <2>2 DEF areBytesFree
  <2> QED BY <2>2, <2>3
<1> DEFINE new == [up EXCEPT !.start = s, !.end = s + n]
<1>5. /\ free' = free \ (s .. s + n - 1)
      /\ PatchAtAddrs' = RecordNewPatch(s, up.insn, n)
      /\ two_byte_pins' = (two_byte_pins \ {up}) \cup {new}
      /\ UNCHANGED <<mem, AddrInSled, sleds, five_byte_pins, aborted>>
  BY DEF Reserve
<1>6. /\ PinInv(up) /\ up \in TwoBytePins /\ up.addr \in Addr
      /\ \A b \in RangeOf(up) : b \notin free
  BY <1>1, PinIs
<1>7. s \in free /\ s + n - 1 \in free /\ s + 1 \in free
  BY <1>4
<1>8. s \in Text /\ s \in 0 .. LastByte /\ s + n \in 0 .. LastByte
  <2>1. PICK z : z = s + n - 1
    OBVIOUS
  <2>2. z \in Text /\ z \in Nat /\ z + 14 <= LastByte /\ s \in Text /\ LastByte \in Nat
    BY <1>7, <2>1, BytesAre
  <2> QED BY <2>1, <2>2
<1>9. /\ new \in TwoBytePins /\ new.insn = up.insn /\ new.addr = up.addr
      /\ new.start = s /\ new.end = s + n
  BY <1>6, <1>8 DEF TwoBytePins
<1> HIDE DEF new
<1>10. DOMAIN PatchAtAddrs' = DOMAIN PatchAtAddrs \cup {s}
       /\ \A a \in DOMAIN PatchAtAddrs' : PatchAtAddrs'[a].insn \in Insn \ {Null}
  <2>1. \A a \in DOMAIN PatchAtAddrs : PatchAtAddrs[a].insn \in Insn \ {Null}
    BY DEF IInv, MarksInv
  <2>2. up.insn \in Insn \ {Null}
    BY <1>6 DEF PinInv, TwoBytePins
  <2> QED BY <2>1, <2>2, <1>5 DEF RecordNewPatch, Assigned
<1>11. RangeOf(new) = s .. s + n - 1
  BY <1>9 DEF RangeOf
<1>12. SpaceInv'
  BY <1>5 DEF IInv, SpaceInv
<1>13. MarksInv'
  BY <1>5, <1>8, <1>10 DEF IInv, MarksInv, FindPinnedInsnAtAddr
<1>14. ASSUME NEW v \in two_byte_pins PROVE s \notin RangeOf(v) /\ v # new
  <2>1. \A b \in RangeOf(v) : b \notin free
    BY PinIs
  <2>2. s \in RangeOf(new)
    BY <1>11
  <2> QED BY <1>7, <2>1, <2>2
<1>15. Slot(new)'
  <2>1. new.end - new.start \in {2, 5}
    BY <1>9
  <2>2. \A b \in RangeOf(new) : b \in Text /\ mem[b] = "none"
    BY <1>4, <1>11, BytesAre
  <2>3. s + 1 \notin AddrInSled
    BY <1>7, BytesAre
  <2> QED BY <2>1, <2>2, <2>3, <1>5, <1>9, <1>10 DEF Slot, RangeOf
<1>16. PinInv(new)'
  <2>1. new \notin todo'
    BY <1>1, <1>14
  <2>2. Shielded(new)'
    BY <1>5, <1>6, <1>9, <1>10 DEF PinInv, Shielded
  <2> QED BY <2>1, <2>2, <1>5, <1>6, <1>9, <1>15 DEF PinInv, Moved, Reserving
<1>17. ASSUME NEW v \in two_byte_pins \ {up} PROVE PinInv(v)'
  <2>1. mem'[v.addr] # "none" /\ mem'[v.addr + 1] # "none" /\ mem'[v.addr] = mem[v.addr]
    BY <1>5, PinIs DEF PinInv
  <2>2. Slot(v) => Slot(v)'
    BY <1>5, <1>10 DEF Slot, RangeOf
  <2>3. v \in todo' <=> v \in todo
    OBVIOUS
  <2> QED BY <2>1, <2>2, <2>3, <1>5, <1>10, PinKept DEF Reserving
<1>18. PinsInv'
  <2>1. \A u, v \in two_byte_pins' :
            u # v => {u.addr, u.addr + 1} \cap {v.addr, v.addr + 1} = {}
    BY <1>1, <1>5, <1>9 DEF IInv, PinsInv
  <2>2. todo' \subseteq two_byte_pins'
    BY <1>1, <1>5
  <2> QED BY <1>5, <1>16, <1>17, <2>1, <2>2 DEF PinsInv, Reserving
<1>19. SledsInv'
  BY <1>5 DEF IInv, SledsInv, SledInv
<1>20. BytesAreBusy'
  <2>1. \A v \in two_byte_pins : \A b \in RangeOf(v) : b \notin free
    BY PinIs
  <2>2. \A v \in two_byte_pins' : \A b \in RangeOf(v) : b \notin free'
    BY <2>1, <1>5, <1>11
  <2>3. \A v \in two_byte_pins : RangeOf(v) \cap RangeOf(new) = {}
    BY <2>1, <1>4, <1>11
  <2>4. \A u, v \in two_byte_pins' : u # v => RangeOf(u) \cap RangeOf(v) \subseteq AddrInSled
    BY <2>3, <1>5 DEF IInv, BytesAreBusy
  <2> QED BY <2>2, <2>4, <1>5, <1>12 DEF BytesAreBusy, TakenBytes, SpaceInv, RangeOf
<1> QED BY <1>5, <1>12, <1>13, <1>18, <1>19, <1>20 DEF IInv

(* A turn that leaves the bytes and the marks as they are, and forgets the *)
(* pin or, in the pass that widens jumps, keeps it.                        *)
LEMMA DropStep ==
    ASSUME IInv, phase \in {"first reserve", "reserve again", "expand"},
           NEW up \in todo, todo' = todo \ {up},
           \/ two_byte_pins' = two_byte_pins \ {up}
           \/ two_byte_pins' = two_byte_pins /\ phase = "expand",
           UNCHANGED <<pins, space, five_byte_pins, PatchAtAddrs, InsnSizeAtAddrs,
                       AddrInSled, sleds, phase, aborted>>
    PROVE  IInv'
<1>1. two_byte_pins' \subseteq two_byte_pins
  OBVIOUS
<1>2. SpaceInv'
  BY DEF IInv, SpaceInv, space
<1>3. MarksInv'
  BY DEF IInv, MarksInv, FindPinnedInsnAtAddr
<1>4. PinsInv'
  <2>1. ASSUME NEW v \in two_byte_pins' PROVE PinInv(v)'
    <3>1. PinInv(v) /\ v \in two_byte_pins
      BY <1>1, PinIs
    <3>2. phase = "expand" \/ (v \in todo' <=> v \in todo)
      OBVIOUS
    <3> QED BY <3>1, <3>2 DEF PinInv, Shielded, AtHome, Moved, Slot, InSled, RangeOf, space
  <2>2. \A u, v \in two_byte_pins' :
            u # v => {u.addr, u.addr + 1} \cap {v.addr, v.addr + 1} = {}
    BY <1>1 DEF IInv, PinsInv
  <2>3. todo' \subseteq two_byte_pins'
    BY DEF IInv, PinsInv
  <2> QED BY <2>1, <2>2, <2>3 DEF PinsInv
<1>5. SledsInv'
  BY DEF IInv, SledsInv, SledInv
<1>6. BytesAreBusy'
  <2>1. \A v \in two_byte_pins' : \A b \in RangeOf(v) : b \notin free'
    BY <1>1, PinIs DEF space
  <2>2. \A u, v \in two_byte_pins' : u # v => RangeOf(u) \cap RangeOf(v) \subseteq AddrInSled
    BY <1>1 DEF IInv, BytesAreBusy
  <2> QED BY <2>1, <2>2, <1>2 DEF BytesAreBusy, TakenBytes, SpaceInv, RangeOf
<1> QED BY <1>2, <1>3, <1>4, <1>5, <1>6 DEF IInv

LEMMA PreReserveStep ==
    ASSUME IInv, PreReserve2ByteJumpTargets, aborted' = FALSE
    PROVE  IInv'
<1>1. phase \in {"first reserve", "reserve again"}
      /\ UNCHANGED <<pins, disp, patch_list, InsnSizeAtAddrs, phase>>
  BY DEF PreReserve2ByteJumpTargets
<1>2. PICK up \in todo :
         /\ todo' = todo \ {up}
         /\ \/ ReserveFive(up) \/ ReserveTwo(up) \/ EmergencySled(up)
            \/ ForgetInSled(up) /\ UNCHANGED <<free, mem, AddrInSled, sleds,
                                       five_byte_pins, PatchAtAddrs, aborted>>
  BY Zenon DEF PreReserve2ByteJumpTargets
<1>3. up.addr \in Nat
  BY <1>1, PinIs DEF IInv, PinsInv
<1>4. Reserving
  BY <1>1 DEF Reserving
<1>5. CASE ReserveFive(up)
  <2>1. Slots(up.addr, 5) # {} /\ Reserve(up, Max(Slots(up.addr, 5)), 5) /\ 5 \in {2, 5}
    BY <1>5 DEF ReserveFive
  <2>2. /\ Max(Slots(up.addr, 5)) \in Nat /\ Max(Slots(up.addr, 5)) > 0
        /\ areBytesFree(Max(Slots(up.addr, 5)), 5)
    BY <2>1, <1>3, SlotsIs, Zenon
  <2> QED BY <1>1, <1>2, <1>4, <2>1, <2>2, ReserveStep, Zenon
<1>6. CASE ReserveTwo(up)
  <2>1. Slots(up.addr, 2) # {} /\ Reserve(up, Max(Slots(up.addr, 2)), 2) /\ 2 \in {2, 5}
    BY <1>6 DEF ReserveTwo
  <2>2. /\ Max(Slots(up.addr, 2)) \in Nat /\ Max(Slots(up.addr, 2)) > 0
        /\ areBytesFree(Max(Slots(up.addr, 2)), 2)
    BY <2>1, <1>3, SlotsIs, Zenon
  <2> QED BY <1>1, <1>2, <1>4, <2>1, <2>2, ReserveStep, Zenon
<1>7. CASE EmergencySled(up)
  BY <1>1, <1>2, <1>7, EmergencySledStep, Zenon
<1>8. CASE ForgetInSled(up) /\ UNCHANGED <<free, mem, AddrInSled, sleds,
                                   five_byte_pins, PatchAtAddrs, aborted>>
  <2>1. UNCHANGED <<pins, space, five_byte_pins, PatchAtAddrs, InsnSizeAtAddrs,
                    AddrInSled, sleds, phase, aborted>>
    BY <1>1, <1>8 DEF space
  <2>2. two_byte_pins' = two_byte_pins \ {up}
    BY <1>8 DEF ForgetInSled
  <2>3. phase \in {"first reserve", "reserve again", "expand"}
    BY <1>1
  <2> QED BY <1>2, <2>1, <2>2, <2>3, DropStep, Zenon
<1> QED BY <1>2, <1>5, <1>6, <1>7, <1>8, Zenon

(* What a pin gives back was reserved and never written.                   *)
LEMMA ReleasedIs ==
    ASSUME IInv, NEW up \in two_byte_pins, Moved(up)
    PROVE  /\ \A b \in Released(up) : /\ b \in RangeOf(up) /\ b \in Text /\ b \in Addr
                                      /\ b \notin AddrInSled /\ mem[b] = "none" /\ b \notin free
           /\ up.addr \notin AddrInSled => Slot(up)
<1>1. \A b \in RangeOf(up) : b \notin free
  BY PinIs
<1>2. up.addr \notin AddrInSled => Slot(up)
  BY DEF Moved, InSled
<1>3. CASE Slot(up)
  BY <1>1, <1>2, <1>3, BytesAre DEF Slot, Released
<1>4. CASE AtHome(up) /\ InSled(up)
  <2>1. up.addr \in Nat
    BY PinIs
  <2>2. RangeOf(up) \subseteq {up.addr, up.addr + 1}
    <3>1. CASE up.start = up.addr /\ up.end = up.addr + 2
      BY <2>1, <3>1 DEF RangeOf
    <3>2. CASE up.start = 0 /\ up.end = 0
      BY <3>2 DEF RangeOf
    <3> QED BY <1>4, <3>1, <3>2 DEF AtHome
  <2>3. Released(up) = {}
    BY <1>4, <2>2 DEF Released, InSled
  <2> QED BY <2>3, <1>2
<1> QED BY <1>3, <1>4 DEF Moved

(* What is free at a byte, when a pin gives back its slot.                 *)
LEMMA GivenBack ==
    ASSUME IInv, NEW up \in two_byte_pins, Moved(up),
           \A b \in free' : b \in free \/ b \in Released(up),
           two_byte_pins' \subseteq two_byte_pins \ {up}, UNCHANGED AddrInSled,
           \A b \in Addr : mem'[b] = mem[b] \/ b \notin free'
    PROVE  BytesAreBusy' /\ \A b \in Addr : mem'[b] # "none" => b \notin free'
<1>1. \A b \in Released(up) : /\ b \in RangeOf(up) /\ b \notin AddrInSled /\ mem[b] = "none"
  BY ReleasedIs
<1>2. ASSUME NEW b \in Addr, mem'[b] # "none" PROVE b \notin free'
  <2>1. CASE b \in free
    BY <2>1, <1>2, BytesAre
  <2> QED BY <2>1, <1>1, <1>2
<1>3. ASSUME NEW v \in two_byte_pins', NEW b \in RangeOf(v) PROVE b \notin free'
  <2>1. v \in two_byte_pins /\ v # up
    OBVIOUS
  <2>2. b \notin free
    BY <2>1, <1>3, PinIs
  <2>3. RangeOf(v) \cap RangeOf(up) \subseteq AddrInSled
    BY <2>1 DEF IInv, BytesAreBusy
  <2> QED BY <2>2, <2>3, <1>1, <1>3
<1>4. \A u, v \in two_byte_pins' : u # v => RangeOf(u) \cap RangeOf(v) \subseteq AddrInSled'
  BY DEF IInv, BytesAreBusy
<1> QED BY <1>2, <1>3, <1>4 DEF BytesAreBusy, TakenBytes, RangeOf

(* The jump is widened in place and the slot goes back.  No assert fails:  *)
(* the slot is marked, and no byte of it is free.                          *)
LEMMA ExpandStep ==
    ASSUME IInv, phase = "expand", NEW up \in todo, Expand(up), todo' = todo \ {up},
           UNCHANGED <<pins, disp, patch_list, AddrInSled, sleds, phase>>
    PROVE  IInv'
<1>1. up \in two_byte_pins /\ todo \subseteq two_byte_pins
  BY DEF IInv, PinsInv
<1>2. /\ PinInv(up) /\ up \in TwoBytePins /\ up.addr \in Text /\ up.addr \in Nat
      /\ up.addr \in Addr /\ up.addr >= 1 /\ up.addr + 1 \in Addr
  BY <1>1, PinIs
<1>3. Moved(up) /\ up.addr \notin AddrInSled /\ Slot(up) /\ up.start \notin AddrInSled
  <2>1. Moved(up)
    BY <1>2 DEF PinInv
  <2> QED BY <2>1, <1>1, ReleasedIs DEF Expand, CanUpdate
<1>4. PICK a : a = up.addr
  OBVIOUS
<1>5. \A b \in a + 2 .. a + 4 : b \in free
  <2> SUFFICES ASSUME NEW b \in a + 2 .. a + 4 PROVE b \in free
    OBVIOUS
  <2>1. a \in Int
    BY <1>2, <1>4
  <2>2. PICK i : i = b - (a + 2)
    OBVIOUS
  <2>3. i \in 0 .. 3 - 1 /\ a + 2 + i = b
    BY <2>1, <2>2
  <2>4. a + 2 + i \in free
    BY <2>3, <1>4 DEF Expand, CanUpdate, areBytesFree
  <2> QED BY <2>3, <2>4
<1>6. \A b \in Released(up) : /\ b \in RangeOf(up) /\ b \in Text /\ b \notin AddrInSled
                              /\ mem[b] = "none" /\ b \notin free
  BY <1>1, <1>3, ReleasedIs
<1>7. /\ mem' = Written(a, 5, "jmp32")
      /\ free' = (free \ (a .. a + 4)) \cup Released(up)
      /\ aborted' = (Released(up) \cap (free \ (a .. a + 4)) # {} \/ up.start \notin DOMAIN PatchAtAddrs)
      /\ PatchAtAddrs' = Restrict(PatchAtAddrs, DOMAIN PatchAtAddrs \ {up.start})
      /\ five_byte_pins' = Assigned(five_byte_pins, up.insn, a)
      /\ InsnSizeAtAddrs' = Assigned(InsnSizeAtAddrs, a, [insn |-> FindPinnedInsnAtAddr(a), size |-> 5])
      /\ two_byte_pins' = two_byte_pins \ {up}
  BY <1>4, Zenon DEF Expand
<1>8. aborted' = FALSE
  <2>1. Released(up) \cap (free \ (a .. a + 4)) = {}
    BY <1>6
  <2>2. up.start \in DOMAIN PatchAtAddrs
    BY <1>3 DEF Slot
  <2> QED BY <2>1, <2>2, <1>7, Zenon
<1>9. /\ mem' \in [Addr -> Cells]
      /\ \A b \in Addr : IF a <= b /\ b < a + 5 THEN mem'[b] # "none" ELSE mem'[b] = mem[b]
  <2>1. SpaceInv /\ a \in Int /\ 5 \in JumpSize /\ "jmp32" \in JumpOp
    BY <1>2, <1>4 DEF IInv, JumpSize, JumpOp
  <2>2. Writes(Written(a, 5, "jmp32"), a, 5, "jmp32")
    BY <2>1, WrittenIs, Zenon
  <2> QED BY <2>2, <1>7 DEF Writes
<1>10. \A b \in Addr : mem'[b] = mem[b] \/ (mem'[b] # "none" /\ b \in a .. a + 4)
  <2> SUFFICES ASSUME NEW b \in Addr PROVE mem'[b] = mem[b] \/ (mem'[b] # "none" /\ b \in a .. a + 4)
    OBVIOUS
  <2>1. a \in Int /\ b \in Int
    BY <1>2, <1>4, BytesAre
  <2>2. CASE a <= b /\ b < a + 5
    BY <2>1, <2>2, <1>9
  <2> QED BY <2>1, <2>2, <1>9
<1>11. \A b \in a .. a + 4 : b = a \/ b = a + 1 \/ b \in free
  <2> SUFFICES ASSUME NEW b \in a .. a + 4 PROVE b = a \/ b = a + 1 \/ b \in free
    OBVIOUS
  <2>1. a \in Int /\ b \in Int
    BY <1>2, <1>4
  <2>2. b = a \/ b = a + 1 \/ b \in a + 2 .. a + 4
    BY <2>1
  <2> QED BY <2>2, <1>5
<1>12. mem[a] # "none" /\ mem[a + 1] # "none"
  BY <1>2, <1>4 DEF PinInv
<1>13. \A b \in a .. a + 4 : b \notin free'
  BY <1>6, <1>7, <1>11, <1>12
<1>14. BytesAreBusy' /\ \A b \in Addr : mem'[b] # "none" => b \notin free'
  <2>1. \A b \in free' : b \in free \/ b \in Released(up)
    BY <1>7
  <2>2. two_byte_pins' \subseteq two_byte_pins \ {up}
    BY <1>7
  <2>3. \A b \in Addr : mem'[b] = mem[b] \/ b \notin free'
    BY <1>10, <1>13
  <2> QED BY <2>1, <2>2, <2>3, <1>1, <1>3, GivenBack
<1>15. SpaceInv'
  <2>1. free' \subseteq Text
    BY <1>6, <1>7, BytesAre
  <2>2. AddrInSled' \subseteq {b \in Addr : mem'[b] # "none"}
    BY <1>10, BytesAre
  <2> QED BY <2>1, <2>2, <1>9, <1>14 DEF IInv, SpaceInv
<1>16. MarksInv'
  <2>1. /\ DOMAIN InsnSizeAtAddrs' \subseteq Text
        /\ \A b \in pins : FindPinnedInsnAtAddr(b)' # Null
    <3>1. DOMAIN InsnSizeAtAddrs' = DOMAIN InsnSizeAtAddrs \cup {a}
          /\ \A b \in DOMAIN InsnSizeAtAddrs' :
                InsnSizeAtAddrs'[b].insn = IF b = a THEN FindPinnedInsnAtAddr(a)
                                           ELSE InsnSizeAtAddrs[b].insn
      BY <1>7 DEF Assigned
    <3>2. \A b \in pins : FindPinnedInsnAtAddr(b) # Null
      BY DEF IInv, MarksInv
    <3>3. \A b \in pins : FindPinnedInsnAtAddr(b)' = FindPinnedInsnAtAddr(b)
      BY <3>1, <3>2 DEF FindPinnedInsnAtAddr
    <3>4. DOMAIN InsnSizeAtAddrs' \subseteq Text
      BY <3>1, <1>2, <1>4 DEF IInv, MarksInv
    <3> QED BY <3>2, <3>3, <3>4
  <2>2. /\ DOMAIN PatchAtAddrs' \subseteq Text
        /\ \A b \in DOMAIN PatchAtAddrs' : PatchAtAddrs'[b].insn \in Insn \ {Null}
    BY <1>7 DEF IInv, MarksInv, Restrict
  <2> QED BY <2>1, <2>2 DEF MarksInv
<1>17. ASSUME NEW v \in two_byte_pins \ {up} PROVE PinInv(v)'
  <2>1. /\ PinInv(v) /\ v.addr \in Addr /\ v.addr + 1 \in Addr
        /\ v.addr \notin free /\ v.addr + 1 \notin free
    BY PinIs
  <2>2. v.addr # a /\ v.addr # a + 1 /\ v.addr + 1 # a /\ v.addr + 1 # a + 1
    BY <1>1, <1>4 DEF IInv, PinsInv
  <2>3. mem'[v.addr] = mem[v.addr] /\ mem'[v.addr + 1] = mem[v.addr + 1]
    BY <2>1, <2>2, <1>10, <1>11
  <2>4. mem'[v.addr] # "none" /\ mem'[v.addr + 1] # "none"
    BY <2>1, <2>3 DEF PinInv
  <2>5. up.start \in RangeOf(up) /\ mem[up.start] = "none"
    BY <1>1, <1>3, SlotIs
  <2>6. v.addr # up.start
    BY <2>1, <2>5 DEF PinInv
  <2>7. DOMAIN PatchAtAddrs' = DOMAIN PatchAtAddrs \ {up.start}
    BY <1>7 DEF Restrict
  <2>8. ASSUME Slot(v) PROVE Slot(v)'
    <3>1. v.start \in RangeOf(v)
          /\ \A b \in RangeOf(v) : b \in Addr /\ (b \in AddrInSled \/ mem[b] = "none")
      BY <2>8, SlotIs
    <3>2. RangeOf(v) \cap RangeOf(up) \subseteq AddrInSled
      BY <1>1 DEF IInv, BytesAreBusy
    <3>3. v.start # up.start
      BY <3>1, <3>2, <2>5, <1>3
    <3>4. \A b \in RangeOf(v) : b \notin free
      BY PinIs
    <3>5. \A b \in RangeOf(v) : b \in AddrInSled \/ mem'[b] = "none"
      BY <3>1, <3>4, <1>10, <1>11, <1>12
    <3> QED BY <2>7, <2>8, <3>3, <3>5 DEF Slot, RangeOf
  <2>9. v \in todo' <=> v \in todo
    OBVIOUS
  <2> QED BY <2>3, <2>4, <2>6, <2>7, <2>8, <2>9, PinKept
<1>18. PinsInv'
  <2>1. \A u, v \in two_byte_pins' :
            u # v => {u.addr, u.addr + 1} \cap {v.addr, v.addr + 1} = {}
    BY <1>7 DEF IInv, PinsInv
  <2>2. todo' \subseteq two_byte_pins'
    BY <1>1, <1>7
  <2> QED BY <1>7, <1>17, <2>1, <2>2 DEF PinsInv
<1>19. SledsInv'
  <2>1. DOMAIN five_byte_pins' = DOMAIN five_byte_pins \cup {up.insn}
        /\ \A i \in DOMAIN five_byte_pins' :
              five_byte_pins'[i] = IF i = up.insn THEN a ELSE five_byte_pins[i]
    BY <1>7 DEF Assigned
  <2>2. up.insn \in Insn
    BY <1>2 DEF TwoBytePins
  <2>3. \A i \in DOMAIN five_byte_pins' : (i.op = "sled" \/ i \in Insn) /\ five_byte_pins'[i] \in Addr
    BY <2>1, <2>2, <1>2, <1>4 DEF IInv, SledsInv
  <2> QED BY <2>1, <2>3 DEF IInv, SledsInv, SledInv
<1> QED BY <1>8, <1>14, <1>15, <1>16, <1>18, <1>19 DEF IInv

LEMMA ExpandPinnedStep ==
    ASSUME IInv, ExpandPinnedInstructions
    PROVE  IInv'
<1>1. phase = "expand" /\ UNCHANGED <<pins, disp, patch_list, AddrInSled, sleds, phase>>
  BY DEF ExpandPinnedInstructions
<1>2. PICK up \in todo :
         /\ todo' = todo \ {up}
         /\ \/ Expand(up)
            \/ /\ ForgetInSled(up)
               /\ UNCHANGED <<mem, free, aborted, five_byte_pins, marks>>
            \/ /\ StaysTwo(up)
               /\ UNCHANGED <<mem, free, aborted, five_byte_pins, marks, two_byte_pins>>
  BY Zenon DEF ExpandPinnedInstructions
<1>3. CASE Expand(up)
  BY <1>1, <1>2, <1>3, ExpandStep, Zenon
<1>4. CASE ~ Expand(up)
  <2>1. UNCHANGED <<pins, space, five_byte_pins, PatchAtAddrs, InsnSizeAtAddrs,
                    AddrInSled, sleds, phase, aborted>>
    BY <1>1, <1>2, <1>4 DEF space, marks
  <2>2. two_byte_pins' = two_byte_pins \ {up} \/ two_byte_pins' = two_byte_pins
    BY <1>2, <1>4 DEF ForgetInSled
  <2>3. phase \in {"first reserve", "reserve again", "expand"}
    BY <1>1
  <2> QED BY <1>1, <1>2, <2>1, <2>2, <2>3, DropStep, Zenon
<1> QED BY <1>3, <1>4

-----------------------------------------------------------------------------
(* The two-byte jumps left are sent to what was reserved for them.         *)
LEMMA JumpIsThere ==
    ASSUME IInv, NEW up \in two_byte_pins, up.addr \notin AddrInSled
    PROVE  CanPatch(up.addr)
<1>1. PinInv(up) /\ up.addr \notin free /\ up.addr + 1 \notin free
  BY PinIs
<1>2. mem[up.addr] = "jmp8"
  BY <1>1 DEF PinInv
<1> QED BY <1>1, <1>2 DEF CanPatch

(* The pin that is fixed goes; its slot goes back, or is in a sled.        *)
LEMMA FixGoneStep ==
    ASSUME IInv, phase = "fix", NEW up \in todo, todo' = todo \ {up},
           free' = free \cup Released(up), two_byte_pins' = two_byte_pins \ {up},
           aborted' = FALSE, disp' \in [Addr -> 0 .. LastByte],
           UNCHANGED <<pins, mem, five_byte_pins, patch_list, PatchAtAddrs,
                       InsnSizeAtAddrs, AddrInSled, sleds, phase>>
    PROVE  IInv'
<1>1. up \in two_byte_pins /\ todo \subseteq two_byte_pins
  BY DEF IInv, PinsInv
<1>2. Moved(up)
  BY <1>1, PinIs DEF PinInv
<1>3. BytesAreBusy' /\ \A b \in Addr : mem'[b] # "none" => b \notin free'
  BY <1>1, <1>2, GivenBack
<1>4. SpaceInv'
  <2>1. free' \subseteq Text
    BY <1>1, <1>2, ReleasedIs, BytesAre
  <2> QED BY <1>3, <2>1 DEF IInv, SpaceInv
<1>5. MarksInv'
  BY DEF IInv, MarksInv, FindPinnedInsnAtAddr
<1>6. PinsInv'
  <2>1. ASSUME NEW v \in two_byte_pins \ {up} PROVE PinInv(v)'
    <3>1. PinInv(v)
      BY PinIs
    <3>2. v \in todo' <=> v \in todo
      OBVIOUS
    <3> QED BY <3>1, <3>2 DEF PinInv, Shielded, AtHome, Moved, Slot, InSled, RangeOf
  <2>2. \A u, v \in two_byte_pins' :
            u # v => {u.addr, u.addr + 1} \cap {v.addr, v.addr + 1} = {}
    BY DEF IInv, PinsInv
  <2> QED BY <1>1, <2>1, <2>2 DEF PinsInv
<1>7. SledsInv'
  BY DEF IInv, SledsInv, SledInv
<1> QED BY <1>3, <1>4, <1>5, <1>6, <1>7 DEF IInv

LEMMA FixInSledStep ==
    ASSUME IInv, phase = "fix", NEW up \in todo, todo' = todo \ {up},
           FixInSled(up) \/ FixIntoSled(up),
           UNCHANGED <<pins, patch_list, marks, AddrInSled, sleds, phase>>
    PROVE  IInv'
<1>1. up \in two_byte_pins
  BY DEF IInv, PinsInv
<1>2. Moved(up) /\ up \in TwoBytePins
  BY <1>1, PinIs DEF PinInv
<1>3. ~ Double(up)
  BY <1>1, <1>2, ReleasedIs DEF Double
<1>4. disp' \in [Addr -> 0 .. LastByte] /\ aborted' = FALSE
  <2>1. CASE FixInSled(up)
    BY <1>3, <2>1 DEF FixInSled, IInv, SpaceInv
  <2>2. CASE FixIntoSled(up)
    <3>1. CanPatch(up.addr)
      BY <1>1, <2>2, JumpIsThere DEF FixIntoSled
    <3>2. aborted' = FALSE
      BY <1>3, <2>2, <3>1, Zenon DEF FixIntoSled
    <3>3. disp' \in [Addr -> 0 .. LastByte]
      BY <1>2, <2>2 DEF FixIntoSled, AtPin, TwoBytePins, IInv, SpaceInv
    <3> QED BY <3>2, <3>3
  <2> QED BY <2>1, <2>2
<1>5. /\ free' = free \cup Released(up) /\ two_byte_pins' = two_byte_pins \ {up}
      /\ UNCHANGED <<pins, mem, five_byte_pins, patch_list, PatchAtAddrs,
                     InsnSizeAtAddrs, AddrInSled, sleds, phase>>
  BY DEF FixInSled, FixIntoSled, marks
<1> QED BY <1>4, <1>5, FixGoneStep

Fixing == phase = "fix"

(* A jump is written to the slot: its bytes stay taken, and those that a   *)
(* sled has overrun were written before.                                   *)
LEMMA SlotIsWritten ==
    ASSUME IInv, Fixing, NEW up \in todo, todo' = todo \ {up},
           up.addr \notin AddrInSled, up.start \notin AddrInSled,
           NEW size \in JumpSize, NEW op \in JumpOp, up.end = up.start + size,
           free' = (free \cup Released(up)) \ RangeOf(up),
           mem' = Written(up.start, size, op), disp' = AtPin(up.addr, up.start),
           UNCHANGED <<pins, patch_list, PatchAtAddrs, InsnSizeAtAddrs, AddrInSled,
                       sleds, phase>>
    PROVE  /\ SpaceInv' /\ MarksInv' /\ free' = free
           /\ up \in two_byte_pins /\ Slot(up) /\ mem[up.start] = "none"
           /\ mem'[up.start] = op /\ \A b \in RangeOf(up) : mem'[b] # "none"
           /\ \A b \in Addr : b \notin RangeOf(up) => mem'[b] = mem[b]
           /\ \A v \in two_byte_pins : v # up => PinInv(v)'
<1>1. up \in two_byte_pins /\ todo \subseteq two_byte_pins
  BY DEF IInv, PinsInv, Fixing
<1>2. PinInv(up) /\ up \in TwoBytePins /\ up.start \in Nat /\ \A b \in RangeOf(up) : b \notin free
  BY <1>1, PinIs
<1>3. Moved(up) /\ Slot(up)
  <2>1. Moved(up)
    BY <1>2 DEF PinInv, Fixing
  <2> QED BY <2>1, <1>1, ReleasedIs
<1>4. /\ up.start \in RangeOf(up) /\ up.start \in Addr
      /\ \A b \in RangeOf(up) : b \in Addr /\ (b \in AddrInSled \/ mem[b] = "none")
  BY <1>1, <1>3, SlotIs
<1>5. mem[up.start] = "none"
  BY <1>4
<1>6. free' = free
  BY <1>2 DEF Released
<1>7. PICK a : a = up.start
  OBVIOUS
<1>8. RangeOf(up) = a .. a + size - 1
  BY <1>2, <1>7 DEF RangeOf, JumpSize
<1>9. /\ mem' \in [Addr -> Cells] /\ mem'[a] = op
      /\ \A b \in Addr : IF a <= b /\ b < a + size THEN mem'[b] # "none" ELSE mem'[b] = mem[b]
  <2>1. SpaceInv
    BY DEF IInv
  <2>2. a \in Int /\ a \in Addr
    BY <1>2, <1>4, <1>7
  <2>3. Writes(Written(a, size, op), a, size, op)
    BY <2>1, <2>2, WrittenIs, Zenon
  <2>4. mem' = Written(a, size, op)
    BY <1>7
  <2> QED BY <2>2, <2>3, <2>4 DEF Writes
<1>10. /\ \A b \in RangeOf(up) : mem'[b] # "none"
       /\ \A b \in Addr : b \notin RangeOf(up) => mem'[b] = mem[b]
  <2>1. \A b \in Addr : b \in Int
    BY <1>1, PinIs, BytesAre
  <2>2. \A b \in Addr : b \in a .. a + size - 1 <=> a <= b /\ b < a + size
    BY <2>1, <1>2, <1>7 DEF JumpSize
  <2> QED BY <2>2, <1>4, <1>8, <1>9
<1>11. \A b \in Addr : mem[b] # "none" => mem'[b] # "none"
  BY <1>10
<1>12. SpaceInv'
  <2>1. AddrInSled' \subseteq {b \in Addr : mem'[b] # "none"}
    BY <1>11, BytesAre
  <2>2. \A b \in Addr : mem'[b] # "none" => b \notin free'
    BY <1>2, <1>6, <1>10, BytesAre
  <2>3. disp' \in [Addr -> 0 .. LastByte]
    BY <1>2 DEF AtPin, TwoBytePins, IInv, SpaceInv
  <2> QED BY <2>1, <2>2, <2>3, <1>6, <1>9 DEF IInv, SpaceInv
<1>13. MarksInv'
  BY DEF IInv, MarksInv, FindPinnedInsnAtAddr, Fixing
<1>14. ASSUME NEW v \in two_byte_pins, v # up PROVE PinInv(v)'
  <2>1. PinInv(v) /\ v.addr \in Addr /\ v.addr + 1 \in Addr
    BY PinIs
  <2>2. mem'[v.addr] # "none" /\ mem'[v.addr + 1] # "none"
    BY <2>1, <1>11 DEF PinInv
  <2>3. v.addr \in AddrInSled \/ mem'[v.addr] = mem[v.addr]
    BY <2>1, <1>4, <1>10 DEF PinInv
  <2>4. ASSUME Slot(v) PROVE Slot(v)'
    <3>1. RangeOf(v) \cap RangeOf(up) \subseteq AddrInSled
      BY <1>1, <1>14 DEF IInv, BytesAreBusy
    <3>2. \A b \in RangeOf(v) : b \in Addr /\ (b \in AddrInSled \/ mem[b] = "none")
      BY <2>4, SlotIs
    <3>3. \A b \in RangeOf(v) : b \in AddrInSled \/ mem'[b] = "none"
      BY <3>1, <3>2, <1>10
    <3> QED BY <2>4, <3>3 DEF Slot, RangeOf
  <2>5. v \in todo' <=> v \in todo
    BY <1>14
  <2> QED BY <2>2, <2>3, <2>4, <2>5, PinKept
<1> QED BY <1>1, <1>3, <1>5, <1>6, <1>7, <1>9, <1>10, <1>12, <1>13, <1>14

LEMMA FixFiveStep ==
    ASSUME IInv, phase = "fix", NEW up \in todo, todo' = todo \ {up}, FixFive(up),
           UNCHANGED <<pins, patch_list, marks, AddrInSled, sleds, phase>>
    PROVE  IInv'
<1>1. up \in two_byte_pins /\ todo \subseteq two_byte_pins
  BY DEF IInv, PinsInv
<1>2. /\ up.addr \notin AddrInSled /\ up.start \notin AddrInSled
      /\ free' = (free \cup Released(up)) \ RangeOf(up)
      /\ mem' = Written(up.start, 5, "jmp32") /\ disp' = AtPin(up.addr, up.start)
      /\ five_byte_pins' = Assigned(five_byte_pins, up.insn, up.start)
      /\ two_byte_pins' = two_byte_pins \ {up}
      /\ UNCHANGED <<pins, patch_list, PatchAtAddrs, InsnSizeAtAddrs, AddrInSled, sleds, phase>>
  BY DEF FixFive, marks
<1>3. up.end = up.start + 5 /\ up.insn \in Insn /\ Moved(up)
  <2>1. up.start \in Nat /\ up.end \in Nat /\ PinInv(up)
    BY <1>1, PinIs
  <2>2. up.end - up.start = 5
    BY DEF FixFive
  <2> QED BY <2>1, <2>2 DEF PinInv, TwoBytePins
<1>4. 5 \in JumpSize /\ "jmp32" \in JumpOp
  BY DEF JumpSize, JumpOp
<1>5. /\ SpaceInv' /\ MarksInv' /\ free' = free /\ Slot(up)
      /\ \A v \in two_byte_pins : v # up => PinInv(v)'
  BY <1>2, <1>3, <1>4, SlotIsWritten, Zenon DEF Fixing
<1>6. aborted' = FALSE
  <2>1. ~ Double(up)
    BY <1>1, <1>3, ReleasedIs DEF Double
  <2>2. CanPatch(up.addr)
    BY <1>1, <1>2, JumpIsThere
  <2> QED BY <2>1, <2>2, Zenon DEF FixFive
<1>7. PinsInv'
  <2>1. \A u, v \in two_byte_pins' :
            u # v => {u.addr, u.addr + 1} \cap {v.addr, v.addr + 1} = {}
    BY <1>2 DEF IInv, PinsInv
  <2> QED BY <1>1, <1>2, <1>5, <2>1 DEF PinsInv
<1>8. SledsInv'
  <2>1. DOMAIN five_byte_pins' = DOMAIN five_byte_pins \cup {up.insn}
        /\ \A i \in DOMAIN five_byte_pins' :
              five_byte_pins'[i] = IF i = up.insn THEN up.start ELSE five_byte_pins[i]
    BY <1>2 DEF Assigned
  <2>2. up.start \in Addr
    BY <1>1, <1>5, SlotIs
  <2>3. \A i \in DOMAIN five_byte_pins' : (i.op = "sled" \/ i \in Insn) /\ five_byte_pins'[i] \in Addr
    BY <2>1, <2>2, <1>3 DEF IInv, SledsInv
  <2> QED BY <2>1, <2>3, <1>2 DEF IInv, SledsInv, SledInv
<1>9. BytesAreBusy'
  <2>1. \A v \in two_byte_pins' : \A b \in RangeOf(v) : b \notin free'
    BY <1>2, <1>5, PinIs
  <2>2. \A u, v \in two_byte_pins' : u # v => RangeOf(u) \cap RangeOf(v) \subseteq AddrInSled'
    BY <1>2 DEF IInv, BytesAreBusy
  <2> QED BY <2>1, <2>2, <1>5 DEF BytesAreBusy, TakenBytes, SpaceInv, RangeOf
<1> QED BY <1>2, <1>5, <1>6, <1>7, <1>8, <1>9 DEF IInv

(* The pin moves to its slot, where nothing was written: no sled begins at *)
(* its second byte without reaching its first.                             *)
LEMMA FixTwoStep ==
    ASSUME IInv, phase = "fix", NEW up \in todo, todo' = todo \ {up}, FixTwo(up),
           UNCHANGED <<pins, patch_list, marks, AddrInSled, sleds, phase>>
    PROVE  IInv'
<1> DEFINE new == [up EXCEPT !.addr = up.start]
<1>1. up \in two_byte_pins /\ todo \subseteq two_byte_pins
  BY DEF IInv, PinsInv
<1>2. /\ up.addr \notin AddrInSled /\ up.start \notin AddrInSled
      /\ free' = (free \cup Released(up)) \ RangeOf(up)
      /\ mem' = Written(up.start, 2, "jmp8") /\ disp' = AtPin(up.addr, up.start)
      /\ two_byte_pins' = (two_byte_pins \ {up}) \cup {new}
      /\ UNCHANGED <<pins, patch_list, PatchAtAddrs, InsnSizeAtAddrs, AddrInSled, sleds,
                     five_byte_pins, phase>>
  BY DEF FixTwo, marks
<1>3. PinInv(up) /\ up \in TwoBytePins /\ Moved(up) /\ Slot(up)
  <2>1. PinInv(up)
    BY <1>1, PinIs
  <2> QED BY <1>1, <1>2, <2>1, ReleasedIs DEF PinInv
<1>4. up.end = up.start + 2 /\ up.start \in Nat /\ up.start >= 1
  <2>1. up.end = up.start + 2 \/ up.end = up.start + 5
    BY <1>1, <1>3, SlotIs
  <2>2. up.end - up.start # 5 /\ up.start \in Text
    BY <1>1, <1>3, SlotIs DEF FixTwo
  <2>3. PICK a : a = up.start
    OBVIOUS
  <2>4. a \in Nat /\ a >= 1
    BY <2>2, <2>3, BytesAre
  <2> QED BY <2>1, <2>2, <2>3, <2>4
<1>5. 2 \in JumpSize /\ "jmp8" \in JumpOp
  BY DEF JumpSize, JumpOp
<1>6. /\ SpaceInv' /\ MarksInv' /\ free' = free /\ mem[up.start] = "none"
      /\ mem'[up.start] = "jmp8" /\ \A b \in RangeOf(up) : mem'[b] # "none"
      /\ \A v \in two_byte_pins : v # up => PinInv(v)'
  BY <1>2, <1>4, <1>5, SlotIsWritten, Zenon DEF Fixing
<1>7. RangeOf(up) = {up.start, up.start + 1} /\ up.start + 1 \in Addr /\ up.start \in Addr
      /\ mem[up.start + 1] = "none" /\ up.start \in Text
  <2>1. RangeOf(up) = {up.start, up.start + 1}
    BY <1>4 DEF RangeOf
  <2>2. /\ up.start \in Text
        /\ \A b \in RangeOf(up) : b \in Addr /\ (b \in AddrInSled \/ mem[b] = "none")
    BY <1>1, <1>3, SlotIs
  <2>3. up.start + 1 \notin AddrInSled
    BY <1>2, <1>3 DEF Slot
  <2> QED BY <2>1, <2>2, <2>3
<1>8. aborted' = FALSE
  <2>1. ~ Double(up)
    BY <1>1, <1>3, ReleasedIs DEF Double
  <2>2. CanPatch(up.addr)
    BY <1>1, <1>2, JumpIsThere
  <2>3. HasRange(up)
    BY <1>4 DEF HasRange
  <2>4. ~ \E a \in RangeOf(up) : mem[a] # "none"
    BY <1>6, <1>7
  <2> QED BY <2>1, <2>2, <2>3, <2>4, Zenon DEF FixTwo
<1>9. /\ new \in TwoBytePins /\ new.insn = up.insn /\ new.addr = up.start
      /\ new.start = up.start /\ new.end = up.end /\ RangeOf(new) = RangeOf(up)
  BY <1>3, <1>7 DEF TwoBytePins, RangeOf
<1> HIDE DEF new
<1>10. ASSUME NEW v \in two_byte_pins
       PROVE  {v.addr, v.addr + 1} \cap {up.start, up.start + 1} = {} /\ v # new
  <2>1. mem[v.addr] # "none" /\ mem[v.addr + 1] # "none"
    BY PinIs DEF PinInv
  <2>2. v.addr # up.start
    BY <2>1, <1>6
  <2> QED BY <2>1, <2>2, <1>6, <1>7, <1>9
<1>11. PinInv(new)'
  <2>1. new \notin todo'
    BY <1>1, <1>10
  <2>2. Shielded(new)'
    BY <1>2, <1>3, <1>9 DEF Slot, Shielded
  <2>3. mem'[up.start + 1] # "none"
    BY <1>6, <1>7
  <2> QED BY <2>1, <2>2, <2>3, <1>2, <1>3, <1>4, <1>6, <1>7, <1>9 DEF PinInv
<1>12. PinsInv'
  <2>1. \A u, v \in two_byte_pins' :
            u # v => {u.addr, u.addr + 1} \cap {v.addr, v.addr + 1} = {}
    BY <1>2, <1>9, <1>10 DEF IInv, PinsInv
  <2>2. todo' \subseteq two_byte_pins'
    BY <1>1, <1>2
  <2> QED BY <1>2, <1>6, <1>11, <2>1, <2>2 DEF PinsInv
<1>13. SledsInv'
  BY <1>2 DEF IInv, SledsInv, SledInv
<1>14. BytesAreBusy'
  <2>1. \A v \in two_byte_pins' : \A b \in RangeOf(v) : b \notin free'
    BY <1>1, <1>2, <1>6, <1>9, PinIs
  <2>2. \A u, v \in two_byte_pins' : u # v => RangeOf(u) \cap RangeOf(v) \subseteq AddrInSled'
    BY <1>1, <1>2, <1>9 DEF IInv, BytesAreBusy
  <2> QED BY <2>1, <2>2, <1>6 DEF BytesAreBusy, TakenBytes, SpaceInv, RangeOf
<1> QED BY <1>2, <1>6, <1>8, <1>12, <1>13, <1>14 DEF IInv

LEMMA Fix2BytePinnedStep ==
    ASSUME IInv, Fix2BytePinnedInstructions
    PROVE  IInv'
<1>1. phase = "fix" /\ UNCHANGED <<pins, patch_list, marks, AddrInSled, sleds, phase>>
  BY DEF Fix2BytePinnedInstructions
<1>2. PICK up \in todo :
         /\ todo' = todo \ {up}
         /\ FixInSled(up) \/ FixIntoSled(up) \/ FixFive(up) \/ FixTwo(up)
  BY Zenon DEF Fix2BytePinnedInstructions
<1>3. CASE FixInSled(up) \/ FixIntoSled(up)
  BY <1>1, <1>2, <1>3, FixInSledStep, Zenon
<1>4. CASE FixFive(up)
  BY <1>1, <1>2, <1>4, FixFiveStep, Zenon
<1>5. CASE FixTwo(up)
  BY <1>1, <1>2, <1>5, FixTwoStep, Zenon
<1> QED BY <1>2, <1>3, <1>4, <1>5, Zenon

-----------------------------------------------------------------------------
(* The last pass: what it writes, it takes.                                *)
LEMMA OptimizeStep ==
    ASSUME IInv, OptimizePinnedInstructions
    PROVE  IInv'
<1>1. phase = "optimize"
      /\ UNCHANGED <<pins, two_byte_pins, marks, AddrInSled, sleds, phase, aborted>>
  BY DEF OptimizePinnedInstructions
<1>2. PICK i \in todo :
         /\ todo' = todo \ {i}
         /\ IF five_byte_pins[i] \in AddrInSled
            THEN UNCHANGED <<space, patch_list, five_byte_pins>>
            ELSE LET a == five_byte_pins[i]
                 IN  /\ patch_list' = patch_list \cup {<<i, a>>}
                     /\ mem' = Written(a, 5, "jmp32")
                     /\ free' = free \ (a .. a + 4)
                     /\ five_byte_pins' = Restrict(five_byte_pins, DOMAIN five_byte_pins \ {i})
                     /\ UNCHANGED disp
  BY Zenon DEF OptimizePinnedInstructions
<1>3. /\ i \in DOMAIN five_byte_pins /\ todo \subseteq DOMAIN five_byte_pins
      /\ \A j \in DOMAIN five_byte_pins : (j.op = "sled" \/ j \in Insn) /\ five_byte_pins[j] \in Addr
  BY <1>1 DEF IInv, SledsInv
<1>4. two_byte_pins = {} /\ two_byte_pins' = {}
  BY <1>1 DEF IInv, PinsInv
<1>5. MarksInv'
  BY <1>1 DEF IInv, MarksInv, FindPinnedInsnAtAddr, marks
<1>6. PinsInv'
  BY <1>1, <1>4 DEF PinsInv
<1>7. aborted' = FALSE
  BY <1>1 DEF IInv
<1>8. CASE five_byte_pins[i] \in AddrInSled
  <2>1. UNCHANGED <<space, patch_list, five_byte_pins>>
    BY <1>2, <1>8
  <2>2. SpaceInv'
    BY <1>1, <2>1 DEF IInv, SpaceInv, space
  <2>3. SledsInv'
    BY <1>1, <1>2, <1>3, <2>1 DEF SledsInv
  <2>4. BytesAreBusy'
    BY <1>4, <2>2 DEF BytesAreBusy, TakenBytes, SpaceInv
  <2> QED BY <1>1, <1>5, <1>6, <1>7, <2>2, <2>3, <2>4 DEF IInv
<1>9. CASE five_byte_pins[i] \notin AddrInSled
  <2>1. PICK a : a = five_byte_pins[i]
    OBVIOUS
  <2>2. /\ mem' = Written(a, 5, "jmp32") /\ free' = free \ (a .. a + 4) /\ disp' = disp
        /\ five_byte_pins' = Restrict(five_byte_pins, DOMAIN five_byte_pins \ {i})
    BY <1>2, <1>9, <2>1, Zenon
  <2>3. a \in Int /\ \A b \in Addr : b \in Int
    BY <1>3, <2>1, BytesAre
  <2>4. Writes(Written(a, 5, "jmp32"), a, 5, "jmp32")
    <3>1. SpaceInv /\ 5 \in JumpSize /\ "jmp32" \in JumpOp
      BY DEF IInv, JumpSize, JumpOp
    <3> QED BY <3>1, <2>3, WrittenIs, Zenon
  <2>5. \A b \in Addr : b \in a .. a + 4 <=> a <= b /\ b < a + 5
    BY <2>3
  <2>6. /\ mem' \in [Addr -> Cells]
        /\ \A b \in Addr : IF b \in a .. a + 4 THEN mem'[b] # "none" ELSE mem'[b] = mem[b]
    BY <2>2, <2>4, <2>5 DEF Writes
  <2>7. SpaceInv'
    BY <1>1, <2>2, <2>6 DEF IInv, SpaceInv
  <2>8. SledsInv'
    <3>1. DOMAIN five_byte_pins' = DOMAIN five_byte_pins \ {i}
          /\ \A j \in DOMAIN five_byte_pins' : five_byte_pins'[j] = five_byte_pins[j]
      BY <2>2 DEF Restrict
    <3> QED BY <1>1, <1>2, <1>3, <3>1 DEF SledsInv
  <2>9. BytesAreBusy'
    BY <1>4, <2>7 DEF BytesAreBusy, TakenBytes, SpaceInv
  <2> QED BY <1>1, <1>5, <1>6, <1>7, <2>7, <2>8, <2>9 DEF IInv
<1> QED BY <1>8, <1>9

(* A pass is over: what it left of the pins is what the next one expects.  *)
LEMMA DoPinningStep ==
    ASSUME IInv, doPinning
    PROVE  IInv'
<1>1. /\ todo = {} /\ phase # "done" /\ phase' = NextPhase
      /\ todo' = IF NextPhase = "optimize" THEN DOMAIN five_byte_pins ELSE two_byte_pins
      /\ UNCHANGED <<pins, space, two_byte_pins, five_byte_pins, patch_list, marks,
                     AddrInSled, sleds, aborted>>
  BY DEF doPinning
<1>2. \/ phase = "reserve" /\ phase' = "first reserve"
      \/ phase = "first reserve" /\ phase' = "expand"
      \/ phase = "expand" /\ phase' = "fix" /\ two_byte_pins # {}
      \/ phase \in {"expand", "fix"} /\ phase' = "optimize" /\ two_byte_pins = {}
      \/ phase = "fix" /\ phase' = "reserve again" /\ two_byte_pins # {}
      \/ phase = "reserve again" /\ phase' = "fix"
      \/ phase = "optimize" /\ phase' = "done"
  BY <1>1 DEF NextPhase, IInv
<1>3. todo' = IF phase' = "optimize" THEN DOMAIN five_byte_pins ELSE two_byte_pins
  BY <1>1
<1>4. SpaceInv' /\ aborted' = FALSE
  BY <1>1 DEF IInv, SpaceInv, space
<1>5. MarksInv'
  BY <1>1, <1>2 DEF IInv, MarksInv, FindPinnedInsnAtAddr, marks
<1>6. ASSUME NEW up \in two_byte_pins PROVE PinInv(up)'
  <2>1. PinInv(up) /\ up \notin todo
    BY <1>1, PinIs
  <2>2. /\ AtHome(up)' <=> AtHome(up)
        /\ Moved(up)' <=> Moved(up)
        /\ Shielded(up)' <=> Shielded(up)
    BY <1>1 DEF AtHome, Moved, Slot, InSled, RangeOf, Shielded, space, marks
  <2>3. /\ phase = "reserve" => AtHome(up)
        /\ phase \in {"first reserve", "reserve again", "expand"} => Moved(up)
        /\ phase = "fix" => AtHome(up)
    BY <2>1 DEF PinInv, AtHome
  <2>4. phase' # "optimize" => up \in todo'
    BY <1>3
  <2>5. /\ up \in TwoBytePins /\ up.insn # Null /\ up.addr \in Text /\ up.addr + 1 \in Addr
        /\ mem'[up.addr] # "none" /\ mem'[up.addr + 1] # "none"
        /\ up.addr \in AddrInSled' \/ mem'[up.addr] = "jmp8"
        /\ Shielded(up)'
    BY <1>1, <2>1, <2>2 DEF PinInv, space
  <2>6. /\ phase' # "reserve"
        /\ phase' \in {"first reserve", "reserve again"} => AtHome(up)'
        /\ phase' \in {"expand", "fix"} => Moved(up)'
    BY <1>2, <2>2, <2>3
  <2> QED BY <2>4, <2>5, <2>6 DEF PinInv
<1>7. PinsInv'
  <2>1. \A u, v \in two_byte_pins' :
            u # v => {u.addr, u.addr + 1} \cap {v.addr, v.addr + 1} = {}
    BY <1>1 DEF IInv, PinsInv
  <2>2. phase' \in {"optimize", "done"} => two_byte_pins' = {}
    BY <1>1, <1>2 DEF IInv, PinsInv
  <2> QED BY <1>1, <1>3, <1>6, <2>1, <2>2 DEF PinsInv
<1>8. SledsInv'
  <2>1. phase' \notin {"optimize", "done"} => phase \notin {"optimize", "done"}
    BY <1>2
  <2>2. \A old \in sleds : SledInv(old)' <=> SledInv(old)
    BY <1>1 DEF SledInv
  <2> QED BY <1>1, <1>3, <2>1, <2>2 DEF IInv, SledsInv
<1>9. BytesAreBusy'
  BY <1>1 DEF IInv, BytesAreBusy, TakenBytes, RangeOf, space
<1>10. phase' \in {"reserve", "first reserve", "expand", "fix", "reserve again",
                   "optimize", "done"}
  BY <1>2
<1> QED BY <1>4, <1>5, <1>7, <1>8, <1>9, <1>10, Zenon DEF IInv

-----------------------------------------------------------------------------
LEMMA InitIs ==
    ASSUME Init
    PROVE  IInv
<1>1. /\ pins # {} /\ pins \subseteq PinAddr /\ free = Text
      /\ mem = [a \in Addr |-> "none"] /\ disp = [a \in Addr |-> 0]
      /\ two_byte_pins = {} /\ AddrInSled = {} /\ sleds = {}
      /\ phase = "reserve" /\ todo = pins /\ aborted = FALSE
      /\ InsnSizeAtAddrs = [a \in pins |-> [insn |-> Original(a), size |-> 2]]
  BY DEF Init
<1>2. DOMAIN PatchAtAddrs = {} /\ DOMAIN five_byte_pins = {}
  <2>1. DOMAIN <<>> = {}
    OBVIOUS
  <2> QED BY <2>1 DEF Init
<1>3. LastByte \in Nat
  <2>1. Text # {}
    BY <1>1, TextAssumption
  <2> QED BY <2>1, TextIs
<1>4. SpaceInv
  <2>1. mem \in [Addr -> Cells] /\ disp \in [Addr -> 0 .. LastByte]
    BY <1>1, <1>3 DEF Cells
  <2> QED BY <1>1, <2>1 DEF SpaceInv
<1>5. MarksInv
  <2>1. \A a \in pins : FindPinnedInsnAtAddr(a) # Null
    BY <1>1 DEF FindPinnedInsnAtAddr, Original, Null
  <2> QED BY <1>1, <1>2, <2>1, TextAssumption DEF MarksInv
<1>6. PinsInv
  BY <1>1 DEF PinsInv
<1>7. SledsInv
  BY <1>1, <1>2 DEF SledsInv
<1>8. BytesAreBusy
  BY <1>1 DEF BytesAreBusy, TakenBytes
<1> QED BY <1>1, <1>4, <1>5, <1>6, <1>7, <1>8 DEF IInv

(* Laying a sled sets the flag, whichever way it goes.                     *)
LEMMA SledAborts ==
    ASSUME NEW s, NEW P, Do68Sled(s, P)
    PROVE  aborted' \in BOOLEAN
<1>1. PICK e : \/ NewSled(s, e, P)
               \/ Update68Sled(s, e, FirstOverlapped(s, e), P)
  BY Zenon DEF Do68Sled
<1>2. CASE NewSled(s, e, P)
  <2>1. aborted' = (e - s <= 2)
    BY <1>2 DEF NewSled
  <2> QED BY <2>1
<1>3. CASE Update68Sled(s, e, FirstOverlapped(s, e), P)
  <2>1. aborted' = (e - s <= 2 \/ s > FirstOverlapped(s, e).start)
    BY <1>3 DEF Update68Sled
  <2> QED BY <2>1
<1> QED BY <1>1, <1>2, <1>3

LEMMA ReserveStepIs ==
    ASSUME IInv, ReservePinnedInstructions
    PROVE  aborted' = TRUE \/ IInv'
<1>1. phase = "reserve" /\ todo # {} /\ UNCHANGED <<pins, disp, patch_list, marks, phase>>
  BY DEF ReservePinnedInstructions
<1>2. PICK a : a = Min(todo)
  OBVIOUS
<1>3. a \in todo
  <2>1. todo \in SUBSET Nat /\ todo # {}
    BY <1>1, TextAssumption DEF IInv, MarksInv, SpaceInv
  <2> QED BY <1>2, <2>1, MinIs
<1>4. ReserveJump(a) \/ ReservePush(a) \/ ReserveSled(a)
  BY <1>2 DEF ReservePinnedInstructions
<1>5. aborted' \in BOOLEAN
  <2>1. CASE ReserveJump(a)
    BY <2>1 DEF ReserveJump
  <2>2. CASE ReservePush(a)
    BY <2>2 DEF ReservePush
  <2>3. CASE ReserveSled(a)
    BY <2>3, SledAborts DEF ReserveSled
  <2> QED BY <1>4, <2>1, <2>2, <2>3
<1>6. CASE aborted' = FALSE
  BY <1>1, <1>3, <1>4, <1>6, ReserveJumpStep, ReservePushStep, ReserveSledStep, Zenon
<1> QED BY <1>5, <1>6

LEMMA PreReserveStepIs ==
    ASSUME IInv, PreReserve2ByteJumpTargets
    PROVE  aborted' = TRUE \/ IInv'
<1>1. aborted' \in BOOLEAN
  <2>1. PICK up \in todo :
           \/ ReserveFive(up) \/ ReserveTwo(up) \/ EmergencySled(up)
           \/ ForgetInSled(up) /\ UNCHANGED <<free, mem, AddrInSled, sleds,
                                      five_byte_pins, PatchAtAddrs, aborted>>
    BY Zenon DEF PreReserve2ByteJumpTargets
  <2>2. CASE EmergencySled(up)
    BY <2>2, SledAborts DEF EmergencySled
  <2>3. CASE aborted' = aborted
    BY <2>3 DEF IInv
  <2> QED BY <2>1, <2>2, <2>3 DEF ReserveFive, ReserveTwo, Reserve
<1>2. CASE aborted' = FALSE
  BY <1>2, PreReserveStep
<1> QED BY <1>1, <1>2

LEMMA NextStep ==
    ASSUME IInv, Next
    PROVE  IInv' \/ (aborted' = TRUE /\ phase \in {"reserve", "first reserve", "reserve again"})
<1>1. CASE ReservePinnedInstructions
  BY <1>1, ReserveStepIs DEF ReservePinnedInstructions
<1>2. CASE PreReserve2ByteJumpTargets
  BY <1>2, PreReserveStepIs DEF PreReserve2ByteJumpTargets
<1>3. CASE ExpandPinnedInstructions
  BY <1>3, ExpandPinnedStep
<1>4. CASE Fix2BytePinnedInstructions
  BY <1>4, Fix2BytePinnedStep
<1>5. CASE OptimizePinnedInstructions
  BY <1>5, OptimizeStep
<1>6. CASE doPinning
  BY <1>6, DoPinningStep
<1> QED BY <1>1, <1>2, <1>3, <1>4, <1>5, <1>6 DEF Next

LEMMA StutterStep ==
    ASSUME IInv, UNCHANGED vars
    PROVE  IInv'
<1>1. UNCHANGED <<pins, free, mem, disp, two_byte_pins, five_byte_pins, patch_list,
                  PatchAtAddrs, InsnSizeAtAddrs, AddrInSled, sleds, phase, todo, aborted>>
  BY DEF vars, space, marks
<1>2. SpaceInv' /\ MarksInv'
  BY <1>1 DEF IInv, SpaceInv, MarksInv, FindPinnedInsnAtAddr
<1>3. PinsInv'
  <2>1. \A up \in two_byte_pins : PinInv(up)' <=> PinInv(up)
    BY <1>1 DEF PinInv, Shielded, AtHome, Moved, Slot, InSled, RangeOf
  <2> QED BY <1>1, <2>1 DEF IInv, PinsInv
<1>4. SledsInv'
  <2>1. \A old \in sleds : SledInv(old)' <=> SledInv(old)
    BY <1>1 DEF SledInv
  <2> QED BY <1>1, <2>1 DEF IInv, SledsInv
<1>5. BytesAreBusy'
  BY <1>1 DEF IInv, BytesAreBusy, TakenBytes, RangeOf
<1> QED BY <1>1, <1>2, <1>3, <1>4, <1>5 DEF IInv

(* The invariant holds until an assert fails, which is the last step.      *)
KInv == IInv \/ aborted = TRUE

LEMMA KInvStep == KInv /\ [Next]_vars => KInv'
<1> SUFFICES ASSUME KInv, [Next]_vars PROVE KInv'
  OBVIOUS
<1>1. CASE IInv /\ Next
  BY <1>1, NextStep DEF KInv
<1>2. CASE IInv /\ UNCHANGED vars
  BY <1>2, StutterStep DEF KInv
<1>3. CASE aborted = TRUE
  <2>1. ~ Next
    BY <1>3 DEF Next
  <2>2. aborted' = aborted
    BY <2>1 DEF vars
  <2> QED BY <2>2, <1>3 DEF KInv
<1> QED BY <1>1, <1>2, <1>3 DEF KInv

LEMMA TypeFollows ==
    ASSUME IInv
    PROVE  TakenIsBusy
<1>1. /\ LastByte \in Nat /\ Addr = 1 .. LastByte /\ \A a \in Text : a \in Addr
  BY BytesAre
<1>2. ASSUME NEW up \in two_byte_pins PROVE up \in TwoBytePins /\ up.end - up.start \in {0, 2, 5}
  <2>1. PinInv(up) /\ up.start \in Nat /\ up.end \in Nat /\ up.addr \in Nat
    BY PinIs
  <2>2. AtHome(up) \/ Slot(up)
    <3>1. phase \notin {"optimize", "done"}
      BY DEF IInv, PinsInv
    <3> QED BY <2>1, <3>1 DEF IInv, PinInv, Moved, AtHome
  <2>3. CASE AtHome(up)
    <3>1. up.end = up.start + 2 \/ up.end = up.start
      BY <2>3 DEF AtHome
    <3>2. up.end - up.start \in {0, 2, 5}
      BY <2>1, <3>1
    <3> QED BY <2>1, <3>2 DEF PinInv
  <2>4. CASE Slot(up)
    BY <2>1, <2>4 DEF PinInv, Slot
  <2> QED BY <2>2, <2>3, <2>4
<1>3. TypeOK
  <2>1. pins \subseteq PinAddr /\ free \subseteq Addr /\ mem \in [Addr -> Cells]
        /\ disp \in [Addr -> 0 .. LastByte] /\ AddrInSled \subseteq Addr
    BY <1>1 DEF IInv, SpaceInv
  <2>2. two_byte_pins \subseteq TwoBytePins
        /\ \A up \in two_byte_pins : up.end - up.start \in {0, 2, 5}
    BY <1>2
  <2>3. \A i \in DOMAIN five_byte_pins : (i.op = "sled" \/ i \in Insn) /\ five_byte_pins[i] \in Addr
    BY DEF IInv, SledsInv
  <2>4. DOMAIN PatchAtAddrs \subseteq Addr /\ DOMAIN InsnSizeAtAddrs \subseteq Addr
    BY <1>1 DEF IInv, MarksInv
  <2>5. aborted \in BOOLEAN
        /\ phase \in {"reserve", "first reserve", "expand", "fix", "reserve again",
                      "optimize", "done"}
    BY DEF IInv
  <2> QED BY <2>1, <2>2, <2>3, <2>4, <2>5 DEF TypeOK, Cells
<1>4. ~ aborted /\ BytesAreBusy
  BY DEF IInv
<1> QED BY <1>3, <1>4 DEF TakenIsBusy

(* As long as no assert of the pinner or of the memory space has failed,   *)
(* memory that holds a jump, a sled or a reserved slot is not free, and    *)
(* two slots share no byte outside sleds, so a slot that is given back     *)
(* takes nothing from another pin (ReservePinnedInstructions to            *)
(* OptimizePinnedInstructions).                                            *)
THEOREM BusyUnlessAborted == Spec => [](aborted \/ TakenIsBusy)
<1>1. Init => KInv
  BY InitIs DEF KInv
<1>2. KInv /\ [Next]_vars => KInv'
  BY KInvStep
<1>3. KInv => aborted \/ TakenIsBusy
  BY TypeFollows DEF KInv
<1> QED BY <1>1, <1>2, <1>3, PTL DEF Spec

(* Only a pass that reserves can fail an assert: no slot is given back     *)
(* twice or unmarked by ExpandPinnedInstructions, and when                 *)
(* Fix2BytePinnedInstructions comes to a pin its jump is there to be       *)
(* patched, and its slot to be written.                                    *)
THEOREM OnlyReservingAborts ==
    Spec => [][aborted' => phase \in {"reserve", "first reserve", "reserve again"}
                           \/ aborted]_vars
<1>1. Init => KInv
  BY InitIs DEF KInv
<1>2. KInv /\ [Next]_vars => KInv'
  BY KInvStep
<1>3. KInv /\ [Next]_vars =>
         [aborted' => phase \in {"reserve", "first reserve", "reserve again"}
                      \/ aborted]_vars
  <2> SUFFICES ASSUME KInv, Next, aborted', ~ aborted
               PROVE  phase \in {"reserve", "first reserve", "reserve again"}
    OBVIOUS
  <2>1. IInv
    BY DEF KInv
  <2>2. ~ IInv'
    BY DEF IInv
  <2> QED BY <2>1, <2>2, NextStep
<1> QED BY <1>1, <1>2, <1>3, PTL DEF Spec

=============================================================================
