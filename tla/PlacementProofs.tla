--------------------------- MODULE PlacementProofs ---------------------------
(***************************************************************************)
(* What TLAPS proves about Placement, for every program, pinning and plan  *)
(* the assumptions of Placement admit: nothing that is placed is put over  *)
(* anything else, nothing that has to be placed is forgotten, and no       *)
(* assertion of the phase fails.                                           *)
(***************************************************************************)
EXTENDS Placement, TLAPS

(* Where the loop stands.  At "dollop" the first entry is next; at         *)
(* "entries" it is, or some entry behind the ones already placed.          *)
Placing  == pc \in {"dollop", "entries"}
CursorOK ==
    /\ pc \in {"dollop", "entries", "reserve"} => cur \in Locals /\ cur.start <= cur.addr
    /\ pc = "dollop" => cur.entry = cur.dollop
    /\ Placing => /\ cur.dollop \in fronts
                  /\ cur.entry # cur.dollop => Placed(cur.dollop)
                  /\ cur.entry # None => ~ Placed(cur.entry)
                  /\ cur.entry \in fronts => cur.entry = cur.dollop

ProgramOK ==
    /\ prog \in Programs
    /\ prog.fronts \subseteq fronts
    /\ patch_list \subseteq PinsOf(prog)

(* The plugin still has the bytes of its answer about a dollop that has    *)
(* not been started.                                                       *)
Waiting(h)  == ~ Placed(h) /\ ~ (Placing /\ cur.dollop = h)
WithPlugins == Running => \A h \in Insn : Waiting(h) => Handed(prog, h) \cap free = {}

Apart ==
    Running /\ Claimed \subseteq free =>
        /\ \A x, y \in Things : x # y => BytesOf(x) \cap BytesOf(y) = {}
        /\ \A x \in Things : BytesOf(x) \cap (free \ Claimed) = {}
        /\ \A x \in Things, h \in Insn : Waiting(h) => Handed(prog, h) \cap BytesOf(x) = {}

Wanted(i) == Pinned(i) \/ i \in prog.referenced
             \/ \E j \in Insn : Placed(j) /\ prog.target[j] = i
Remembered ==
    Running => \A i \in Insn :
        Wanted(i) => Placed(i) \/ i \in placement_queue \/ (Placing /\ cur.dollop = i)

(* An entry that starts no dollop is placed after the one in front of it.  *)
InOrder == \A i \in Insn : Placed(i) /\ i \notin fronts =>
               \E j \in Insn : prog.ft[j] = i /\ Placed(j)

AllAligned == \A i \in Insn : Placed(i) /\ prog.ibta[i] = 0 => Aligned(i)

(* The first entry of an unpinned target will be where it should.          *)
AlignedNext ==
    Placing /\ cur.entry = cur.dollop /\ prog.ibta[cur.dollop] = 0 =>
        \/ cur.addr % UNPIN_ALIGNMENT = 0
        \/ Addressed(cur.dollop)
        \/ \E j \in Insn : /\ prog.ft[j] = cur.dollop
                          /\ prog.function[cur.dollop] = prog.function[j]
                          /\ Placed(j) /\ cur.addr = place[j] + prog.size[j]

(* D are the entries of the current dollop that are placed, j the last of  *)
(* them.                                                                   *)
LaidDown(D, j) ==
    /\ j \in D /\ cur.dollop \in D
    /\ \A k \in D : Placed(k) /\ (k # j => NextEntry(k) \in D)
    /\ NextEntry(j) = cur.entry
    /\ cur.addr = place[j] + prog.size[j]
LaidInARow ==
    pc = "entries" /\ cur.entry # cur.dollop =>
        \E D \in SUBSET Insn : \E j \in D : LaidDown(D, j)

IInv == TypeOK /\ CursorOK /\ ProgramOK /\ WithPlugins /\ Apart /\ Remembered
        /\ InOrder /\ AllAligned /\ AlignedNext /\ LaidInARow

-----------------------------------------------------------------------------
(* back: following entries that come to an end.                            *)

EndsAt(N, D, v) == v \in D /\ N[v] = None /\ \A k \in D : k # v => N[k] \in D
NoCircle(N)     == \A S \in (SUBSET Insn) \ {{}} : \E i \in S : N[i] \notin S
Follows(N, f)   == f = [i \in Insn |-> IF N[i] = None THEN i ELSE f[N[i]]]

(* From every entry the fallthroughs lead to an end.                       *)
LEMMA EndExists ==
    ASSUME NEW N \in [Insn -> OrNone(Insn)], NoCircle(N), NEW i \in Insn
    PROVE  \E D \in SUBSET Insn : \E v \in D : i \in D /\ EndsAt(N, D, v)
<1> DEFINE Good(j) == \E D \in SUBSET Insn : \E v \in D : j \in D /\ EndsAt(N, D, v)
           S == {j \in Insn : ~ Good(j)}
<1>1. SUFFICES ASSUME S # {} PROVE FALSE
  OBVIOUS
<1>2. PICK j \in S : N[j] \notin S
  BY <1>1 DEF NoCircle
<1>3. CASE N[j] = None
  <2>1. {j} \in SUBSET Insn /\ EndsAt(N, {j}, j)
    BY <1>3 DEF EndsAt
  <2> QED BY <2>1
<1>4. CASE N[j] # None
  <2>1. N[j] \in Insn /\ Good(N[j])
    BY <1>2, <1>4 DEF OrNone
  <2>2. PICK D \in SUBSET Insn : \E v \in D : N[j] \in D /\ EndsAt(N, D, v)
    BY <2>1
  <2>3. PICK v \in D : N[j] \in D /\ EndsAt(N, D, v)
    BY <2>2
  <2>4. D \cup {j} \in SUBSET Insn /\ v \in D \cup {j} /\ EndsAt(N, D \cup {j}, v)
    BY <2>3 DEF EndsAt
  <2> QED BY <2>4
<1> QED BY <1>3, <1>4

(* They lead to one end only.                                              *)
LEMMA EndIsUnique ==
    ASSUME NEW N \in [Insn -> OrNone(Insn)], NoCircle(N), NoneAssumption,
           NEW D \in SUBSET Insn, NEW E \in SUBSET Insn, NEW v, NEW w,
           EndsAt(N, D, v), EndsAt(N, E, w), NEW i \in D \cap E
    PROVE  v = w
<1> SUFFICES ASSUME v # w PROVE FALSE
  OBVIOUS
<1>1. \A k \in D \cap E : N[k] \in D \cap E
  BY NoneAssumption DEF EndsAt
<1> QED BY <1>1 DEF NoCircle

(* The recursive definition has a solution.                                *)
LEMMA EndsDefined ==
    ASSUME NEW N \in [Insn -> OrNone(Insn)], NoCircle(N)
    PROVE  \E f : Follows(N, f)
<1> DEFINE Leads(i, v) == \E D \in SUBSET Insn : i \in D /\ EndsAt(N, D, v)
           f == [i \in Insn |-> CHOOSE v \in Insn : Leads(i, v)]
<1>1. ASSUME NEW i \in Insn, NEW v \in Insn, Leads(i, v)
      PROVE  f[i] = v
  <2>1. f[i] \in Insn /\ Leads(i, f[i])
    BY <1>1
  <2> QED BY <2>1, <1>1, EndIsUnique, NoneAssumption
<1>2. ASSUME NEW i \in Insn, N[i] = None PROVE f[i] = i
  <2>1. {i} \in SUBSET Insn /\ EndsAt(N, {i}, i)
    BY <1>2 DEF EndsAt
  <2> QED BY <2>1, <1>1
<1>3. ASSUME NEW i \in Insn, N[i] # None PROVE f[i] = f[N[i]]
  <2>1. N[i] \in Insn
    BY <1>3 DEF OrNone
  <2>2. PICK D \in SUBSET Insn : \E v \in D : N[i] \in D /\ EndsAt(N, D, v)
    BY <2>1, EndExists
  <2>3. PICK v \in D : N[i] \in D /\ EndsAt(N, D, v)
    BY <2>2
  <2>4. Leads(N[i], v)
    BY <2>3
  <2>5. D \cup {i} \in SUBSET Insn /\ EndsAt(N, D \cup {i}, v)
    BY <2>3 DEF EndsAt
  <2>6. Leads(i, v)
    BY <2>5
  <2> QED BY <2>1, <2>3, <2>4, <2>6, <1>1
<1>4. Follows(N, f)
  <2>1. f \in [Insn -> Insn]
    <3>1. ASSUME NEW i \in Insn PROVE \E v \in Insn : Leads(i, v)
      BY EndExists
    <3> HIDE DEF Leads
    <3> QED BY <3>1
  <2> HIDE DEF f
  <2>2. \A i \in Insn : f[i] = IF N[i] = None THEN i ELSE f[N[i]]
    BY <1>2, <1>3
  <2> QED BY <2>1, <2>2 DEF Follows
<1> QED BY <1>4

(* Every solution gives the end.                                           *)
LEMMA EndIs ==
    ASSUME NEW N \in [Insn -> OrNone(Insn)], NoCircle(N), NEW f, Follows(N, f),
           NEW D \in SUBSET Insn, NEW v, EndsAt(N, D, v), NEW h \in D
    PROVE  f[h] = v
<1> DEFINE S == {k \in D : f[k] # v}
<1>1. SUFFICES ASSUME S # {} PROVE FALSE
  OBVIOUS
<1>2. \A i \in Insn : f[i] = IF N[i] = None THEN i ELSE f[N[i]]
  BY DEF Follows
<1>3. PICK i \in S : N[i] \notin S
  BY <1>1 DEF NoCircle
<1>4. i # v /\ N[i] \in D
  BY <1>2, <1>3 DEF EndsAt
<1>5. f[N[i]] = v /\ N[i] # None
  BY <1>3, <1>4, NoneAssumption
<1> QED BY <1>2, <1>3, <1>5

EntryAfter == [i \in Insn |-> NextEntry(i)]

LEMMA EntryAfterOK ==
    ASSUME prog \in Programs, prog.fronts \subseteq fronts
    PROVE  EntryAfter \in [Insn -> OrNone(Insn)] /\ NoCircle(EntryAfter)
<1>1. Typed(prog) /\ DollopsAreChains(prog)
  BY ProgramsAssumption
<1>2. \A i \in Insn : EntryAfter[i] \in OrNone(Insn)
  BY <1>1 DEF Typed, EntryAfter, NextEntry, OrNone
<1>3. ASSUME NEW S \in (SUBSET Insn) \ {{}} PROVE \E i \in S : EntryAfter[i] \notin S
  <2>1. PICK i \in S : prog.ft[i] \notin S \/ prog.ft[i] \in prog.fronts
    BY <1>1 DEF DollopsAreChains
  <2>2. EntryAfter[i] \in {None, prog.ft[i]} /\ (prog.ft[i] \in prog.fronts => EntryAfter[i] = None)
    BY DEF EntryAfter, NextEntry
  <2> QED BY <2>1, <2>2, NoneAssumption
<1> QED BY <1>2, <1>3 DEF NoCircle, EntryAfter

LEMMA BackIs ==
    ASSUME prog \in Programs, prog.fronts \subseteq fronts,
           NEW D \in SUBSET Insn, NEW v, EndsAt(EntryAfter, D, v), NEW h \in D
    PROVE  back(h) = v
<1> DEFINE last == CHOOSE f : f = [i \in Insn |-> IF NextEntry(i) = None THEN i
                                                  ELSE f[NextEntry(i)]]
<1>1. \A f : Follows(EntryAfter, f)
          <=> f = [i \in Insn |-> IF NextEntry(i) = None THEN i ELSE f[NextEntry(i)]]
  BY DEF Follows, EntryAfter
<1>2. \E f : Follows(EntryAfter, f)
  BY EntryAfterOK, EndsDefined
<1>3. Follows(EntryAfter, last)
  BY <1>1, <1>2
<1>4. last[h] = v
  <2> HIDE DEF last
  <2> QED BY <1>3, EndIs, EntryAfterOK
<1> QED BY <1>4 DEF back

(* The dollop of an instruction ends, and what its end falls through to    *)
(* starts a dollop.                                                        *)
LEMMA BackOK ==
    ASSUME prog \in Programs, prog.fronts \subseteq fronts, NEW h \in Insn
    PROVE  /\ back(h) \in Insn /\ NextEntry(back(h)) = None
           /\ FallthroughDollop(h) \in OrNone(fronts)
<1>1. PICK D \in SUBSET Insn : \E v \in D : h \in D /\ EndsAt(EntryAfter, D, v)
  BY EndExists, EntryAfterOK
<1>2. PICK v \in D : h \in D /\ EndsAt(EntryAfter, D, v)
  BY <1>1
<1>3. back(h) = v
  BY <1>2, BackIs
<1>4. v \in Insn /\ NextEntry(v) = None
  BY <1>2 DEF EndsAt, EntryAfter
<1> QED BY <1>3, <1>4 DEF FallthroughDollop, NextEntry, OrNone

-----------------------------------------------------------------------------
(* Sizes are sums along fallthroughs, N: of the entries of a dollop, and   *)
(* of the dollops of a chain.                                              *)

Sums(N, a, f) == f = [i \in Insn |-> a[i] + IF N[i] = None THEN 0 ELSE f[N[i]]]

(* A sum over a part of the instructions that is closed under N.           *)
SumsOn(N, a, D, g) ==
    /\ g \in [D -> Int]
    /\ \A k \in D : N[k] # None => N[k] \in D
    /\ \A k \in D : g[k] = a[k] + IF N[k] = None THEN 0 ELSE g[N[k]]

SumIs(N, a, i, v) ==
    \E D \in SUBSET Insn : i \in D /\ \E g \in [D -> Int] : SumsOn(N, a, D, g) /\ g[i] = v

(* From every instruction there is a sum.                                  *)
LEMMA SumExists ==
    ASSUME NEW N \in [Insn -> OrNone(Insn)], NoCircle(N), NEW a \in [Insn -> Int],
           NEW i \in Insn
    PROVE  \E v \in Int : SumIs(N, a, i, v)
<1> DEFINE S == {j \in Insn : ~ \E v \in Int : SumIs(N, a, j, v)}
<1>1. SUFFICES ASSUME S # {} PROVE FALSE
  OBVIOUS
<1>2. PICK j \in S : N[j] \notin S
  BY <1>1 DEF NoCircle
<1>3. CASE N[j] = None
  <2> DEFINE g == [k \in {j} |-> a[k]]
  <2>1. g \in [{j} -> Int] /\ SumsOn(N, a, {j}, g)
    BY <1>3 DEF SumsOn
  <2>2. SumIs(N, a, j, g[j]) /\ g[j] \in Int
    BY <2>1 DEF SumIs
  <2> QED BY <2>2
<1>4. CASE N[j] # None
  <2>1. N[j] \in Insn /\ \E v \in Int : SumIs(N, a, N[j], v)
    BY <1>2, <1>4 DEF OrNone
  <2>2. PICK D \in SUBSET Insn : N[j] \in D /\ \E g \in [D -> Int] : SumsOn(N, a, D, g)
    BY <2>1 DEF SumIs
  <2>3. PICK g \in [D -> Int] : SumsOn(N, a, D, g)
    BY <2>2
  <2>4. CASE j \in D
    <3>1. SumIs(N, a, j, g[j]) /\ g[j] \in Int
      BY <2>3, <2>4 DEF SumIs
    <3> QED BY <3>1
  <2>5. CASE j \notin D
    <3> DEFINE E == D \cup {j}
               g2 == [k \in E |-> IF k = j THEN a[j] + g[N[j]] ELSE g[k]]
    <3>1. g[N[j]] \in Int /\ a[j] \in Int
      BY <2>2
    <3>2. g2 \in [E -> Int]
      BY <3>1
    <3>3. \A k \in D : N[k] # None => N[k] \in D
      BY <2>3 DEF SumsOn
    <3>4. g2[j] = a[j] + g[N[j]] /\ \A k \in D : g2[k] = g[k]
      BY <2>5
    <3>5. \A k \in D : g[k] = a[k] + IF N[k] = None THEN 0 ELSE g[N[k]]
      BY <2>3 DEF SumsOn
    <3> HIDE DEF g2
    <3>6. SumsOn(N, a, E, g2)
      BY <3>2, <3>3, <3>4, <3>5, <2>2, <1>4 DEF SumsOn
    <3>7. E \in SUBSET Insn /\ j \in E /\ g2[j] \in Int
      BY <3>2
    <3>8. SumIs(N, a, j, g2[j])
      BY <3>2, <3>6, <3>7 DEF SumIs
    <3> QED BY <3>7, <3>8
  <2> QED BY <2>4, <2>5
<1> QED BY <1>3, <1>4

(* It is the only one.                                                     *)
LEMMA SumIsUnique ==
    ASSUME NEW N \in [Insn -> OrNone(Insn)], NoCircle(N), NEW a \in [Insn -> Int],
           NEW i \in Insn, NEW v, NEW w, SumIs(N, a, i, v), SumIs(N, a, i, w)
    PROVE  v = w
<1>1. PICK D \in SUBSET Insn : i \in D /\ \E g \in [D -> Int] : SumsOn(N, a, D, g) /\ g[i] = v
  BY DEF SumIs
<1>2. PICK g \in [D -> Int] : SumsOn(N, a, D, g) /\ g[i] = v
  BY <1>1
<1>3. PICK E \in SUBSET Insn : i \in E /\ \E h \in [E -> Int] : SumsOn(N, a, E, h) /\ h[i] = w
  BY DEF SumIs
<1>4. PICK h \in [E -> Int] : SumsOn(N, a, E, h) /\ h[i] = w
  BY <1>3
<1> DEFINE S == {k \in D \cap E : g[k] # h[k]}
<1>5. SUFFICES ASSUME S # {} PROVE FALSE
  BY <1>1, <1>2, <1>3, <1>4
<1>6. PICK k \in S : N[k] \notin S
  BY <1>5 DEF NoCircle
<1>7. /\ g[k] = a[k] + IF N[k] = None THEN 0 ELSE g[N[k]]
      /\ h[k] = a[k] + IF N[k] = None THEN 0 ELSE h[N[k]]
      /\ N[k] # None => N[k] \in D \cap E
  BY <1>2, <1>4, <1>6 DEF SumsOn
<1> QED BY <1>6, <1>7

LEMMA SumsDefined ==
    ASSUME NEW N \in [Insn -> OrNone(Insn)], NoCircle(N), NEW a \in [Insn -> Int]
    PROVE  \E f : Sums(N, a, f)
<1> DEFINE f == [i \in Insn |-> CHOOSE v \in Int : SumIs(N, a, i, v)]
<1>1. \A i \in Insn : f[i] \in Int /\ SumIs(N, a, i, f[i])
  BY SumExists
<1> HIDE DEF f
<1>2. ASSUME NEW i \in Insn PROVE f[i] = a[i] + IF N[i] = None THEN 0 ELSE f[N[i]]
  <2>1. PICK D \in SUBSET Insn : i \in D /\ \E g \in [D -> Int] : SumsOn(N, a, D, g) /\ g[i] = f[i]
    BY <1>1 DEF SumIs
  <2>2. PICK g \in [D -> Int] : SumsOn(N, a, D, g) /\ g[i] = f[i]
    BY <2>1
  <2>3. g[i] = a[i] + IF N[i] = None THEN 0 ELSE g[N[i]]
    BY <2>1, <2>2 DEF SumsOn
  <2>4. CASE N[i] = None
    BY <2>2, <2>3, <2>4
  <2>5. CASE N[i] # None
    <3>1. N[i] \in D /\ N[i] \in Insn
      BY <2>1, <2>2, <2>5 DEF SumsOn
    <3>2. SumIs(N, a, N[i], g[N[i]])
      BY <2>2, <3>1 DEF SumIs
    <3>3. f[N[i]] = g[N[i]]
      BY <1>1, <3>1, <3>2, SumIsUnique
    <3> QED BY <2>2, <2>3, <3>3, <2>5
  <2> QED BY <2>4, <2>5
<1>3. f = [i \in Insn |-> f[i]]
  BY DEF f
<1>4. Sums(N, a, f)
  BY <1>2, <1>3 DEF Sums
<1> QED BY <1>4

(* What a sum is: a function to integers.                                  *)
LEMMA SumsAre ==
    ASSUME NEW N \in [Insn -> OrNone(Insn)], NoCircle(N), NEW a \in [Insn -> Int],
           NEW f, Sums(N, a, f)
    PROVE  /\ f \in [Insn -> Int]
           /\ \A i \in Insn : f[i] = a[i] + IF N[i] = None THEN 0 ELSE f[N[i]]
<1>1. \A i \in Insn : f[i] = a[i] + IF N[i] = None THEN 0 ELSE f[N[i]]
  BY DEF Sums
<1> DEFINE S == {i \in Insn : f[i] \notin Int}
<1>2. ASSUME S # {} PROVE FALSE
  <2>1. PICK i \in S : N[i] \notin S
    BY <1>2 DEF NoCircle
  <2>2. N[i] # None => f[N[i]] \in Int
    BY <2>1 DEF OrNone
  <2> QED BY <1>1, <2>1, <2>2
<1>3. f = [i \in Insn |-> f[i]]
  BY <1>1 DEF Sums
<1> QED BY <1>1, <1>2, <1>3

-----------------------------------------------------------------------------
(* The sizes of Placement, as equations along the fallthroughs.            *)

(* What is left of the dollop from an entry on.                            *)
Rest(i) ==
    LET entries[j \in Insn] == prog.size[j] + IF NextEntry(j) = None THEN 0
                                              ELSE entries[NextEntry(j)]
    IN  IF i = None THEN 0 ELSE entries[i]

JumpOut(h) == IF FallthroughDollop(h) = None THEN 0 ELSE TRAMPOLINE_SIZE

EntrySizes  == [i \in Insn |-> prog.size[i]]
DollopAfter == [d \in Insn |-> FallthroughDollop(d)]

(* Where a chain is cut.                                                   *)
Stops(d) == ~ canCoalesce(d) \/ Placed(d)

RestEq(i) == Rest(i) = prog.size[i] + Rest(NextEntry(i))
BackEq(i) == back(i) = IF NextEntry(i) = None THEN i ELSE back(NextEntry(i))
SizeEq(d) == CalculateSize(d) = Rest(d) + IF d \in coalesced THEN 0 ELSE JumpOut(d)
ChainEq(d) ==
    SizeInclFallthrough(d) =
        CalculateSize(d) + IF Stops(d) THEN TRAMPOLINE_SIZE
                           ELSE IF FallthroughDollop(d) = None THEN 0
                           ELSE SizeInclFallthrough(FallthroughDollop(d)) - TRAMPOLINE_SIZE

(* back goes by the last entry of the dollop.                              *)
LEMMA BackAlong == ProgramOK => \A i \in Insn : BackEq(i)
<1> SUFFICES ASSUME ProgramOK, NEW i \in Insn PROVE BackEq(i)
  OBVIOUS
<1> DEFINE last == CHOOSE f : f = [j \in Insn |-> IF NextEntry(j) = None THEN j
                                                  ELSE f[NextEntry(j)]]
<1>1. \A f : Follows(EntryAfter, f)
          <=> f = [j \in Insn |-> IF NextEntry(j) = None THEN j ELSE f[NextEntry(j)]]
  BY DEF Follows, EntryAfter
<1>2. \E f : Follows(EntryAfter, f)
  BY EntryAfterOK, EndsDefined DEF ProgramOK
<1>3. Follows(EntryAfter, last)
  BY <1>1, <1>2
<1>4. \A j \in Insn : back(j) = last[j]
  BY DEF back
<1>5. NextEntry(i) # None => NextEntry(i) \in Insn
  BY EntryAfterOK DEF ProgramOK, EntryAfter, OrNone
<1> HIDE DEF last
<1>6. last[i] = IF NextEntry(i) = None THEN i ELSE last[NextEntry(i)]
  BY <1>3 DEF Follows, EntryAfter
<1> QED BY <1>4, <1>5, <1>6 DEF BackEq

(* The sum of the entries of a dollop.                                     *)
LEMMA RestAlong ==
    ProgramOK => \A i \in Insn : Rest(i) \in Nat /\ RestEq(i) /\ Rest(None) = 0
<1> SUFFICES ASSUME ProgramOK
             PROVE  \A i \in Insn : Rest(i) \in Nat /\ RestEq(i) /\ Rest(None) = 0
  OBVIOUS
<1> DEFINE entries == CHOOSE f : f = [j \in Insn |->
                          prog.size[j] + IF NextEntry(j) = None THEN 0 ELSE f[NextEntry(j)]]
<1>1. \A f : Sums(EntryAfter, EntrySizes, f)
          <=> f = [j \in Insn |->
                      prog.size[j] + IF NextEntry(j) = None THEN 0 ELSE f[NextEntry(j)]]
  BY DEF Sums, EntryAfter, EntrySizes
<1>2. EntrySizes \in [Insn -> Nat] /\ EntrySizes \in [Insn -> Int]
  BY ProgramsAssumption DEF ProgramOK, Typed, EntrySizes
<1>3. EntryAfter \in [Insn -> OrNone(Insn)] /\ NoCircle(EntryAfter)
  BY EntryAfterOK DEF ProgramOK
<1>4. \E f : Sums(EntryAfter, EntrySizes, f)
  BY <1>2, <1>3, SumsDefined
<1>5. Sums(EntryAfter, EntrySizes, entries)
  BY <1>1, <1>4
<1>6. \A i : Rest(i) = IF i = None THEN 0 ELSE entries[i]
  BY DEF Rest
<1> HIDE DEF entries
<1>7. /\ entries \in [Insn -> Int]
      /\ \A i \in Insn : entries[i] = EntrySizes[i] + IF EntryAfter[i] = None THEN 0
                                                     ELSE entries[EntryAfter[i]]
  BY <1>2, <1>3, <1>5, SumsAre
<1>8. \A i \in Insn : entries[i] \in Nat
  <2> DEFINE S == {i \in Insn : entries[i] \notin Nat}
  <2>1. SUFFICES ASSUME S # {} PROVE FALSE
    OBVIOUS
  <2>2. PICK i \in S : EntryAfter[i] \notin S
    BY <1>3, <2>1 DEF NoCircle
  <2>3. EntryAfter[i] # None => entries[EntryAfter[i]] \in Nat
    BY <1>3, <2>2 DEF OrNone
  <2>4. EntrySizes[i] \in Nat
    BY <1>2
  <2> QED BY <1>7, <2>2, <2>3, <2>4
<1>9. \A i \in Insn : i # None /\ EntryAfter[i] = NextEntry(i) /\ EntrySizes[i] = prog.size[i]
  BY NoneAssumption DEF EntryAfter, EntrySizes
<1> QED BY <1>6, <1>7, <1>8, <1>9 DEF RestEq

LEMMA SizeAlong == ProgramOK => \A d \in Insn : SizeEq(d)
<1> SUFFICES ASSUME NEW d \in Insn PROVE SizeEq(d)
  OBVIOUS
<1>1. d # None
  BY NoneAssumption
<1> QED BY <1>1 DEF SizeEq, CalculateSize, Rest, JumpOut

(* No chain of dollops comes back to where it was.                         *)
LEMMA DollopAfterOK ==
    ProgramOK => DollopAfter \in [Insn -> OrNone(Insn)] /\ NoCircle(DollopAfter)
<1> SUFFICES ASSUME ProgramOK
             PROVE  DollopAfter \in [Insn -> OrNone(Insn)] /\ NoCircle(DollopAfter)
  OBVIOUS
<1>1. \A d \in Insn : FallthroughDollop(d) \in OrNone(Insn)
  <2>1. prog.fronts \subseteq Insn /\ prog.ft \in [Insn -> OrNone(Insn)]
    BY ProgramsAssumption DEF ProgramOK, Typed
  <2>2. \A d \in Insn : back(d) \in Insn
    BY BackOK DEF ProgramOK
  <2> QED BY <2>1, <2>2 DEF FallthroughDollop
<1>2. ASSUME NEW S \in (SUBSET Insn) \ {{}}, \A d \in S : FallthroughDollop(d) \in S
      PROVE  FALSE
  <2> DEFINE E == {k \in Insn : \E d \in S : back(k) = back(d)}
  <2>1. E \in (SUBSET Insn) \ {{}} /\ S \subseteq E
    OBVIOUS
  <2>2. PICK k \in E : prog.ft[k] \notin E
    BY <2>1, ProgramsAssumption DEF ProgramOK, DollopsAreChains
  <2>3. PICK d \in S : back(k) = back(d)
    BY <2>2
  <2>4. CASE NextEntry(k) = None
    <3>1. back(d) = k
      BY <2>2, <2>3, <2>4, BackAlong DEF BackEq
    <3> QED BY <1>2, <2>1, <2>2, <3>1 DEF FallthroughDollop
  <2>5. CASE NextEntry(k) # None
    <3>1. NextEntry(k) = prog.ft[k] /\ NextEntry(k) \in Insn
      BY <2>2, <2>5, EntryAfterOK DEF ProgramOK, EntryAfter, NextEntry, OrNone
    <3>2. back(prog.ft[k]) = back(d)
      BY <2>2, <2>3, <2>5, <3>1, BackAlong DEF BackEq
    <3> QED BY <2>2, <3>1, <3>2
  <2> QED BY <2>4, <2>5
<1> QED BY <1>1, <1>2 DEF NoCircle, DollopAfter

(* The recursive definition of SizeInclFallthrough has a solution, in Int. *)
LEMMA ChainAlong ==
    ProgramOK => \A d \in Insn : SizeInclFallthrough(d) \in Int /\ ChainEq(d)
<1> SUFFICES ASSUME ProgramOK
             PROVE  \A d \in Insn : SizeInclFallthrough(d) \in Int /\ ChainEq(d)
  OBVIOUS
<1> DEFINE Chained(f) ==
        f = [d \in Insn |->
                CalculateSize(d) +
                IF ~ canCoalesce(d) \/ Placed(d) THEN TRAMPOLINE_SIZE
                ELSE IF FallthroughDollop(d) = None THEN 0
                ELSE f[FallthroughDollop(d)] - TRAMPOLINE_SIZE]
           chain == CHOOSE f : Chained(f)
           N == [d \in Insn |-> IF Stops(d) THEN None ELSE FallthroughDollop(d)]
           a == [d \in Insn |-> CalculateSize(d) +
                                IF Stops(d) THEN TRAMPOLINE_SIZE
                                ELSE IF FallthroughDollop(d) = None THEN 0
                                ELSE 0 - TRAMPOLINE_SIZE]
<1>1. \A d \in Insn : CalculateSize(d) \in Nat
  BY RestAlong, SizeAlong, SizesAssumption DEF SizeEq, JumpOut
<1>2. DollopAfter \in [Insn -> OrNone(Insn)] /\ NoCircle(DollopAfter)
  BY DollopAfterOK
<1>3. \A d \in Insn : FallthroughDollop(d) \in OrNone(Insn)
  BY <1>2 DEF DollopAfter
<1>4. N \in [Insn -> OrNone(Insn)]
  BY <1>3 DEF OrNone
<1>5. NoCircle(N)
  <2>1. ASSUME NEW S \in (SUBSET Insn) \ {{}} PROVE \E d \in S : N[d] \notin S
    <3>1. PICK d \in S : DollopAfter[d] \notin S
      BY <1>2 DEF NoCircle
    <3> QED BY <3>1, NoneAssumption DEF DollopAfter
  <2> HIDE DEF N
  <2> QED BY <2>1 DEF NoCircle
<1>6. a \in [Insn -> Int]
  BY <1>1, SizesAssumption
<1>7. PICK g : Sums(N, a, g)
  <2> HIDE DEF N, a
  <2> QED BY <1>4, <1>5, <1>6, SumsDefined
<1>8. g \in [Insn -> Int] /\ \A d \in Insn : g[d] = a[d] + IF N[d] = None THEN 0 ELSE g[N[d]]
  <2> HIDE DEF N, a
  <2> QED BY <1>4, <1>5, <1>6, <1>7, SumsAre
<1>9. ASSUME NEW d \in Insn
      PROVE  g[d] = CalculateSize(d) +
                    IF ~ canCoalesce(d) \/ Placed(d) THEN TRAMPOLINE_SIZE
                    ELSE IF FallthroughDollop(d) = None THEN 0
                    ELSE g[FallthroughDollop(d)] - TRAMPOLINE_SIZE
  <2>1. CalculateSize(d) \in Int /\ TRAMPOLINE_SIZE \in Int
    BY <1>1, SizesAssumption
  <2>2. FallthroughDollop(d) # None => g[FallthroughDollop(d)] \in Int
    BY <1>3, <1>8 DEF OrNone
  <2>3. CASE Stops(d)
    BY <1>8, <2>1, <2>3 DEF Stops
  <2>4. CASE ~ Stops(d) /\ FallthroughDollop(d) = None
    BY <1>8, <2>1, <2>4 DEF Stops
  <2>5. CASE ~ Stops(d) /\ FallthroughDollop(d) # None
    <3>1. N[d] = FallthroughDollop(d) /\ a[d] = CalculateSize(d) + (0 - TRAMPOLINE_SIZE)
      BY <2>5
    <3> HIDE DEF N, a
    <3>2. g[d] = CalculateSize(d) + (g[FallthroughDollop(d)] - TRAMPOLINE_SIZE)
      BY <1>8, <2>1, <2>2, <2>5, <3>1
    <3> QED BY <2>5, <3>2 DEF Stops
  <2> QED BY <2>3, <2>4, <2>5
<1>10. Chained(g)
  <2>1. g = [d \in Insn |-> g[d]]
    BY <1>8
  <2> QED BY <1>9, <2>1
<1>11. Chained(chain)
  <2> HIDE DEF Chained
  <2> QED BY <1>10
<1>12. \A d : SizeInclFallthrough(d) = chain[d]
  BY DEF SizeInclFallthrough
<1> HIDE DEF chain, N, a
<1>13. ASSUME NEW d \in Insn PROVE ChainEq(d)
  <2>1. chain[d] = CalculateSize(d) +
                   IF ~ canCoalesce(d) \/ Placed(d) THEN TRAMPOLINE_SIZE
                   ELSE IF FallthroughDollop(d) = None THEN 0
                   ELSE chain[FallthroughDollop(d)] - TRAMPOLINE_SIZE
    BY <1>11
  <2> HIDE DEF Chained
  <2>2. CASE Stops(d)
    BY <1>12, <2>1, <2>2 DEF ChainEq, Stops
  <2>3. CASE ~ Stops(d) /\ FallthroughDollop(d) = None
    BY <1>12, <2>1, <2>3 DEF ChainEq, Stops
  <2>4. CASE ~ Stops(d) /\ FallthroughDollop(d) # None
    BY <1>12, <2>1, <2>4 DEF ChainEq, Stops
  <2> QED BY <2>2, <2>3, <2>4
<1>14. \A d \in Insn : chain[d] \in Int
  <2> DEFINE S == {d \in Insn : chain[d] \notin Int}
  <2>1. SUFFICES ASSUME S # {} PROVE FALSE
    OBVIOUS
  <2>2. PICK d \in S : DollopAfter[d] \notin S
    BY <1>2, <2>1 DEF NoCircle
  <2>3. FallthroughDollop(d) # None => chain[FallthroughDollop(d)] \in Int
    BY <1>3, <2>2 DEF OrNone, DollopAfter
  <2> HIDE DEF Chained
  <2>4. CalculateSize(d) \in Int /\ TRAMPOLINE_SIZE \in Int
    BY <1>1, SizesAssumption
  <2> QED BY <1>12, <1>13, <2>2, <2>3, <2>4 DEF ChainEq
<1> QED BY <1>12, <1>13, <1>14

(* What has to follow a dollop when all of its chain stays together.       *)
Beyond(h) ==
    LET f == FallthroughDollop(h)
    IN  IF f = None THEN 0
        ELSE IF ~ canCoalesce(h) \/ Placed(f) THEN TRAMPOLINE_SIZE
        ELSE SizeInclFallthrough(f)

CoalescedPlaced == \A d \in coalesced : Placed(d)

(* No size is negative, and a chain that is not cut is as long as its      *)
(* dollop and what has to follow it.                                       *)
SizesAddUp(d) ==
    /\ FallthroughDollop(d) \in OrNone(Insn) /\ back(d) \in Insn
    /\ CalculateSize(d) \in Nat /\ SizeInclFallthrough(d) \in Nat /\ Beyond(d) \in Nat
    /\ ~ Placed(d) => /\ CalculateSize(d) = Rest(d) + JumpOut(d)
                      /\ SizeInclFallthrough(d) >= Rest(d) + Beyond(d)

LEMMA SizesAre == ProgramOK /\ CoalescedPlaced => \A d \in Insn : SizesAddUp(d)
<1> SUFFICES ASSUME ProgramOK, CoalescedPlaced PROVE \A d \in Insn : SizesAddUp(d)
  OBVIOUS
<1>1. \A d \in Insn : Rest(d) \in Nat /\ JumpOut(d) \in Nat /\ SizeEq(d)
  BY RestAlong, SizeAlong, SizesAssumption DEF JumpOut
<1>2. \A d \in Insn : CalculateSize(d) \in Nat
  BY <1>1 DEF SizeEq
<1>3. \A d \in Insn : ~ Placed(d) => CalculateSize(d) = Rest(d) + JumpOut(d)
  BY <1>1 DEF SizeEq, CoalescedPlaced
<1>4. DollopAfter \in [Insn -> OrNone(Insn)] /\ NoCircle(DollopAfter)
  BY DollopAfterOK
<1>5. \A d \in Insn : FallthroughDollop(d) \in OrNone(Insn)
  BY <1>4 DEF DollopAfter
<1>6. \A d \in Insn : SizeInclFallthrough(d) \in Int /\ ChainEq(d)
  BY ChainAlong
<1>7. \A d \in Insn : SizeInclFallthrough(d) \in Nat
  <2> DEFINE S == {d \in Insn : SizeInclFallthrough(d) \notin Nat}
  <2>1. SUFFICES ASSUME S # {} PROVE FALSE
    OBVIOUS
  <2>2. PICK d \in S : DollopAfter[d] \notin S
    BY <1>4, <2>1 DEF NoCircle
  <2>3. FallthroughDollop(d) # None => SizeInclFallthrough(FallthroughDollop(d)) \in Nat
    BY <1>5, <2>2 DEF OrNone, DollopAfter
  <2>4. ~ Placed(d) /\ FallthroughDollop(d) # None => CalculateSize(d) >= TRAMPOLINE_SIZE
    BY <1>1, <1>3, SizesAssumption DEF JumpOut
  <2>5. CalculateSize(d) \in Nat /\ TRAMPOLINE_SIZE \in Nat /\ ChainEq(d)
        /\ SizeInclFallthrough(d) \in Int
    BY <1>2, <1>6, SizesAssumption
  <2>6. CASE Stops(d)
    BY <2>2, <2>5, <2>6 DEF ChainEq
  <2>7. CASE ~ Stops(d)
    BY <2>2, <2>3, <2>4, <2>5, <2>7 DEF ChainEq, Stops
  <2> QED BY <2>6, <2>7
<1>8. ASSUME NEW d \in Insn
      PROVE  /\ Beyond(d) \in Nat
             /\ ~ Placed(d) => SizeInclFallthrough(d) >= Rest(d) + Beyond(d)
  <2>1. PICK f : f = FallthroughDollop(d)
    OBVIOUS
  <2>2. f # None => f \in Insn /\ SizeInclFallthrough(f) \in Nat
    BY <1>5, <1>7, <2>1 DEF OrNone
  <2>3. TRAMPOLINE_SIZE \in Nat
    BY SizesAssumption
  <2>4. Beyond(d) = IF f = None THEN 0
                    ELSE IF ~ canCoalesce(d) \/ Placed(f) THEN TRAMPOLINE_SIZE
                    ELSE SizeInclFallthrough(f)
    BY <2>1 DEF Beyond
  <2>5. Beyond(d) \in Nat
    BY <2>2, <2>3, <2>4
  <2>6. f = None => canCoalesce(d)
    BY <2>1 DEF canCoalesce
  <2>7. JumpOut(d) = IF f = None THEN 0 ELSE TRAMPOLINE_SIZE
    BY <2>1 DEF JumpOut
  <2>8. ASSUME ~ Placed(d) PROVE SizeInclFallthrough(d) >= Rest(d) + Beyond(d)
    <3>1. SizeInclFallthrough(d) =
              Rest(d) + JumpOut(d) +
              IF ~ canCoalesce(d) THEN TRAMPOLINE_SIZE
              ELSE IF f = None THEN 0 ELSE SizeInclFallthrough(f) - TRAMPOLINE_SIZE
      BY <1>3, <1>6, <2>1, <2>8 DEF ChainEq, Stops
    <3>2. f # None /\ Placed(f) => SizeInclFallthrough(f) >= TRAMPOLINE_SIZE
      <4> SUFFICES ASSUME f # None, Placed(f)
                   PROVE  SizeInclFallthrough(f) >= TRAMPOLINE_SIZE
        OBVIOUS
      <4>1. SizeInclFallthrough(f) = CalculateSize(f) + TRAMPOLINE_SIZE
        BY <1>6, <2>2 DEF ChainEq, Stops
      <4> QED BY <1>2, <2>2, <2>3, <4>1
    <3>3. Rest(d) \in Nat
      BY <1>1
    <3> QED BY <2>2, <2>3, <2>4, <2>6, <2>7, <3>1, <3>2, <3>3
  <2> QED BY <2>5, <2>8
<1>9. \A d \in Insn : back(d) \in Insn
  BY BackOK DEF ProgramOK
<1> QED BY <1>2, <1>3, <1>5, <1>7, <1>8, <1>9 DEF SizesAddUp

(* The equations hold in the next state, too.                              *)
LEMMA SizesNext ==
    ProgramOK' => \A d \in Insn : SizeEq(d)' /\ ChainEq(d)'
<1>1. ProgramOK' => (\A d \in Insn : SizeEq(d))'
  BY SizeAlong, PTL
<1>2. ProgramOK' => (\A d \in Insn : SizeInclFallthrough(d) \in Int /\ ChainEq(d))'
  BY ChainAlong, PTL
<1> QED BY <1>1, <1>2

(* What is behind x in its chain does not depend on x being placed or      *)
(* joined with it.                                                         *)
LEMMA ChainStays ==
    ASSUME ProgramOK, ProgramOK', UNCHANGED <<prog, fronts>>,
           NEW x \in Insn, NEW f \in Insn, FallthroughDollop(x) = f,
           \A d \in Insn : d # x => /\ Placed(d)' <=> Placed(d)
                                    /\ d \in coalesced' <=> d \in coalesced
    PROVE  SizeInclFallthrough(f)' = SizeInclFallthrough(f)
<1> DEFINE S == {d \in Insn : SizeInclFallthrough(d)' # SizeInclFallthrough(d)}
<1>1. SUFFICES ASSUME f \in S PROVE FALSE
  OBVIOUS
<1>2. PICK d \in S : DollopAfter[d] \notin S
  BY <1>1, DollopAfterOK DEF NoCircle
<1>3. FallthroughDollop(d) \notin S
  BY <1>2 DEF DollopAfter
<1>4. d # x
  BY <1>1, <1>3
<1>5. Placed(d)' <=> Placed(d)
  BY <1>4
<1>6. /\ Rest(d)' = Rest(d)
      /\ FallthroughDollop(d)' = FallthroughDollop(d)
      /\ canCoalesce(d)' <=> canCoalesce(d)
  BY DEF Rest, FallthroughDollop, canCoalesce, back, NextEntry
<1>7. JumpOut(d)' = JumpOut(d)
  BY <1>6 DEF JumpOut
<1>8. SizeEq(d) /\ SizeEq(d)'
  BY SizeAlong, SizesNext
<1>9. CalculateSize(d)' = CalculateSize(d)
  BY <1>4, <1>6, <1>7, <1>8 DEF SizeEq
<1>10. ChainEq(d) /\ ChainEq(d)'
  BY ChainAlong, SizesNext
<1>11. PICK e : e = FallthroughDollop(d) /\ e = FallthroughDollop(d)'
  BY <1>6
<1>12. e # None => SizeInclFallthrough(e)' = SizeInclFallthrough(e)
  <2>1. e \in OrNone(Insn)
    BY <1>11, DollopAfterOK DEF DollopAfter
  <2> QED BY <1>3, <1>11, <2>1 DEF OrNone
<1>13. Stops(d)' <=> Stops(d)
  BY <1>5, <1>6 DEF Stops
<1>14. SizeInclFallthrough(d) =
          CalculateSize(d) + IF Stops(d) THEN TRAMPOLINE_SIZE
                             ELSE IF e = None THEN 0
                             ELSE SizeInclFallthrough(e) - TRAMPOLINE_SIZE
  BY <1>10, <1>11 DEF ChainEq
<1>15. SizeInclFallthrough(d)' =
          CalculateSize(d)' + IF Stops(d)' THEN TRAMPOLINE_SIZE
                              ELSE IF e = None THEN 0
                              ELSE SizeInclFallthrough(e)' - TRAMPOLINE_SIZE
  BY <1>10, <1>11 DEF ChainEq
<1>16. SizeInclFallthrough(d)' = SizeInclFallthrough(d)
  BY <1>9, <1>12, <1>13, <1>14, <1>15
<1> QED BY <1>2, <1>16

-----------------------------------------------------------------------------
(* A dollop comes off the queue, wherever it goes.                         *)

StartsAt(h, c) ==
    /\ pc = "pop" /\ h \in placement_queue /\ ~ Placed(h)
    /\ c \in Locals /\ c.dollop = h /\ c.entry = h /\ c.start = c.addr
    /\ prog.ibta[h] = 0 => c.addr % UNPIN_ALIGNMENT = 0 \/ Addressed(h)
    /\ Started(h, c, Handed(prog, h))

(* The range it gets: a plugin's answer, or a free range from its first    *)
(* aligned byte on.                                                        *)
RangeFor(h, c) ==
    /\ ~ c.am_coalescing
    /\ \/ /\ Addressed(h) /\ Accepted(h) /\ (RoomyPlans => Roomy(h))
          /\ c.start = prog.plan[h].start /\ c.end = prog.plan[h].end
          /\ c.allowed_coalescing = prog.plan[h].coalesce
          /\ c.abuts <=> AbutsPin(h) \/ AbutsFallthrough(h)
          /\ c.ftPlace = FallthroughPlace(h)
       \/ /\ c.allowed_coalescing /\ ~ c.abuts
          /\ c.end - c.start >= Needed(h)
          /\ c.start .. c.end \subseteq free \cup Handed(prog, h)

LEMMA AlignUpAligns ==
    ASSUME NEW a \in Nat, NEW n \in Nat \ {0}
    PROVE  /\ AlignUp(a, n) \in Nat /\ AlignUp(a, n) % n = 0
           /\ a <= AlignUp(a, n) /\ AlignUp(a, n) <= a + n - 1
<1>1. PICK q \in Nat : q = (a + n - 1) \div n
  OBVIOUS
<1>2. q * n \in Nat /\ (q * n) % n = 0
  OBVIOUS
<1>3. a <= q * n /\ q * n <= a + n - 1
  <2>1. PICK b \in Nat : b = a + n - 1
    OBVIOUS
  <2>2. b = (q * n) + (b % n) /\ b % n \in 0 .. n - 1
    BY <1>1, <2>1
  <2>3. PICK m \in Nat : m = q * n
    BY <1>2
  <2> QED BY <2>1, <2>2, <2>3
<1> QED BY <1>1, <1>2, <1>3 DEF AlignUp

(* A fallthrough has an address or none yet.                               *)
LEMMA FallthroughPlaceOK ==
    ASSUME TypeOK, prog \in Programs, prog.fronts \subseteq fronts, NEW h \in Insn
    PROVE  FallthroughPlace(h) \in OrNone(Nat)
<1> DEFINE f == FallthroughDollop(h)
<1>1. f \in OrNone(Insn)
  BY BackOK DEF TypeOK, OrNone
<1>2. Typed(prog)
  BY ProgramsAssumption
<1>3. CASE f = None
  BY <1>3 DEF FallthroughPlace, OrNone
<1>4. CASE f # None
  <2>1. f \in Insn
    BY <1>1, <1>4 DEF OrNone
  <2>2. Placed(f) => place[f] \in Nat
    BY <2>1 DEF Placed, TypeOK
  <2>3. Addressed(f) => prog.plan[f].start \in Nat
    BY <2>1, <1>2 DEF Addressed, Typed, OrNone, Answers
  <2> HIDE DEF f
  <2>4. FallthroughPlace(h) \in {None, place[f], prog.plan[f].start}
    BY DEF FallthroughPlace, f
  <2> QED BY <2>2, <2>3, <1>4 DEF FallthroughPlace, OrNone, f
<1> QED BY <1>3, <1>4

LEMMA Starts ==
    ASSUME TypeOK, ProgramOK, NEW h \in Insn, PlaceByPlugin(h) \/ PlaceBySizer(h)
    PROVE  \E c : StartsAt(h, c) /\ RangeFor(h, c)
<1>1. Typed(prog)
  BY ProgramsAssumption DEF ProgramOK
<1>2. FallthroughPlace(h) \in OrNone(Nat)
  BY FallthroughPlaceOK DEF ProgramOK
<1>3. CASE PlaceByPlugin(h)
  <2> DEFINE p == prog.plan[h]
             c == [Local(h, p.start, p.end) EXCEPT
                      !.allowed_coalescing = p.coalesce,
                      !.abuts = AbutsPin(h) \/ AbutsFallthrough(h),
                      !.ftPlace = FallthroughPlace(h)]
  <2>1. p \in Answers
    BY <1>1, <1>3 DEF PlaceByPlugin, Addressed, Typed, OrNone
  <2>2. (AbutsPin(h) \/ AbutsFallthrough(h)) \in BOOLEAN
    BY DEF AbutsPin, AbutsFallthrough
  <2>3. c \in Locals
    BY <1>2, <2>1, <2>2 DEF Locals, Local, Answers, OrNone
  <2>4. c.dollop = h /\ c.entry = h /\ c.start = c.addr
    BY DEF Local
  <2>5. Started(h, c, Handed(prog, h)) /\ Addressed(h) /\ ~ Placed(h)
        /\ pc = "pop" /\ h \in placement_queue
    BY <1>3 DEF PlaceByPlugin
  <2>6. RangeFor(h, c)
    BY <1>3, <2>2 DEF RangeFor, Local, PlaceByPlugin
  <2> HIDE DEF c
  <2> QED BY <2>3, <2>4, <2>5, <2>6 DEF StartsAt
<1>4. CASE PlaceBySizer(h)
  <2>1. PICK r \in FreeRangesOf(free \cup Handed(prog, h)) :
            /\ r.end - r.start + 1 >= minimum_valid_req_size(h) + AlignmentOf(h) - 1
            /\ Started(h, [Local(h, AlignUp(r.start, AlignmentOf(h)), r.end) EXCEPT
                            !.ftPlace = IF Addressed(h) THEN FallthroughPlace(h)
                                        ELSE None], Handed(prog, h))
    BY <1>4 DEF PlaceBySizer
  <2> DEFINE s == AlignUp(r.start, AlignmentOf(h))
             c == [Local(h, s, r.end) EXCEPT
                      !.ftPlace = IF Addressed(h) THEN FallthroughPlace(h) ELSE None]
  <2>2. Handed(prog, h) \subseteq Nat
    <3>1. prog.plan[h] # None => prog.plan[h].start \in Nat /\ prog.plan[h].end \in Nat
      BY <1>1 DEF Typed, OrNone, Answers
    <3> QED BY <3>1 DEF Handed
  <2>3. r.start \in Nat /\ r.end \in Nat
    BY <2>2 DEF FreeRangesOf, TypeOK
  <2>4. AlignmentOf(h) \in Nat \ {0}
    BY SizesAssumption DEF AlignmentOf
  <2>5. s \in Nat /\ s % AlignmentOf(h) = 0
        /\ r.start <= s /\ s <= r.start + AlignmentOf(h) - 1
    BY <2>3, <2>4, AlignUpAligns
  <2>6. prog.ibta[h] = 0 => s % UNPIN_ALIGNMENT = 0
    BY <2>5 DEF AlignmentOf
  <2> HIDE DEF s
  <2>7. c \in Locals /\ c.dollop = h /\ c.entry = h /\ c.start = c.addr /\ c.addr = s
    BY <1>2, <2>3, <2>5 DEF Locals, Local, OrNone
  <2>8. Started(h, c, Handed(prog, h)) /\ ~ Placed(h) /\ pc = "pop" /\ h \in placement_queue
    BY <2>1, <1>4 DEF PlaceBySizer, s
  <2>9. c.end = r.end /\ c.allowed_coalescing /\ ~ c.am_coalescing /\ ~ c.abuts
    BY DEF Local
  <2> HIDE DEF c
  <2>10. r.end - s >= Needed(h)
    <3>1. Needed(h) \in Int
      <4>1. TRAMPOLINE_SIZE \in Int /\ prog.size[h] \in Int
        BY <1>1, SizesAssumption DEF Typed
      <4> QED BY <4>1, ChainAlong DEF Needed, Lesser, EntrySize
    <3> QED BY <2>1, <2>3, <2>4, <2>5, <3>1 DEF minimum_valid_req_size
  <2>11. s .. r.end \subseteq free \cup Handed(prog, h)
    BY <2>3, <2>5 DEF FreeRangesOf
  <2>12. RangeFor(h, c)
    BY <2>7, <2>9, <2>10, <2>11 DEF RangeFor
  <2> QED BY <2>6, <2>7, <2>8, <2>12 DEF StartsAt
<1> QED BY <1>3, <1>4

-----------------------------------------------------------------------------
(* The types.                                                              *)

LEMMA TypeStep ==
    ASSUME TypeOK, CursorOK, ProgramOK, [Next]_vars
    PROVE  TypeOK'
<1> USE DEF TypeOK, OrNone
<1>1. Typed(prog)
  BY ProgramsAssumption DEF ProgramOK
<1>2. Placing \/ pc = "reserve" => cur \in Locals
  BY DEF CursorOK, Placing
<1>3. ASSUME NEW h \in Insn, SkipPlaced(h) PROVE TypeOK'
  BY <1>3 DEF SkipPlaced
<1>4. ASSUME NEW h \in Insn, PlaceByPlugin(h) \/ PlaceBySizer(h) PROVE TypeOK'
  <2>1. PICK c : StartsAt(h, c)
    BY <1>4, Starts DEF ProgramOK
  <2>2. Handed(prog, h) \subseteq Nat
    <3>1. prog.plan[h] # None => prog.plan[h].start \in Nat /\ prog.plan[h].end \in Nat
      BY <1>1 DEF Typed, Answers
    <3> QED BY <3>1 DEF Handed
  <2>3. c.addr \in Nat /\ PinSize(prog, h) \in Nat
    BY <2>1, SizesAssumption DEF StartsAt, Locals, PinSize
  <2>4. BytesFrom(c.addr, PinSize(prog, h)) \subseteq Nat
    BY <2>3 DEF BytesFrom
  <2>5. free' \subseteq Nat /\ patch_list' \subseteq Insn /\ cur' \in Locals
        /\ pc' \in {"dollop", "spinning", "aborted"}
    BY <2>1, <2>2, <2>4 DEF StartsAt, Started
  <2> QED BY <2>1, <2>5 DEF StartsAt, Started
<1>5. CASE BeginDollop
  <2>1. cur \in Locals
    BY <1>2, <1>5 DEF BeginDollop, Placing
  <2>2. (CalculateSize(cur.dollop) <= Room) \in BOOLEAN
        /\ (SizeInclFallthrough(cur.dollop) <= Room) \in BOOLEAN
    OBVIOUS
  <2>3. cur' \in Locals
    BY <1>5, <2>1, <2>2 DEF BeginDollop, Locals
  <2> QED BY <1>5, <2>3 DEF BeginDollop
<1>6. CASE PlaceEntry
  <2>1. cur \in Locals /\ cur.entry \in Insn
    BY <1>2, <1>6 DEF PlaceEntry, Placing, Locals
  <2>2. cur.addr + prog.size[cur.entry] \in Nat
    BY <1>1, <2>1 DEF Typed, Locals
  <2>3. NextEntry(cur.entry) \in Insn \cup {None}
    BY <1>1, <2>1 DEF Typed, NextEntry
  <2>4. cur' \in Locals
    BY <1>6, <2>1, <2>2, <2>3 DEF PlaceEntry, Locals
  <2>5. placement_queue' \subseteq fronts
    BY <1>1, <1>6, <2>1 DEF PlaceEntry, Typed, ProgramOK
  <2>6. cur.addr \in Nat
    BY <2>1 DEF Locals
  <2> QED BY <1>6, <2>1, <2>4, <2>5, <2>6 DEF PlaceEntry
<1>7. CASE SplitToFit
  <2>1. cur \in Locals /\ cur.entry \in Insn
    BY <1>2, <1>7 DEF SplitToFit, Placing, Locals
  <2>2. cur' \in Locals
    BY <1>7, <2>1 DEF SplitToFit, Locals
  <2> QED BY <1>7, <2>1, <2>2 DEF SplitToFit
<1>8. AtEnd => cur \in Locals /\ cur.dollop \in fronts /\ Next_ \in fronts \cup {None}
  BY <1>2, BackOK DEF AtEnd, Placing, Locals, Next_, ProgramOK, CursorOK
<1>9. CASE NeedsNoJump
  BY <1>8, <1>9 DEF NeedsNoJump
<1>10. CASE AppendJump
  <2>1. cur \in Locals /\ cur.dollop \in fronts /\ Next_ \in fronts
    BY <1>8, <1>10 DEF AppendJump
  <2>2. cur.addr \in Nat /\ cur.addr + TRAMPOLINE_SIZE \in Nat
    BY <2>1, SizesAssumption DEF Locals
  <2>3. cur' \in Locals
    BY <1>10, <2>1, <2>2 DEF AppendJump, Locals
  <2> QED BY <1>10, <2>1, <2>2, <2>3 DEF AppendJump
<1>11. CASE Coalesce
  <2>1. cur \in Locals /\ cur.dollop \in fronts /\ Next_ \in fronts
    BY <1>8, <1>11 DEF Coalesce
  <2>2. cur' \in Locals
    BY <1>11, <2>1 DEF Coalesce, Locals
  <2> QED BY <1>11, <2>1, <2>2 DEF Coalesce
<1>12. CASE ReserveChain
  BY <1>12 DEF ReserveChain
<1>13. CASE UNCHANGED vars
  BY <1>13 DEF vars, Locals
<1> QED BY <1>3, <1>4, <1>5, <1>6, <1>7, <1>9, <1>10, <1>11, <1>12, <1>13 DEF Next

-----------------------------------------------------------------------------
(* Where the loop stands.                                                  *)

(* What is next in the dollop is not placed yet.                           *)
LEMMA NextIsNotPlaced ==
    ASSUME CursorOK, ProgramOK, InOrder, pc = "entries", cur.entry # None,
           NextEntry(cur.entry) # None
    PROVE  /\ NextEntry(cur.entry) \in Insn \ fronts
           /\ NextEntry(cur.entry) # cur.entry
           /\ ~ Placed(NextEntry(cur.entry))
<1> DEFINE e == cur.entry
           n == NextEntry(e)
<1>1. Typed(prog) /\ DollopsAreChains(prog)
  BY ProgramsAssumption DEF ProgramOK
<1>2. e \in Insn /\ ~ Placed(e)
  BY DEF CursorOK, Placing, Locals
<1>3. n = prog.ft[e] /\ n \in Insn \ fronts
  BY <1>1, <1>2 DEF Typed, NextEntry, OrNone
<1>4. n \notin prog.fronts
  BY <1>3 DEF ProgramOK
<1>5. n # e
  <2>1. {e} \in (SUBSET Insn) \ {{}}
    BY <1>2
  <2>2. \E i \in {e} : prog.ft[i] \notin {e} \/ prog.ft[i] \in prog.fronts
    BY <1>1, <2>1 DEF DollopsAreChains
  <2> QED BY <2>2, <1>3, <1>4
<1>6. ~ Placed(n)
  <2>1. SUFFICES ASSUME Placed(n) PROVE FALSE
    OBVIOUS
  <2>2. PICK j \in Insn : prog.ft[j] = n /\ Placed(j)
    BY <1>3, <2>1 DEF InOrder
  <2>3. j = e
    BY <1>1, <1>2, <1>3, <1>4, <2>2 DEF DollopsAreChains
  <2> QED BY <1>2, <2>2, <2>3
<1> QED BY <1>3, <1>5, <1>6

LEMMA CursorStep ==
    ASSUME TypeOK, CursorOK, ProgramOK, InOrder, [Next]_vars
    PROVE  CursorOK' /\ ProgramOK'
<1> USE DEF TypeOK
<1>1. TypeOK'
  BY TypeStep
<1>2. Typed(prog)
  BY ProgramsAssumption DEF ProgramOK
<1>3. ASSUME NEW h \in Insn, SkipPlaced(h) PROVE CursorOK' /\ ProgramOK'
  BY <1>3 DEF SkipPlaced, CursorOK, ProgramOK, Placing
<1>4. ASSUME NEW h \in Insn, PlaceByPlugin(h) \/ PlaceBySizer(h) PROVE CursorOK' /\ ProgramOK'
  <2>1. PICK c : StartsAt(h, c)
    BY <1>4, Starts DEF ProgramOK
  <2>2. pc' \in {"dollop", "spinning", "aborted"} /\ cur' = c /\ ProgramOK'
    BY <2>1 DEF StartsAt, Started, ProgramOK
  <2>3. c \in Locals /\ c.dollop = h /\ c.entry = h /\ h \in fronts /\ ~ Placed(h)
        /\ c.start <= c.addr
    BY <2>1 DEF StartsAt, Locals
  <2>4. UNCHANGED <<fronts, place>>
    BY <2>1 DEF StartsAt, Started
  <2> QED BY <2>2, <2>3, <2>4 DEF CursorOK, Placing, Placed
<1>5. CASE BeginDollop
  <2>1. cur' \in Locals /\ cur'.entry = cur.entry /\ cur'.dollop = cur.dollop
        /\ cur'.start <= cur'.addr
    <3>1. cur \in Locals /\ pc' = "entries"
      BY <1>5 DEF BeginDollop, CursorOK
    <3>2. cur'.dollop \in Insn
      BY <1>5, <3>1 DEF BeginDollop, Locals
    <3> QED BY <1>1, <1>5, <3>1, <3>2, NoneAssumption DEF BeginDollop, Locals, Idle, CursorOK
  <2> QED BY <1>5, <2>1 DEF BeginDollop, CursorOK, ProgramOK, Placing, Placed
<1>6. CASE PlaceEntry
  <2> DEFINE e == cur.entry
             n == NextEntry(e)
  <2>1. cur \in Locals /\ e \in Insn /\ cur.addr \in Nat /\ cur.dollop \in fronts
    BY <1>6 DEF PlaceEntry, CursorOK, Placing, Locals
  <2>2. n # None => n \in Insn \ fronts /\ n # e /\ ~ Placed(n)
    BY <1>6, NextIsNotPlaced DEF PlaceEntry
  <2>3. cur' = [cur EXCEPT !.entry = n, !.addr = cur.addr + prog.size[e]]
    BY <1>6 DEF PlaceEntry
  <2>4. cur.addr + prog.size[e] \in Nat
    BY <1>2, <2>1 DEF Typed
  <2> HIDE DEF n
  <2>5. cur' \in Locals /\ cur'.entry = n /\ cur'.dollop = cur.dollop
    BY <2>1, <2>2, <2>3, <2>4 DEF Locals
  <2>6. cur'.start <= cur'.addr
    <3>1. cur.start <= cur.addr /\ prog.size[e] \in Nat /\ cur.start \in Nat
      BY <1>2, <1>6, <2>1 DEF PlaceEntry, CursorOK, Typed, Locals
    <3>2. cur'.start = cur.start /\ cur'.addr = cur.addr + prog.size[e]
      BY <2>1, <2>3 DEF Locals
    <3> QED BY <2>1, <3>1, <3>2
  <2>7. place' = [place EXCEPT ![e] = cur.addr] /\ cur.addr # None
    BY <1>6, <2>1, NoneAssumption DEF PlaceEntry
  <2>8. Placed(cur.dollop)'
    BY <2>1, <2>5, <2>7, <1>6 DEF Placed, CursorOK, Placing, PlaceEntry
  <2>9. n # None => place'[n] = None /\ n \notin fronts
    BY <2>2, <2>7 DEF Placed, TypeOK
  <2>10. UNCHANGED <<prog, fronts, patch_list, pc>> /\ pc = "entries" /\ None \notin fronts
    BY <1>6, NoneAssumption DEF PlaceEntry
  <2>11. CursorOK'
    BY <2>1, <2>5, <2>6, <2>8, <2>9, <2>10 DEF CursorOK, Placing, Placed
  <2> QED BY <2>10, <2>11 DEF ProgramOK
<1>7. CASE SplitToFit
  <2>1. cur \in Locals /\ cur.entry \in Insn /\ cur.dollop \in fronts
    BY <1>7 DEF SplitToFit, CursorOK, Placing, Locals
  <2>2. cur' \in Locals /\ cur'.entry = None /\ cur'.dollop = cur.dollop
        /\ cur'.start <= cur'.addr
    BY <1>7, <2>1 DEF SplitToFit, Locals, CursorOK
  <2>3. ProgramOK'
    BY <1>7 DEF SplitToFit, ProgramOK
  <2>4. CASE cur.entry = cur.dollop
    BY <1>7, <2>3, <2>4 DEF SplitToFit, CursorOK, Placing
  <2>5. CASE cur.entry # cur.dollop
    <3>1. Placed(cur.dollop) /\ pc' = "entries" /\ UNCHANGED place /\ None \notin fronts'
          /\ cur.dollop \in fronts'
      BY <1>7, <2>1, <2>5, NoneAssumption DEF SplitToFit, CursorOK, Placing
    <3> QED BY <2>2, <2>3, <3>1 DEF CursorOK, Placing, Placed
  <2> QED BY <2>4, <2>5
<1>8. AtEnd => cur \in Locals /\ Next_ \in fronts \cup {None}
  BY BackOK DEF AtEnd, Placing, Locals, Next_, ProgramOK, CursorOK, OrNone
<1>9. CASE NeedsNoJump
  BY <1>8, <1>9 DEF NeedsNoJump, AtEnd, CursorOK, ProgramOK, Placing
<1>10. CASE AppendJump
  <2>1. cur \in Locals /\ cur.addr \in Nat
    BY <1>8, <1>10 DEF AppendJump, Locals
  <2>2. cur' \in Locals /\ cur'.start <= cur'.addr
    <3>1. cur.start <= cur.addr /\ TRAMPOLINE_SIZE \in Nat /\ cur.start \in Nat
      BY <1>10, <2>1, SizesAssumption DEF AppendJump, AtEnd, CursorOK, Locals
    <3>2. cur' = [cur EXCEPT !.addr = cur.addr + TRAMPOLINE_SIZE]
      BY <1>10 DEF AppendJump
    <3> QED BY <2>1, <3>1, <3>2 DEF Locals
  <2> QED BY <1>10, <2>2 DEF AppendJump, CursorOK, ProgramOK, Placing
<1>11. CASE Coalesce
  <2>1. cur \in Locals /\ Next_ \in fronts /\ ~ Placed(Next_)
    BY <1>8, <1>11 DEF Coalesce, MayCoalesce
  <2>2. cur' \in Locals /\ cur'.dollop = Next_ /\ cur'.entry = Next_
        /\ cur'.start <= cur'.addr
    BY <1>11, <2>1 DEF Coalesce, Locals, CursorOK, AtEnd
  <2>3. UNCHANGED <<prog, fronts, patch_list, place>> /\ pc' = "dollop"
    BY <1>11 DEF Coalesce
  <2> HIDE DEF Next_
  <2> QED BY <2>1, <2>2, <2>3 DEF CursorOK, ProgramOK, Placing, Placed
<1>12. CASE ReserveChain
  BY <1>12 DEF ReserveChain, CursorOK, ProgramOK, Placing
<1>13. CASE UNCHANGED vars
  BY <1>13 DEF vars, CursorOK, ProgramOK, Placing, Placed, Locals
<1> QED BY <1>3, <1>4, <1>5, <1>6, <1>7, <1>9, <1>10, <1>11, <1>12, <1>13 DEF Next

-----------------------------------------------------------------------------
(* Bytes.                                                                  *)

(* The bytes a dollop is started with.                                     *)
LEMMA StartedBytes ==
    ASSUME ProgramOK, NEW h \in Insn, NEW c, StartsAt(h, c), pc' = "dollop"
    PROVE  \/ /\ free' = free \cup Handed(prog, h)
              /\ patch_list' = patch_list
           \/ /\ h \in patch_list
              /\ patch_list' = patch_list \ {h}
              /\ free' = free \cup Handed(prog, h) \cup PinAt(prog, h)
<1>1. CASE ~ AtopOwnPin(h, c.addr)
  BY <1>1 DEF StartsAt, Started
<1>2. CASE AtopOwnPin(h, c.addr)
  <2>1. prog.ibta[h] = c.addr
    BY <1>2 DEF AtopOwnPin
  <2>2. BytesFrom(c.addr, PinSize(prog, h)) = PinAt(prog, h)
    BY <2>1 DEF PinAt
  <2>3. h \in patch_list
    BY <1>2 DEF StartsAt, Started
  <2> QED BY <1>2, <2>2, <2>3 DEF StartsAt, Started
<1> QED BY <1>1, <1>2

(* No other step has a dollop waiting that was not, or frees a byte.       *)
LEMMA NoneWaitsAnew ==
    ASSUME TypeOK, CursorOK, ProgramOK,
           \/ \E h \in Insn : SkipPlaced(h)
           \/ BeginDollop \/ PlaceEntry \/ SplitToFit \/ NeedsNoJump
           \/ AppendJump \/ Coalesce \/ ReserveChain \/ UNCHANGED vars,
           Running'
    PROVE  /\ Running /\ UNCHANGED prog /\ free' \subseteq free
           /\ \A h \in Insn : Waiting(h)' => Waiting(h)
<1> USE DEF Placing, Placed, Waiting, Running
<1>1. CASE \E h \in Insn : SkipPlaced(h)
  BY <1>1 DEF SkipPlaced
<1>2. CASE BeginDollop
  <2>1. cur'.dollop = cur.dollop
    BY <1>2 DEF BeginDollop, CursorOK, Locals
  <2> QED BY <1>2, <2>1 DEF BeginDollop
<1>3. CASE PlaceEntry
  <2>1. cur'.dollop = cur.dollop /\ cur.entry \in Insn
    BY <1>3 DEF PlaceEntry, CursorOK, Locals
  <2>2. \A h \in Insn : place[h] # None => place'[h] # None
    BY <1>3, <2>1, NoneAssumption DEF PlaceEntry, CursorOK, Locals, TypeOK
  <2> QED BY <1>3, <2>1, <2>2 DEF PlaceEntry
<1>4. CASE SplitToFit
  <2>1. cur'.dollop = cur.dollop
    BY <1>4 DEF SplitToFit, CursorOK, Locals
  <2> QED BY <1>4, <2>1 DEF SplitToFit
<1>5. CASE NeedsNoJump \/ AppendJump \/ Coalesce
  <2>1. pc = "entries" /\ cur.entry = None /\ UNCHANGED <<prog, place, free>>
    BY <1>5 DEF NeedsNoJump, AppendJump, Coalesce, AtEnd
  <2>2. place[cur.dollop] # None
    BY <2>1, NoneAssumption DEF CursorOK, Locals
  <2> QED BY <2>1, <2>2
<1>6. CASE ReserveChain
  BY <1>6 DEF ReserveChain
<1>7. CASE UNCHANGED vars
  BY <1>7 DEF vars
<1> QED BY <1>1, <1>2, <1>3, <1>4, <1>5, <1>6, <1>7

LEMMA PluginsStep ==
    ASSUME TypeOK, CursorOK, ProgramOK, WithPlugins, [Next]_vars
    PROVE  WithPlugins'
<1> SUFFICES ASSUME Running', NEW g \in Insn, Waiting(g)'
             PROVE  Handed(prog', g) \cap free' = {}
  BY DEF WithPlugins
<1>1. ASSUME NEW h \in Insn, PlaceByPlugin(h) \/ PlaceBySizer(h)
      PROVE  Handed(prog', g) \cap free' = {}
  <2>1. PICK c : StartsAt(h, c)
    BY <1>1, Starts DEF ProgramOK
  <2>2. pc = "pop" /\ cur' = c /\ c.dollop = h /\ UNCHANGED <<prog, place>>
    BY <2>1 DEF StartsAt, Started
  <2>3. pc' = "dollop"
    BY <2>1 DEF StartsAt, Started, Running
  <2>4. g # h /\ Waiting(g)
    BY <2>2, <2>3 DEF Waiting, Placing, Placed
  <2>5. Handed(prog, g) \cap free = {} /\ BytesAreApart(prog)
    BY <2>2, <2>4, ProgramsAssumption DEF WithPlugins, Running, ProgramOK
  <2>6. Handed(prog, g) \cap Handed(prog, h) = {}
    BY <2>4, <2>5 DEF BytesAreApart
  <2>7. h \in patch_list => Handed(prog, g) \cap PinAt(prog, h) = {}
    BY <2>5 DEF BytesAreApart, ProgramOK
  <2> QED BY <2>1, <2>2, <2>3, <2>5, <2>6, <2>7, StartedBytes
<1>2. ASSUME \/ \E h \in Insn : SkipPlaced(h)
             \/ BeginDollop \/ PlaceEntry \/ SplitToFit \/ NeedsNoJump
             \/ AppendJump \/ Coalesce \/ ReserveChain \/ UNCHANGED vars
      PROVE  Handed(prog', g) \cap free' = {}
  <2>1. Running /\ UNCHANGED prog /\ free' \subseteq free /\ Waiting(g)
    BY <1>2, NoneWaitsAnew
  <2> QED BY <2>1 DEF WithPlugins
<1> QED BY <1>1, <1>2 DEF Next

(* A step that places x adds its bytes and leaves the others where they    *)
(* are.                                                                    *)
Adds(x, a, n) ==
    /\ \A y \in Things' : y = x \/ (y \in Things /\ BytesOf(y)' = BytesOf(y))
    /\ BytesOf(x)' = BytesFrom(a, n)

LEMMA EntryAdds ==
    ASSUME TypeOK, CursorOK, ProgramOK, PlaceEntry
    PROVE  \E x : Adds(x, cur.addr, prog.size[cur.entry])
<1>1. cur.entry \in Insn /\ place \in [Insn -> Nat \cup {None}]
  BY DEF PlaceEntry, CursorOK, Locals, TypeOK
<1>2. place' = [place EXCEPT ![cur.entry] = cur.addr] /\ UNCHANGED <<prog, jump, patch_list>>
  BY DEF PlaceEntry
<1>3. PICK e \in Insn : e = cur.entry
  BY <1>1
<1>4. PICK a : a = cur.addr
  OBVIOUS
<1>5. BytesOf(<<"entry", e>>)' = BytesFrom(a, prog.size[e])
  BY <1>1, <1>2, <1>3, <1>4 DEF BytesOf
<1>6. ASSUME NEW y \in Things', y # <<"entry", e>>
      PROVE  y \in Things /\ BytesOf(y)' = BytesOf(y)
  <2>1. CASE \E i \in Insn : place'[i] # None /\ y = <<"entry", i>>
    <3>1. PICK i \in Insn : place'[i] # None /\ y = <<"entry", i>>
      BY <2>1
    <3>2. i # e /\ place'[i] = place[i]
      BY <1>1, <1>2, <1>3, <1>6, <3>1
    <3> QED BY <1>2, <3>1, <3>2 DEF Things, BytesOf, Placed
  <2>2. CASE \E i \in Insn : jump'[i] # None /\ y = <<"jump", i>>
    BY <1>2, <2>2 DEF Things, BytesOf
  <2>3. CASE \E i \in patch_list' : y = <<"pin", i>>
    BY <1>2, <2>3 DEF Things, BytesOf, PinAt, PinSize
  <2> QED BY <1>6, <2>1, <2>2, <2>3 DEF Things, Placed
<1>7. Adds(<<"entry", e>>, a, prog.size[e])
  BY <1>5, <1>6 DEF Adds
<1> QED BY <1>3, <1>4, <1>7

LEMMA JumpAdds ==
    ASSUME TypeOK, CursorOK, AppendJump
    PROVE  \E x : Adds(x, cur.addr, TRAMPOLINE_SIZE)
<1>1. cur.dollop \in Insn /\ jump \in [Insn -> Nat \cup {None}]
  BY DEF AppendJump, AtEnd, CursorOK, Locals, TypeOK
<1>2. jump' = [jump EXCEPT ![cur.dollop] = cur.addr] /\ UNCHANGED <<prog, place, patch_list>>
  BY DEF AppendJump
<1>3. PICK d \in Insn : d = cur.dollop
  BY <1>1
<1>4. PICK a : a = cur.addr
  OBVIOUS
<1>5. BytesOf(<<"jump", d>>)' = BytesFrom(a, TRAMPOLINE_SIZE)
  BY <1>1, <1>2, <1>3, <1>4 DEF BytesOf
<1>6. ASSUME NEW y \in Things', y # <<"jump", d>>
      PROVE  y \in Things /\ BytesOf(y)' = BytesOf(y)
  <2>1. CASE \E i \in Insn : jump'[i] # None /\ y = <<"jump", i>>
    <3>1. PICK i \in Insn : jump'[i] # None /\ y = <<"jump", i>>
      BY <2>1
    <3>2. i # d /\ jump'[i] = jump[i]
      BY <1>1, <1>2, <1>3, <1>6, <3>1
    <3> QED BY <1>2, <3>1, <3>2 DEF Things, BytesOf
  <2>2. CASE \E i \in Insn : place'[i] # None /\ y = <<"entry", i>>
    BY <1>2, <2>2 DEF Things, BytesOf, Placed
  <2>3. CASE \E i \in patch_list' : y = <<"pin", i>>
    BY <1>2, <2>3 DEF Things, BytesOf, PinAt, PinSize
  <2> QED BY <1>6, <2>1, <2>2, <2>3 DEF Things, Placed
<1>7. Adds(<<"jump", d>>, a, TRAMPOLINE_SIZE)
  BY <1>5, <1>6 DEF Adds
<1> QED BY <1>3, <1>4, <1>7

(* The chain grows by the bytes of what it places.                         *)
LEMMA GrowingKeepsApart ==
    ASSUME TypeOK, CursorOK, ProgramOK, WithPlugins, Apart,
           NEW x, NEW n \in Nat, Adds(x, cur.addr, n),
           pc = "entries", pc' \in {"entries", "reserve"}, UNCHANGED <<prog, free>>,
           cur'.start = cur.start, cur'.addr = cur.addr + n,
           \A h \in Insn : Waiting(h)' => Waiting(h)
    PROVE  Apart'
<1> DEFINE B == BytesFrom(cur.addr, n)
<1>1. cur.start \in Nat /\ cur.addr \in Nat /\ cur.start <= cur.addr
  BY DEF CursorOK, Locals
<1>2. /\ Claimed = cur.start .. cur.addr - 1
      /\ B = cur.addr .. cur.addr + n - 1
      /\ Claimed' = cur.start .. cur.addr + n - 1
  <2>1. Claimed = cur.start .. cur.addr - 1 /\ B = cur.addr .. cur.addr + n - 1
    BY DEF Claimed, BytesFrom
  <2>2. Claimed' = cur'.start .. cur'.addr - 1
    BY DEF Claimed
  <2> QED BY <1>1, <2>1, <2>2
<1>3. Claimed' = Claimed \cup B /\ Claimed \cap B = {}
  BY <1>1, <1>2
<1>4. SUFFICES ASSUME Claimed' \subseteq free
               PROVE  /\ \A y, z \in Things' : y # z => BytesOf(y)' \cap BytesOf(z)' = {}
                      /\ \A y \in Things' : BytesOf(y)' \cap (free \ Claimed') = {}
                      /\ \A y \in Things', h \in Insn :
                            Waiting(h)' => Handed(prog, h) \cap BytesOf(y)' = {}
  BY DEF Apart
<1>5. /\ \A y, z \in Things : y # z => BytesOf(y) \cap BytesOf(z) = {}
      /\ \A y \in Things : BytesOf(y) \cap (free \ Claimed) = {}
      /\ \A y \in Things, h \in Insn : Waiting(h) => Handed(prog, h) \cap BytesOf(y) = {}
      /\ \A h \in Insn : Waiting(h) => Handed(prog, h) \cap free = {}
  BY <1>3, <1>4 DEF Apart, Running, WithPlugins
<1>6. B \subseteq free \ Claimed /\ B \subseteq Claimed'
  BY <1>3, <1>4
<1>7. \A y \in Things' : y = x \/ (y \in Things /\ BytesOf(y)' = BytesOf(y))
  BY DEF Adds
<1>8. BytesOf(x)' = B
  BY DEF Adds
<1> HIDE DEF B
<1>9. ASSUME NEW y \in Things', NEW z \in Things', y # z
      PROVE  BytesOf(y)' \cap BytesOf(z)' = {}
  <2>1. CASE y = x
    BY <2>1, <1>5, <1>6, <1>7, <1>8, <1>9
  <2>2. CASE z = x
    BY <2>2, <1>5, <1>6, <1>7, <1>8, <1>9
  <2>3. CASE y # x /\ z # x
    BY <2>3, <1>5, <1>7, <1>9
  <2> QED BY <2>1, <2>2, <2>3
<1>10. ASSUME NEW y \in Things' PROVE BytesOf(y)' \cap (free \ Claimed') = {}
  BY <1>3, <1>5, <1>6, <1>7, <1>8
<1>11. ASSUME NEW y \in Things', NEW h \in Insn, Waiting(h)'
       PROVE  Handed(prog, h) \cap BytesOf(y)' = {}
  <2>1. Waiting(h)
    BY <1>11
  <2> QED BY <2>1, <1>5, <1>6, <1>7, <1>8
<1> QED BY <1>9, <1>10, <1>11

LEMMA ApartStep ==
    ASSUME TypeOK, CursorOK, ProgramOK, WithPlugins, Apart, [Next]_vars
    PROVE  Apart'
<1>1. ASSUME NEW h \in Insn, PlaceByPlugin(h) \/ PlaceBySizer(h) PROVE Apart'
  <2>1. PICK c : StartsAt(h, c)
    BY <1>1, Starts DEF ProgramOK
  <2>2. SUFFICES ASSUME Running'
                 PROVE  /\ \A y, z \in Things' : y # z => BytesOf(y)' \cap BytesOf(z)' = {}
                        /\ \A y \in Things' : BytesOf(y)' \cap free' = {}
                        /\ \A y \in Things', g \in Insn :
                              Waiting(g)' => Handed(prog', g) \cap BytesOf(y)' = {}
    BY DEF Apart
  <2>3. pc = "pop" /\ cur' = c /\ c.dollop = h /\ ~ Placed(h)
        /\ UNCHANGED <<prog, place, jump>>
    BY <2>1 DEF StartsAt, Started
  <2>4. pc' = "dollop"
    BY <2>1, <2>2 DEF StartsAt, Started, Running
  <2>5. \A y \in Things' : y \in Things /\ BytesOf(y)' = BytesOf(y)
    <3>1. patch_list' \subseteq patch_list
      BY <2>1, <2>4, StartedBytes
    <3> QED BY <2>3, <3>1 DEF Things, BytesOf, Placed, PinAt, PinSize
  <2>6. Running /\ Claimed = {} /\ Waiting(h)
    BY <2>3 DEF Running, Claimed, Waiting, Placing
  <2>7. /\ \A y, z \in Things : y # z => BytesOf(y) \cap BytesOf(z) = {}
        /\ \A y \in Things : BytesOf(y) \cap free = {}
        /\ \A y \in Things, g \in Insn : Waiting(g) => Handed(prog, g) \cap BytesOf(y) = {}
    BY <2>6 DEF Apart
  <2>8. ASSUME NEW y \in Things' PROVE BytesOf(y)' \cap free' = {}
    <3>1. BytesOf(y) \cap free = {} /\ Handed(prog, h) \cap BytesOf(y) = {}
      BY <2>5, <2>6, <2>7
    <3>2. CASE free' = free \cup Handed(prog, h)
      BY <2>5, <3>1, <3>2
    <3>3. CASE /\ h \in patch_list
               /\ patch_list' = patch_list \ {h}
               /\ free' = free \cup Handed(prog, h) \cup PinAt(prog, h)
      <4>1. <<"pin", h>> \in Things
        BY <3>3 DEF Things
      <4>2. BytesOf(<<"pin", h>>) = PinAt(prog, h)
        BY DEF BytesOf
      <4>3. y # <<"pin", h>>
        BY <3>3 DEF Things
      <4>4. BytesOf(y) \cap PinAt(prog, h) = {}
        BY <2>5, <2>7, <4>1, <4>2, <4>3
      <4> QED BY <2>5, <3>1, <3>3, <4>4
    <3> QED BY <2>1, <2>4, <3>2, <3>3, StartedBytes
  <2>9. ASSUME NEW g \in Insn, Waiting(g)' PROVE Waiting(g)
    BY <2>3, <2>9 DEF Waiting, Placing, Placed
  <2> QED BY <2>3, <2>5, <2>7, <2>8, <2>9
<1>2. CASE PlaceEntry
  <2>1. PICK x : Adds(x, cur.addr, prog.size[cur.entry])
    BY <1>2, EntryAdds
  <2>2. cur \in Locals /\ cur.entry \in Insn
    BY <1>2 DEF PlaceEntry, CursorOK, Locals
  <2>3. prog.size[cur.entry] \in Nat
    BY <2>2, ProgramsAssumption DEF ProgramOK, Typed
  <2>4. PICK n \in Nat : n = prog.size[cur.entry]
    BY <2>3
  <2>5. cur'.start = cur.start /\ cur'.addr = cur.addr + n
    BY <1>2, <2>2, <2>4 DEF PlaceEntry, Locals
  <2>6. pc = "entries" /\ pc' = "entries" /\ UNCHANGED <<prog, free>> /\ Running'
    BY <1>2 DEF PlaceEntry, Running
  <2>7. \A h \in Insn : Waiting(h)' => Waiting(h)
    BY <1>2, <2>6, NoneWaitsAnew
  <2> QED BY <2>1, <2>4, <2>5, <2>6, <2>7, GrowingKeepsApart
<1>3. CASE AppendJump
  <2>1. PICK x : Adds(x, cur.addr, TRAMPOLINE_SIZE)
    BY <1>3, JumpAdds
  <2>2. cur \in Locals /\ TRAMPOLINE_SIZE \in Nat
    BY <1>3, SizesAssumption DEF AppendJump, AtEnd, CursorOK
  <2>3. cur'.start = cur.start /\ cur'.addr = cur.addr + TRAMPOLINE_SIZE
    BY <1>3, <2>2 DEF AppendJump, Locals
  <2>4. pc = "entries" /\ pc' = "reserve" /\ UNCHANGED <<prog, free>> /\ Running'
    BY <1>3 DEF AppendJump, AtEnd, Running
  <2>5. \A h \in Insn : Waiting(h)' => Waiting(h)
    BY <1>3, <2>4, NoneWaitsAnew
  <2> QED BY <2>1, <2>2, <2>3, <2>4, <2>5, GrowingKeepsApart
<1>4. CASE ReserveChain
  <2>1. SUFFICES ASSUME Running' PROVE Apart'
    BY DEF Apart
  <2>2. Claimed \subseteq free /\ Claimed' = {} /\ free' = free \ Claimed /\ Running
        /\ UNCHANGED <<prog, place, jump, patch_list>>
    BY <1>4, <2>1 DEF ReserveChain, Claimed, Running
  <2>3. \A h \in Insn : Waiting(h)' => Waiting(h)
    BY <1>4, <2>1, NoneWaitsAnew
  <2>4. Things' = Things /\ \A y \in Things : BytesOf(y)' = BytesOf(y)
    BY <2>2 DEF Things, BytesOf, Placed, PinAt, PinSize
  <2> QED BY <2>2, <2>3, <2>4 DEF Apart
<1>5. ASSUME \/ \E h \in Insn : SkipPlaced(h)
             \/ BeginDollop \/ SplitToFit \/ NeedsNoJump \/ Coalesce \/ UNCHANGED vars
      PROVE  Apart'
  <2>1. SUFFICES ASSUME Running' PROVE Apart'
    BY DEF Apart
  <2>2. Running /\ \A h \in Insn : Waiting(h)' => Waiting(h)
    BY <1>5, <2>1, NoneWaitsAnew
  <2>3. UNCHANGED <<prog, place, jump, patch_list, free>>
    BY <1>5 DEF SkipPlaced, BeginDollop, SplitToFit, NeedsNoJump, Coalesce, vars
  <2>4. Claimed' = Claimed
    <3>1. CASE (\E h \in Insn : SkipPlaced(h)) \/ NeedsNoJump \/ UNCHANGED vars
      BY <3>1 DEF SkipPlaced, NeedsNoJump, AtEnd, vars, Claimed
    <3>2. CASE BeginDollop \/ SplitToFit \/ Coalesce
      <4>1. cur \in Locals
        BY <3>2 DEF BeginDollop, SplitToFit, Coalesce, AtEnd, CursorOK
      <4>2. cur'.start = cur.start /\ cur'.addr = cur.addr
        BY <3>2, <4>1 DEF BeginDollop, SplitToFit, Coalesce, Locals
      <4>3. pc \in {"dollop", "entries"} /\ pc' \in {"dollop", "entries"}
        BY <2>1, <3>2 DEF BeginDollop, SplitToFit, Coalesce, AtEnd, Running
      <4> QED BY <4>2, <4>3 DEF Claimed
    <3> QED BY <1>5, <3>1, <3>2
  <2>5. Things' = Things /\ \A y \in Things : BytesOf(y)' = BytesOf(y)
    BY <2>3 DEF Things, BytesOf, Placed, PinAt, PinSize
  <2> QED BY <2>2, <2>3, <2>4, <2>5 DEF Apart
<1> QED BY <1>1, <1>2, <1>3, <1>4, <1>5 DEF Next

-----------------------------------------------------------------------------
(* The order entries are placed in.                                        *)

LEMMA LaidStep ==
    ASSUME TypeOK, CursorOK, ProgramOK, InOrder, LaidInARow, [Next]_vars
    PROVE  LaidInARow'
<1> USE DEF Placed
<1>1. Typed(prog) /\ TypeOK' /\ CursorOK'
  BY ProgramsAssumption, TypeStep, CursorStep DEF ProgramOK
<1>2. SUFFICES ASSUME pc' = "entries", cur'.entry # cur'.dollop
               PROVE  \E D \in SUBSET Insn : \E j \in D : LaidDown(D, j)'
  BY DEF LaidInARow
<1>3. CASE PlaceEntry
  <2>1. PICK e \in Insn : e = cur.entry
    BY <1>3 DEF PlaceEntry, CursorOK, Locals
  <2>2. PICK a \in Nat : a = cur.addr
    BY <1>3 DEF PlaceEntry, CursorOK, Locals
  <2>3. place' = [place EXCEPT ![e] = a] /\ place[e] = None /\ a # None
    BY <1>3, <2>1, <2>2, NoneAssumption DEF PlaceEntry, CursorOK, Placing
  <2>4. /\ cur'.entry = NextEntry(e) /\ cur'.addr = a + prog.size[e]
        /\ cur'.dollop = cur.dollop
    BY <1>3, <2>1, <2>2 DEF PlaceEntry, CursorOK, Locals
  <2>5. UNCHANGED <<prog, fronts>> /\ \A k \in Insn : NextEntry(k)' = NextEntry(k)
    BY <1>3 DEF PlaceEntry, NextEntry
  <2>6. place'[e] = a /\ \A k \in Insn : place[k] # None => k # e /\ place'[k] = place[k]
    BY <2>3 DEF TypeOK
  <2>7. CASE e = cur.dollop
    <3>1. LaidDown({e}, e)'
      BY <2>3, <2>4, <2>5, <2>6, <2>7 DEF LaidDown
    <3> QED BY <3>1
  <2>8. CASE e # cur.dollop
    <3>1. PICK D \in SUBSET Insn : \E j \in D : LaidDown(D, j)
      BY <1>3, <2>1, <2>8 DEF LaidInARow, PlaceEntry
    <3>2. PICK j \in D : LaidDown(D, j)
      BY <3>1
    <3>3. cur'.dollop \in D \cup {e}
      BY <2>4, <3>2 DEF LaidDown
    <3>4. ASSUME NEW k \in D \cup {e}
          PROVE  place'[k] # None /\ (k # e => NextEntry(k)' \in D \cup {e})
      BY <2>1, <2>3, <2>5, <2>6, <3>2 DEF LaidDown
    <3>5. LaidDown(D \cup {e}, e)'
      BY <2>4, <2>5, <2>6, <3>3, <3>4 DEF LaidDown
    <3> QED BY <3>5
  <2> QED BY <2>7, <2>8
<1>4. CASE SplitToFit
  <2>1. PICK e \in Insn : e = cur.entry
    BY <1>4 DEF SplitToFit, CursorOK, Locals
  <2>2. e # cur.dollop /\ place[e] = None /\ None \notin fronts \cup {e}
    BY <1>2, <1>4, <2>1, NoneAssumption DEF SplitToFit, CursorOK, Placing, TypeOK
  <2>3. PICK D \in SUBSET Insn : \E j \in D : LaidDown(D, j)
    BY <1>4, <2>1, <2>2 DEF LaidInARow, SplitToFit
  <2>4. PICK j \in D : LaidDown(D, j)
    BY <2>3
  <2>5. /\ cur'.entry = None /\ cur'.addr = cur.addr /\ cur'.dollop = cur.dollop
        /\ UNCHANGED <<prog, place>> /\ fronts' = fronts \cup {e}
    BY <1>4, <2>1 DEF SplitToFit, CursorOK, Locals
  <2>6. ASSUME NEW k \in D, k # j PROVE NextEntry(k)' \in D
    <3>1. NextEntry(k) \in D /\ NextEntry(k) # e /\ NextEntry(k) # None
      BY <2>2, <2>4, <2>6, NoneAssumption DEF LaidDown
    <3> QED BY <2>5, <3>1 DEF NextEntry
  <2>7. NextEntry(j)' = None
    BY <2>1, <2>2, <2>4, <2>5 DEF LaidDown, NextEntry
  <2>8. LaidDown(D, j)'
    BY <2>4, <2>5, <2>6, <2>7 DEF LaidDown
  <2> QED BY <2>8
<1>5. CASE BeginDollop
  <2>1. cur'.entry = cur'.dollop
    BY <1>5 DEF BeginDollop, CursorOK, Locals
  <2> QED BY <1>2, <2>1
<1>6. ASSUME NEW h \in Insn, PlaceByPlugin(h) \/ PlaceBySizer(h) PROVE FALSE
  <2>1. PICK c : StartsAt(h, c)
    BY <1>6, Starts DEF ProgramOK
  <2> QED BY <1>2, <2>1 DEF StartsAt, Started
<1>7. CASE UNCHANGED vars
  <2>1. \A D \in SUBSET Insn, j \in Insn : LaidDown(D, j)' <=> LaidDown(D, j)
    BY <1>7 DEF vars, LaidDown, NextEntry
  <2> QED BY <1>2, <1>7, <2>1 DEF vars, LaidInARow
<1> QED
  BY <1>2, <1>3, <1>4, <1>5, <1>6, <1>7
     DEF Next, SkipPlaced, NeedsNoJump, AppendJump, Coalesce, ReserveChain

LEMMA InOrderStep ==
    ASSUME TypeOK, CursorOK, ProgramOK, InOrder, LaidInARow, [Next]_vars
    PROVE  InOrder'
<1> USE DEF Placed
<1>1. CASE PlaceEntry
  <2>1. PICK e \in Insn : e = cur.entry
    BY <1>1 DEF PlaceEntry, CursorOK, Locals
  <2>2. /\ place[e] = None /\ UNCHANGED <<prog, fronts>>
        /\ \A k \in Insn : place[k] # None => place'[k] # None
        /\ \A k \in Insn : k # e => place'[k] = place[k]
    BY <1>1, <2>1, NoneAssumption DEF PlaceEntry, CursorOK, Placing, Locals, TypeOK
  <2>3. ASSUME e \notin fronts PROVE \E j \in Insn : prog.ft[j] = e /\ place[j] # None
    <3>1. e # cur.dollop
      BY <1>1, <2>3 DEF PlaceEntry, CursorOK, Placing
    <3>2. PICK D \in SUBSET Insn : \E j \in D : LaidDown(D, j)
      BY <1>1, <2>1, <3>1 DEF LaidInARow, PlaceEntry
    <3>3. PICK j \in D : LaidDown(D, j)
      BY <3>2
    <3>4. NextEntry(j) = e /\ place[j] # None
      BY <2>1, <3>3 DEF LaidDown
    <3> QED BY <2>1, <3>4, NoneAssumption DEF NextEntry
  <2>4. ASSUME NEW i \in Insn, place'[i] # None, i \notin fronts
        PROVE  \E j \in Insn : prog.ft[j] = i /\ place'[j] # None
    <3>1. \E j \in Insn : prog.ft[j] = i /\ place[j] # None
      BY <2>2, <2>3, <2>4 DEF InOrder
    <3> QED BY <2>2, <3>1
  <2> QED BY <2>2, <2>4 DEF InOrder
<1>2. ASSUME NEW h \in Insn, PlaceByPlugin(h) \/ PlaceBySizer(h) PROVE InOrder'
  <2>1. PICK c : StartsAt(h, c)
    BY <1>2, Starts DEF ProgramOK
  <2> QED BY <2>1 DEF StartsAt, Started, InOrder
<1>3. CASE SplitToFit
  BY <1>3 DEF SplitToFit, InOrder
<1>4. CASE UNCHANGED vars
  BY <1>4 DEF vars, InOrder
<1> QED
  BY <1>1, <1>2, <1>3, <1>4
     DEF Next, SkipPlaced, BeginDollop, NeedsNoJump, AppendJump, Coalesce, ReserveChain, InOrder

-----------------------------------------------------------------------------
(* Alignment, and what is queued.                                          *)

LEMMA AlignedStep ==
    ASSUME TypeOK, CursorOK, ProgramOK, AllAligned, AlignedNext, [Next]_vars
    PROVE  AllAligned'
<1> USE DEF Placed
<1>1. CASE PlaceEntry
  <2>1. PICK e \in Insn : e = cur.entry
    BY <1>1 DEF PlaceEntry, CursorOK, Locals
  <2>2. PICK a \in Nat : a = cur.addr
    BY <1>1 DEF PlaceEntry, CursorOK, Locals
  <2>3. place[e] = None /\ place' = [place EXCEPT ![e] = a] /\ UNCHANGED prog
    BY <1>1, <2>1, <2>2 DEF PlaceEntry, CursorOK, Placing
  <2>4. place'[e] = a /\ \A k \in Insn : place[k] # None => k # e /\ place'[k] = place[k]
    BY <2>3 DEF TypeOK
  <2>5. ASSUME NEW i \in Insn, place'[i] # None, prog.ibta[i] = 0, i # e
        PROVE  Aligned(i)'
    <3>1. place'[i] = place[i] /\ Aligned(i)
      BY <2>3, <2>5 DEF AllAligned, TypeOK
    <3> QED BY <2>3, <2>4, <3>1 DEF Aligned, Addressed
  <2>6. ASSUME prog.ibta[e] = 0 PROVE Aligned(e)'
    <3>1. e \in fronts
      BY <2>6, ProgramsAssumption, NoneAssumption DEF ProgramOK, Typed
    <3>2. e = cur.dollop
      BY <1>1, <2>1, <3>1 DEF PlaceEntry, CursorOK, Placing
    <3>3. \/ a % UNPIN_ALIGNMENT = 0 \/ Addressed(e)
          \/ \E j \in Insn : /\ prog.ft[j] = e /\ prog.function[e] = prog.function[j]
                            /\ Placed(j) /\ a = place[j] + prog.size[j]
      BY <1>1, <2>1, <2>2, <2>6, <3>2 DEF PlaceEntry, AlignedNext, Placing
    <3> QED BY <2>3, <2>4, <3>3 DEF Aligned, Addressed
  <2>7. ASSUME NEW i \in Insn, place'[i] # None, prog.ibta[i] = 0 PROVE Aligned(i)'
    BY <2>5, <2>6, <2>7
  <2> QED BY <2>3, <2>7 DEF AllAligned
<1>2. ASSUME UNCHANGED <<prog, place>> PROVE AllAligned'
  BY <1>2 DEF AllAligned, Aligned, Addressed
<1>3. ASSUME NEW h \in Insn, PlaceByPlugin(h) \/ PlaceBySizer(h) PROVE UNCHANGED <<prog, place>>
  <2>1. PICK c : StartsAt(h, c)
    BY <1>3, Starts DEF ProgramOK
  <2> QED BY <2>1 DEF StartsAt, Started
<1> QED
  BY <1>1, <1>2, <1>3
     DEF Next, SkipPlaced, BeginDollop, SplitToFit, NeedsNoJump, AppendJump, Coalesce,
         ReserveChain, vars

LEMMA AlignedNextStep ==
    ASSUME TypeOK, CursorOK, ProgramOK, InOrder, LaidInARow, AlignedNext, [Next]_vars
    PROVE  AlignedNext'
<1> SUFFICES ASSUME Placing', cur'.entry = cur'.dollop, prog'.ibta[cur'.dollop] = 0
             PROVE  \/ cur'.addr % UNPIN_ALIGNMENT = 0
                    \/ Addressed(cur.dollop)'
                    \/ \E j \in Insn : /\ prog'.ft[j] = cur'.dollop
                                      /\ prog'.function[cur'.dollop] = prog'.function[j]
                                      /\ Placed(j)' /\ cur'.addr = place'[j] + prog'.size[j]
  BY DEF AlignedNext
<1>1. CursorOK'
  BY CursorStep
<1>2. ASSUME NEW h \in Insn, PlaceByPlugin(h) \/ PlaceBySizer(h)
      PROVE  cur'.addr % UNPIN_ALIGNMENT = 0 \/ Addressed(cur.dollop)'
  <2>1. PICK c : StartsAt(h, c)
    BY <1>2, Starts DEF ProgramOK
  <2> QED BY <2>1 DEF StartsAt, Started, Addressed
<1>3. CASE BeginDollop
  <2>1. /\ cur'.addr = cur.addr /\ cur'.dollop = cur.dollop /\ cur'.entry = cur.entry
        /\ UNCHANGED <<prog, place>> /\ Placing
    BY <1>3 DEF BeginDollop, CursorOK, Locals, Placing
  <2> QED BY <2>1 DEF AlignedNext, Addressed, Placed
<1>4. CASE PlaceEntry \/ SplitToFit
  <2>1. CASE PlaceEntry
    <3>1. cur'.entry = NextEntry(cur.entry) /\ cur'.dollop = cur.dollop
          /\ pc = "entries" /\ cur.entry # None /\ cur.dollop \in fronts /\ None \notin fronts
      BY <2>1, NoneAssumption DEF PlaceEntry, CursorOK, Locals, Placing, TypeOK
    <3>2. NextEntry(cur.entry) # None => NextEntry(cur.entry) \notin fronts
      BY <3>1, NextIsNotPlaced
    <3> QED BY <3>1, <3>2
  <2>2. CASE SplitToFit
    BY <2>2, NoneAssumption DEF SplitToFit, CursorOK, Locals
  <2> QED BY <1>4, <2>1, <2>2
<1>5. CASE Coalesce
  <2>1. PICK f : f = Next_
    OBVIOUS
  <2>2. /\ pc = "entries" /\ cur.entry = None /\ cur.dollop \in Insn /\ f # None
        /\ cur'.dollop = f /\ cur'.addr = cur.addr /\ UNCHANGED <<prog, fronts, place>>
        /\ canCoalesce(cur.dollop)
    BY <1>5, <2>1 DEF Coalesce, AtEnd, CursorOK, Locals, MayCoalesce
  <2>3. PICK D \in SUBSET Insn : \E j \in D : LaidDown(D, j)
    BY <2>2, NoneAssumption DEF LaidInARow
  <2>4. PICK j \in D : LaidDown(D, j)
    BY <2>3
  <2>5. EndsAt(EntryAfter, D, j)
    BY <2>2, <2>4 DEF LaidDown, EndsAt, EntryAfter
  <2>6. back(cur.dollop) = j
    BY <2>4, <2>5, BackIs DEF LaidDown, ProgramOK
  <2>7. f = prog.ft[j] /\ prog.ibta[f] = 0
    BY <2>1, <2>2, <2>6 DEF Next_, FallthroughDollop
  <2>8. prog.function[f] = prog.function[j]
    BY <2>2, <2>6, <2>7, NoneAssumption DEF canCoalesce, FallthroughDollop
  <2>9. Placed(j) /\ cur.addr = place[j] + prog.size[j]
    BY <2>4 DEF LaidDown
  <2> QED BY <2>2, <2>7, <2>8, <2>9 DEF Placed
<1>6. CASE UNCHANGED vars
  BY <1>6 DEF vars, AlignedNext, Placing, Placed, Addressed
<1> QED
  BY <1>2, <1>3, <1>4, <1>5, <1>6
     DEF Next, SkipPlaced, NeedsNoJump, AppendJump, ReserveChain, Placing

LEMMA RememberedStep ==
    ASSUME TypeOK, CursorOK, ProgramOK, Remembered, [Next]_vars
    PROVE  Remembered'
<1> SUFFICES ASSUME Running', NEW i \in Insn, Wanted(i)'
             PROVE  Placed(i)' \/ i \in placement_queue' \/ (Placing' /\ cur'.dollop = i)
  BY DEF Remembered
<1> DEFINE Kept == Placed(i) \/ i \in placement_queue \/ (Placing /\ cur.dollop = i)
<1>1. ASSUME Running, UNCHANGED <<prog, place>> PROVE Kept
  BY <1>1 DEF Remembered, Wanted, Pinned, Placed
<1>2. ASSUME NEW h \in Insn, SkipPlaced(h) PROVE Placed(i)' \/ i \in placement_queue'
  <2>1. Kept /\ ~ Placing
    BY <1>1, <1>2 DEF SkipPlaced, Running, Placing
  <2> QED BY <1>2, <2>1 DEF SkipPlaced, Placed
<1>3. ASSUME NEW h \in Insn, PlaceByPlugin(h) \/ PlaceBySizer(h)
      PROVE  Placed(i)' \/ i \in placement_queue' \/ (Placing' /\ cur'.dollop = i)
  <2>1. PICK c : StartsAt(h, c)
    BY <1>3, Starts DEF ProgramOK
  <2>2. pc = "pop" /\ UNCHANGED <<prog, place>> /\ placement_queue' = placement_queue \ {h}
        /\ cur'.dollop = h /\ pc' \in {"dollop", "spinning", "aborted"}
    BY <2>1 DEF StartsAt, Started
  <2>3. Kept /\ ~ Placing /\ Placing'
    BY <1>1, <2>2 DEF Running, Placing
  <2> QED BY <2>2, <2>3 DEF Placed
<1>4. CASE PlaceEntry
  <2>1. PICK e \in Insn : e = cur.entry
    BY <1>4 DEF PlaceEntry, CursorOK, Locals
  <2>2. /\ \A k \in Insn : place[k] # None => place'[k] # None
        /\ \A k \in Insn : k # e => place'[k] = place[k]
        /\ cur'.dollop = cur.dollop
    BY <1>4, <2>1, NoneAssumption DEF PlaceEntry, CursorOK, Locals, TypeOK
  <2>3. CASE Wanted(i)
    <3>1. Kept
      BY <1>4, <2>3 DEF Remembered, PlaceEntry, Running
    <3> QED BY <1>4, <2>2, <3>1 DEF PlaceEntry, Placed, Placing
  <2>4. CASE ~ Wanted(i)
    <3>1. prog.target[e] = i
      BY <1>4, <2>2, <2>4 DEF PlaceEntry, Wanted, Pinned, Placed
    <3> QED BY <1>4, <2>1, <3>1, NoneAssumption DEF PlaceEntry
  <2> QED BY <2>3, <2>4
<1>5. CASE BeginDollop \/ SplitToFit
  <2>1. Kept
    BY <1>1, <1>5 DEF BeginDollop, SplitToFit, Running
  <2>2. cur'.dollop = cur.dollop /\ Placing' /\ UNCHANGED <<place, placement_queue>>
    BY <1>5 DEF BeginDollop, SplitToFit, CursorOK, Locals, Running, Placing
  <2> QED BY <2>1, <2>2 DEF Placed
<1>6. CASE NeedsNoJump \/ AppendJump \/ Coalesce
  <2>1. Kept /\ Placed(cur.dollop) /\ UNCHANGED place
    BY <1>1, <1>6, NoneAssumption
       DEF NeedsNoJump, AppendJump, Coalesce, AtEnd, Running, CursorOK, Placing, Locals
  <2>2. placement_queue \subseteq placement_queue'
    BY <1>6 DEF NeedsNoJump, AppendJump, Coalesce
  <2> QED BY <2>1, <2>2 DEF Placed
<1>7. CASE ReserveChain
  BY <1>1, <1>7 DEF ReserveChain, Running, Placing, Placed
<1>8. CASE UNCHANGED vars
  BY <1>1, <1>8 DEF vars, Running, Placing, Placed
<1> QED BY <1>2, <1>3, <1>4, <1>5, <1>6, <1>7, <1>8 DEF Next

-----------------------------------------------------------------------------
(* Room: why no chain outgrows the range it was given.                     *)

(* Control runs from h into its fallthrough when it reaches a.             *)
RunsOnAt(h, a) ==
    LET f == FallthroughDollop(h)
    IN  f # None /\ \/ Pinned(f) /\ prog.ibta[f] = a
                    \/ ~ cur.am_coalescing /\ cur.ftPlace = a

(* An answer that abuts reaches up to where control runs on.               *)
AbutsAt(a) == cur.abuts => a <= cur.end + 1 /\ RunsOnAt(cur.dollop, a)

(* A dollop is begun with room for all of it and a jump, for its first     *)
(* entry and a jump, or for all that may be joined with it.                *)
RoomToStart ==
    LET h == cur.dollop
    IN  pc = "dollop" =>
            /\ AbutsAt(cur.addr + Rest(h))
            /\ \/ cur.abuts
               \/ CalculateSize(h) <= Room
               \/ EntrySize(h, TRUE) <= Room
               \/ cur.allowed_coalescing /\ SizeInclFallthrough(h) <= Room

(* An entry that is not the first is only reached with room for the rest,  *)
(* or for a jump in its place.                                             *)
RoomToGoOn ==
    LET h == cur.dollop
        i == cur.entry
    IN  pc = "entries" /\ i # None =>
            /\ back(i) = back(h)
            /\ AbutsAt(cur.addr + Rest(i))
            /\ cur.fits => Rest(i) + JumpOut(h) <= Room
            /\ cur.allFit => Rest(i) + Beyond(h) <= Room
            /\ \/ cur.abuts
               \/ cur.fits
               \/ cur.allFit /\ cur.allowed_coalescing
               \/ (IF i = h THEN EntrySize(h, TRUE) ELSE TRAMPOLINE_SIZE) <= Room

(* Behind the last entry, there is room for the jump that may be needed.   *)
RoomToEnd ==
    AtEnd =>
        /\ AbutsAt(cur.addr)
        /\ \/ cur.abuts
           \/ TRAMPOLINE_SIZE <= Room
           \/ Next_ = None /\ 0 <= Room
           \/ /\ Next_ # None /\ cur.allowed_coalescing /\ canCoalesce(cur.dollop)
              /\ ~ Placed(Next_) /\ SizeInclFallthrough(Next_) <= Room

RoomUsed    == pc = "reserve" => cur.addr <= cur.end + 1
GivenIsFree == pc \in {"dollop", "entries", "reserve"} => cur.start .. cur.end \subseteq free
PatchesWait == \A h \in Insn : Pinned(h) /\ Waiting(h) => h \in patch_list

RoomInv == RoomToStart /\ RoomToGoOn /\ RoomToEnd /\ RoomUsed
           /\ GivenIsFree /\ PatchesWait /\ CoalescedPlaced /\ Running

(* The code counts the bytes of a pin in an unsigned int.                  *)
PinsBelow == \A p \in Programs : \A i \in PinsOf(p) : p.ibta[i] + PinSize(p, i) < UIntMod

(* What a dollop is made of changes when one is split only.                *)
LEMMA ShapeStays ==
    ASSUME UNCHANGED <<prog, fronts>>, NEW h \in Insn
    PROVE  /\ Rest(h)' = Rest(h) /\ back(h)' = back(h) /\ NextEntry(h)' = NextEntry(h)
           /\ FallthroughDollop(h)' = FallthroughDollop(h) /\ JumpOut(h)' = JumpOut(h)
           /\ canCoalesce(h)' <=> canCoalesce(h)
<1>1. /\ Rest(h)' = Rest(h) /\ back(h)' = back(h) /\ NextEntry(h)' = NextEntry(h)
      /\ FallthroughDollop(h)' = FallthroughDollop(h)
      /\ canCoalesce(h)' <=> canCoalesce(h)
  BY DEF Rest, FallthroughDollop, canCoalesce, back, NextEntry
<1> QED BY <1>1 DEF JumpOut

(* Sizes change only when something is placed, split or joined.            *)
LEMMA SizesStay ==
    ASSUME UNCHANGED <<prog, fronts, place, coalesced>>, NEW h \in Insn
    PROVE  /\ CalculateSize(h)' = CalculateSize(h)
           /\ SizeInclFallthrough(h)' = SizeInclFallthrough(h)
           /\ Beyond(h)' = Beyond(h)
           /\ Placed(h)' <=> Placed(h)
  BY DEF CalculateSize, SizeInclFallthrough, Beyond, Placed, FallthroughDollop, canCoalesce,
         back, NextEntry

(* The numbers the loop computes with.                                     *)
LEMMA CursorIs ==
    ASSUME TypeOK, CursorOK, ProgramOK, CoalescedPlaced, Placing
    PROVE  /\ cur \in Locals /\ cur.addr \in Nat /\ cur.end \in Nat /\ Room \in Int
           /\ TRAMPOLINE_SIZE \in Nat /\ TRAMPOLINE_SIZE \in Int
           /\ cur.dollop \in Insn /\ SizesAddUp(cur.dollop)
           /\ cur.entry \in Insn \cup {None} /\ None \notin Insn /\ None \notin Nat
<1>1. cur \in Locals
  BY DEF CursorOK, Placing
<1>2. cur.addr \in Nat /\ cur.end \in Nat /\ cur.dollop \in Insn /\ cur.entry \in Insn \cup {None}
  BY <1>1 DEF Locals
<1>3. Room \in Int
  BY <1>2 DEF Room
<1> QED BY <1>1, <1>2, <1>3, SizesAre, SizesAssumption, NoneAssumption

(* A range for h has room for it.                                          *)
LEMMA RangeHasRoom ==
    ASSUME RoomyPlans, TypeOK, ProgramOK, CoalescedPlaced, NEW h \in Insn, ~ Placed(h),
           NEW c \in Locals, c.start = c.addr, RangeFor(h, c)
    PROVE  /\ c.abuts => /\ c.addr + Rest(h) <= c.end + 1
                         /\ FallthroughDollop(h) # None
                         /\ \/ /\ Pinned(FallthroughDollop(h))
                               /\ prog.ibta[FallthroughDollop(h)] = c.addr + Rest(h)
                            \/ c.ftPlace = c.addr + Rest(h)
           /\ \/ c.abuts
              \/ CalculateSize(h) <= c.end - c.addr
              \/ EntrySize(h, TRUE) <= c.end - c.addr
              \/ c.allowed_coalescing /\ SizeInclFallthrough(h) <= c.end - c.addr
<1>1. /\ CalculateSize(h) = Rest(h) + JumpOut(h)
      /\ CalculateSize(h) \in Nat /\ SizeInclFallthrough(h) \in Nat /\ Rest(h) \in Nat
  BY SizesAre, RestAlong DEF SizesAddUp
<1>2. c.addr \in Nat /\ c.end \in Nat /\ TRAMPOLINE_SIZE \in Nat /\ EntrySize(h, TRUE) \in Nat
  <2>1. prog.size[h] \in Nat
    BY ProgramsAssumption DEF ProgramOK, Typed
  <2> QED BY <2>1, SizesAssumption DEF Locals, EntrySize
<1>3. ASSUME NEW n \in Int, n >= Needed(h) PROVE EntrySize(h, TRUE) <= n \/ SizeInclFallthrough(h) <= n
  BY <1>1, <1>2, <1>3 DEF Needed, Lesser
<1>4. Needed(h) \in {EntrySize(h, TRUE), SizeInclFallthrough(h)}
  BY DEF Needed, Lesser
<1>5. Needed(h) \in Int
  <2>1. PICK m \in Nat : m = EntrySize(h, TRUE)
    BY <1>2
  <2>2. PICK n \in Nat : n = SizeInclFallthrough(h)
    BY <1>1
  <2>3. Needed(h) = m \/ Needed(h) = n
    BY <1>4, <2>1, <2>2
  <2> QED BY <2>3
<1>6. CASE /\ c.allowed_coalescing /\ ~ c.abuts
           /\ c.end - c.start >= Needed(h)
  <2>1. c.end - c.addr \in Int /\ c.end - c.addr >= Needed(h)
    BY <1>2, <1>6
  <2>2. EntrySize(h, TRUE) <= c.end - c.addr \/ SizeInclFallthrough(h) <= c.end - c.addr
    BY <1>3, <2>1
  <2> QED BY <1>6, <2>2
<1>7. CASE /\ Addressed(h) /\ Accepted(h) /\ Roomy(h)
           /\ c.start = prog.plan[h].start /\ c.end = prog.plan[h].end
           /\ c.allowed_coalescing = prog.plan[h].coalesce
           /\ c.abuts <=> AbutsPin(h) \/ AbutsFallthrough(h)
           /\ c.ftPlace = FallthroughPlace(h)
  <2>1. prog.plan[h].start = c.addr /\ prog.plan[h].end = c.end
    BY <1>7
  <2>2. CASE AbutsPin(h) \/ AbutsFallthrough(h)
    <3>1. FallthroughDollop(h) # None
      BY <2>2 DEF AbutsPin, AbutsFallthrough, FallthroughPlace
    <3>2. c.addr + CalculateSize(h) - TRAMPOLINE_SIZE = c.addr + Rest(h)
          /\ CalculateSize(h) - TRAMPOLINE_SIZE = Rest(h)
      BY <1>1, <1>2, <3>1 DEF JumpOut
    <3>3. c.end - c.addr + 1 >= Rest(h)
      BY <1>7, <2>1, <2>2, <3>2 DEF Roomy
    <3>4. c.addr + Rest(h) <= c.end + 1
      BY <1>1, <1>2, <3>3
    <3>5. c.abuts
      BY <1>7, <2>2
    <3>6. \/ /\ Pinned(FallthroughDollop(h))
             /\ prog.ibta[FallthroughDollop(h)] = c.addr + Rest(h)
          \/ c.ftPlace = c.addr + Rest(h)
      BY <1>7, <2>1, <2>2, <3>2 DEF AbutsPin, AbutsFallthrough
    <3> QED BY <3>1, <3>4, <3>5, <3>6
  <2>3. CASE ~ (AbutsPin(h) \/ AbutsFallthrough(h))
    <3>1. ~ c.abuts
      BY <1>7, <2>3
    <3>2. \/ c.allowed_coalescing
          \/ CalculateSize(h) <= c.end - c.addr \/ EntrySize(h, TRUE) <= c.end - c.addr
      BY <1>7, <2>1, <2>3 DEF Roomy
    <3>3. c.end - c.addr >= minimum_valid_req_size(h) \/ CalculateSize(h) <= c.end - c.addr
      BY <1>7, <2>1, <2>3 DEF Accepted
    <3>5. CASE c.end - c.addr >= minimum_valid_req_size(h)
      <4>1. c.end - c.addr \in Int /\ c.end - c.addr >= Needed(h)
        BY <1>2, <1>5, <3>5 DEF minimum_valid_req_size
      <4>2. EntrySize(h, TRUE) <= c.end - c.addr \/ SizeInclFallthrough(h) <= c.end - c.addr
        BY <1>3, <4>1
      <4> QED BY <3>1, <3>2, <4>2
    <3> QED BY <3>1, <3>3, <3>5
  <2> QED BY <2>2, <2>3
<1> QED BY <1>6, <1>7 DEF RangeFor

(* PlaceByPlugin and PlaceBySizer start a dollop with room in free bytes.  *)
LEMMA RoomAtStart ==
    ASSUME RoomyPlans, PinsBelow, TypeOK, CursorOK, ProgramOK, RoomInv,
           NEW h \in Insn, PlaceByPlugin(h) \/ PlaceBySizer(h)
    PROVE  RoomInv'
<1> USE DEF RoomInv
<1>1. PICK c : StartsAt(h, c) /\ RangeFor(h, c)
  BY Starts
<1>2. c \in Locals /\ c.dollop = h /\ c.start = c.addr /\ ~ Placed(h) /\ pc = "pop"
      /\ c.addr \in Nat /\ c.end \in Nat
  BY <1>1 DEF StartsAt, Locals
<1>3. Started(h, c, Handed(prog, h))
  BY <1>1 DEF StartsAt
<1>4. cur' = c /\ UNCHANGED <<prog, fronts, place, coalesced>>
  BY <1>3 DEF Started
<1>5. pc' = "dollop"
  <2>1. ASSUME AtopOwnPin(h, c.addr)
        PROVE  c.addr + PinSize(prog, h) < UIntMod /\ h \in patch_list
    <3>1. h \in PinsOf(prog) /\ prog.ibta[h] = c.addr
      BY <2>1 DEF AtopOwnPin, Pinned
    <3>2. h \in patch_list
      BY <1>2, <3>1 DEF PatchesWait, Pinned, Waiting, Placing
    <3>3. prog.ibta[h] + PinSize(prog, h) < UIntMod
      BY <3>1 DEF PinsBelow, ProgramOK
    <3> QED BY <3>1, <3>2, <3>3
  <2>2. UIntMod \in Nat /\ PinSize(prog, h) \in Nat
    BY SizesAssumption DEF PinSize
  <2> QED BY <1>2, <1>3, <2>1, <2>2 DEF Started
<1>6. RoomToStart'
  <2>1. /\ c.abuts => /\ c.addr + Rest(h) <= c.end + 1
                      /\ FallthroughDollop(h) # None
                      /\ \/ /\ Pinned(FallthroughDollop(h))
                            /\ prog.ibta[FallthroughDollop(h)] = c.addr + Rest(h)
                         \/ c.ftPlace = c.addr + Rest(h)
        /\ \/ c.abuts
           \/ CalculateSize(h) <= c.end - c.addr
           \/ EntrySize(h, TRUE) <= c.end - c.addr
           \/ c.allowed_coalescing /\ SizeInclFallthrough(h) <= c.end - c.addr
    BY <1>1, <1>2, RangeHasRoom
  <2>2. /\ CalculateSize(h)' = CalculateSize(h)
        /\ SizeInclFallthrough(h)' = SizeInclFallthrough(h)
        /\ Rest(h)' = Rest(h) /\ FallthroughDollop(h)' = FallthroughDollop(h)
    BY <1>4, SizesStay, ShapeStays
  <2>3. EntrySize(h, TRUE)' = EntrySize(h, TRUE) /\ Room' = c.end - c.addr
    BY <1>4 DEF EntrySize, Room
  <2>4. ~ c.am_coalescing
    BY <1>1 DEF RangeFor
  <2>5. AbutsAt(cur.addr + Rest(h))'
    BY <1>2, <1>4, <2>1, <2>2, <2>4 DEF AbutsAt, RunsOnAt, Pinned
  <2> QED BY <1>2, <1>4, <2>1, <2>2, <2>3, <2>5 DEF RoomToStart
<1>7. GivenIsFree'
  <2>1. c.start .. c.end \subseteq free'
    <3>1. CASE /\ c.start = prog.plan[h].start /\ c.end = prog.plan[h].end /\ Addressed(h)
      <4>1. CASE AtopOwnPin(h, c.addr)
        <5>1. BytesFrom(c.addr, PinSize(prog, h)) = PinAt(prog, h)
          BY <4>1 DEF PinAt, AtopOwnPin
        <5> QED BY <1>3, <3>1, <4>1, <5>1 DEF Handed, Started, Addressed
      <4>2. CASE ~ AtopOwnPin(h, c.addr)
        BY <1>2, <1>3, <3>1, <4>2 DEF Handed, Started, Addressed, AtopOwnPin, Pinned
      <4> QED BY <4>1, <4>2
    <3>2. CASE c.start .. c.end \subseteq free \cup Handed(prog, h)
      BY <1>3, <3>2 DEF Started
    <3> QED BY <1>1, <3>1, <3>2 DEF RangeFor
  <2> QED BY <1>4, <2>1 DEF GivenIsFree
<1>8. PatchesWait'
  <2>1. patch_list \ {h} \subseteq patch_list'
    BY <1>3 DEF Started
  <2> QED BY <1>2, <1>4, <1>5, <2>1 DEF PatchesWait, Waiting, Placing, Placed, Pinned
<1>9. CoalescedPlaced'
  BY <1>4 DEF CoalescedPlaced, Placed
<1> QED BY <1>5, <1>6, <1>7, <1>8, <1>9 DEF RoomToGoOn, RoomToEnd, AtEnd, RoomUsed, Running


(* Each round of the loop begins with the room its dollop was given.       *)
LEMMA RoomAtDollop ==
    ASSUME TypeOK, CursorOK, ProgramOK, RoomInv, BeginDollop
    PROVE  RoomToGoOn' /\ RoomToEnd'
<1>0. /\ cur \in Locals /\ cur.addr \in Nat /\ cur.end \in Nat /\ Room \in Int
      /\ cur.dollop \in Insn /\ SizesAddUp(cur.dollop) /\ None \notin Insn
  BY CursorIs DEF BeginDollop, Placing, RoomInv
<1>1. PICK h \in Insn : h = cur.dollop /\ SizesAddUp(h)
  BY <1>0
<1>2. cur.entry = h /\ ~ Placed(h)
  BY <1>0, <1>1 DEF BeginDollop, CursorOK, Placing
<1>3. cur' = [cur EXCEPT !.fits   = CalculateSize(h) <= Room,
                         !.allFit = SizeInclFallthrough(h) <= Room]
      /\ UNCHANGED <<prog, fronts, place, coalesced>>
  BY <1>1 DEF BeginDollop
<1>4. /\ cur'.dollop = h /\ cur'.entry = h /\ cur'.addr = cur.addr /\ cur'.end = cur.end
      /\ cur'.abuts = cur.abuts /\ cur'.ftPlace = cur.ftPlace
      /\ cur'.am_coalescing = cur.am_coalescing
      /\ cur'.allowed_coalescing = cur.allowed_coalescing
      /\ cur'.fits <=> CalculateSize(h) <= Room
      /\ cur'.allFit <=> SizeInclFallthrough(h) <= Room
  BY <1>0, <1>1, <1>2, <1>3 DEF Locals
<1>5. Room' = Room
  BY <1>4 DEF Room
<1>6. /\ Rest(h)' = Rest(h) /\ back(h)' = back(h) /\ JumpOut(h)' = JumpOut(h)
      /\ FallthroughDollop(h)' = FallthroughDollop(h) /\ Beyond(h)' = Beyond(h)
      /\ EntrySize(h, TRUE)' = EntrySize(h, TRUE)
  BY <1>1, <1>3, ShapeStays, SizesStay DEF EntrySize
<1>7. AbutsAt(cur.addr + Rest(h))'
  <2>1. AbutsAt(cur.addr + Rest(h))
    BY <1>1 DEF RoomInv, RoomToStart, BeginDollop
  <2> QED BY <1>1, <1>3, <1>4, <1>6, <2>1 DEF AbutsAt, RunsOnAt, Pinned
<1>8. Rest(h) \in Nat /\ JumpOut(h) \in Nat /\ Beyond(h) \in Nat
      /\ CalculateSize(h) \in Nat /\ SizeInclFallthrough(h) \in Nat
  BY <1>1, RestAlong, SizesAssumption DEF SizesAddUp, JumpOut
<1>9. CalculateSize(h) <= Room => Rest(h) + JumpOut(h) <= Room
  BY <1>0, <1>1, <1>2, <1>8 DEF SizesAddUp
<1>10. SizeInclFallthrough(h) <= Room => Rest(h) + Beyond(h) <= Room
  BY <1>0, <1>1, <1>2, <1>8 DEF SizesAddUp
<1>11. \/ cur'.abuts
       \/ cur'.fits
       \/ cur'.allFit /\ cur'.allowed_coalescing
       \/ EntrySize(h, TRUE) <= Room
  BY <1>1, <1>4 DEF RoomInv, RoomToStart, BeginDollop
<1>12. RoomToGoOn'
  BY <1>4, <1>5, <1>6, <1>7, <1>9, <1>10, <1>11 DEF RoomToGoOn
<1> QED BY <1>0, <1>4, <1>12 DEF RoomToEnd, AtEnd

(* A dollop is followed by another one.                                    *)
LEMMA FollowedByAnother ==
    ASSUME ProgramOK, NEW x \in Insn
    PROVE  FallthroughDollop(x) # x
<1>1. {x} \in (SUBSET Insn) \ {{}}
  OBVIOUS
<1>2. DollopAfter[x] \notin {x}
  BY <1>1, DollopAfterOK DEF NoCircle
<1> QED BY <1>2 DEF DollopAfter

(* Placing an entry of h changes nothing behind h.                         *)
LEMMA BeyondStays ==
    ASSUME ProgramOK, ProgramOK', UNCHANGED <<prog, fronts, coalesced>>,
           NEW h \in Insn, NEW i \in Insn, back(i) = back(h),
           NEW f \in Insn, FallthroughDollop(h) = f,
           \A d \in Insn : d # i => (Placed(d)' <=> Placed(d))
    PROVE  /\ Placed(f)' <=> Placed(f)
           /\ SizeInclFallthrough(f)' = SizeInclFallthrough(f)
<1>1. FallthroughDollop(i) = f
  BY DEF FallthroughDollop
<1>2. f # i
  BY <1>1, FollowedByAnother
<1>3. \A d \in Insn : d # i => /\ Placed(d)' <=> Placed(d)
                               /\ d \in coalesced' <=> d \in coalesced
  OBVIOUS
<1>4. SizeInclFallthrough(f)' = SizeInclFallthrough(f)
  BY <1>1, <1>3, ChainStays
<1> QED BY <1>2, <1>4

(* An entry is placed only where what must follow it fits, too.            *)
LEMMA RoomAtEntry ==
    ASSUME TypeOK, CursorOK, ProgramOK, InOrder, RoomInv, PlaceEntry,
           CursorOK', ProgramOK'
    PROVE  RoomToGoOn' /\ RoomToEnd'
<1>1. /\ cur \in Locals /\ cur.addr \in Nat /\ cur.end \in Nat /\ Room \in Int
      /\ cur.dollop \in fronts /\ cur.entry \in Insn /\ None \notin Insn /\ None \notin Nat
      /\ TRAMPOLINE_SIZE \in Nat
  BY CursorIs DEF PlaceEntry, Placing, RoomInv, CursorOK
<1>2. PICK h \in Insn : h = cur.dollop /\ h \in fronts /\ SizesAddUp(h)
  BY <1>1, CursorIs DEF PlaceEntry, Placing, RoomInv
<1>3. PICK i \in Insn : i = cur.entry /\ ~ Placed(i)
  BY <1>1 DEF CursorOK, PlaceEntry, Placing
<1>4. PICK n \in OrNone(Insn) : n = NextEntry(i) /\ (n # None => n \notin fronts)
  BY <1>1, <1>3, EntryAfterOK, NextIsNotPlaced
     DEF EntryAfter, PlaceEntry, ProgramOK
<1>5. PICK f \in OrNone(Insn) : f = FallthroughDollop(h)
  BY <1>2 DEF SizesAddUp
<1>6. PICK s \in Nat : s = prog.size[i]
  BY ProgramsAssumption DEF ProgramOK, Typed
<1>7. /\ cur' = [cur EXCEPT !.entry = n, !.addr = cur.addr + s]
      /\ place' = [place EXCEPT ![i] = cur.addr]
      /\ UNCHANGED <<prog, fronts, coalesced>>
      /\ pc = "entries" /\ pc' = "entries"
  BY <1>3, <1>4, <1>6 DEF PlaceEntry
<1>8. /\ cur'.dollop = h /\ cur'.entry = n /\ cur'.addr = cur.addr + s /\ cur'.end = cur.end
      /\ cur'.abuts = cur.abuts /\ cur'.ftPlace = cur.ftPlace
      /\ cur'.am_coalescing = cur.am_coalescing
      /\ cur'.allowed_coalescing = cur.allowed_coalescing
      /\ cur'.fits = cur.fits /\ cur'.allFit = cur.allFit
  BY <1>1, <1>2, <1>7 DEF Locals
<1>9. Room' = Room - s /\ Room - s \in Int
  BY <1>1, <1>8 DEF Room
(* Sizes in this state and in the next one.                                *)
<1>10. /\ Rest(h) \in Nat /\ Rest(i) \in Nat /\ Rest(n) \in Nat /\ Rest(i) = s + Rest(n)
       /\ Rest(None) = 0
  BY <1>2, <1>3, <1>4, <1>6, RestAlong DEF RestEq, OrNone
<1>11. /\ back(i) = back(h)
       /\ AbutsAt(cur.addr + Rest(i))
       /\ cur.fits => Rest(i) + JumpOut(h) <= Room
       /\ cur.allFit => Rest(i) + Beyond(h) <= Room
  BY <1>1, <1>2, <1>3, <1>7 DEF RoomInv, RoomToGoOn
<1>12. /\ FallthroughDollop(h)' = f /\ back(h)' = back(h)
       /\ canCoalesce(h)' <=> canCoalesce(h)
       /\ n # None => back(n)' = back(n)
       /\ Rest(n)' = Rest(n)
  BY <1>2, <1>4, <1>5, <1>7, <1>10, ShapeStays DEF OrNone, Rest
<1>13. JumpOut(h) = (IF f = None THEN 0 ELSE TRAMPOLINE_SIZE) /\ JumpOut(h)' = JumpOut(h)
  BY <1>5, <1>12 DEF JumpOut
<1>14. f # None => /\ Placed(f)' <=> Placed(f)
                   /\ SizeInclFallthrough(f)' = SizeInclFallthrough(f)
                   /\ SizeInclFallthrough(f) \in Nat
  <2> SUFFICES ASSUME f # None
               PROVE  /\ Placed(f)' <=> Placed(f)
                      /\ SizeInclFallthrough(f)' = SizeInclFallthrough(f)
                      /\ SizeInclFallthrough(f) \in Nat
    OBVIOUS
  <2>1. f \in Insn
    BY DEF OrNone
  <2>2. \A d \in Insn : d # i => (Placed(d)' <=> Placed(d))
    BY <1>7 DEF Placed, TypeOK
  <2>3. SizesAddUp(f)
    BY <2>1, SizesAre DEF RoomInv
  <2> QED BY <1>5, <1>7, <1>11, <2>1, <2>2, <2>3, BeyondStays DEF SizesAddUp
<1>15. /\ Beyond(h) = IF f = None THEN 0
                      ELSE IF ~ canCoalesce(h) \/ Placed(f) THEN TRAMPOLINE_SIZE
                      ELSE SizeInclFallthrough(f)
       /\ Beyond(h)' = Beyond(h)
       /\ Beyond(h) \in Nat
  <2>1. Beyond(h) = IF f = None THEN 0
                    ELSE IF ~ canCoalesce(h) \/ Placed(f) THEN TRAMPOLINE_SIZE
                    ELSE SizeInclFallthrough(f)
    BY <1>5 DEF Beyond
  <2>2. Beyond(h)' = IF f = None THEN 0
                     ELSE IF ~ canCoalesce(h)' \/ Placed(f)' THEN TRAMPOLINE_SIZE
                     ELSE SizeInclFallthrough(f)'
    BY <1>12 DEF Beyond
  <2>3. Beyond(h) \in Nat
    BY <1>2 DEF SizesAddUp
  <2> QED BY <1>12, <1>14, <2>1, <2>2, <2>3
<1>16. PICK b \in Nat : b = cur.addr + Rest(i) /\ b = cur'.addr + Rest(n)
  BY <1>1, <1>8, <1>10
<1>17. cur'.abuts => b <= cur'.end + 1 /\ RunsOnAt(h, b)'
  <2> SUFFICES ASSUME cur.abuts PROVE b <= cur'.end + 1 /\ RunsOnAt(h, b)'
    BY <1>8
  <2>1. b <= cur.end + 1 /\ RunsOnAt(h, b)
    BY <1>2, <1>11, <1>16 DEF AbutsAt
  <2> QED BY <1>5, <1>7, <1>8, <1>12, <2>1 DEF RunsOnAt, Pinned
(* Where it was not placed for the room of all that is left, a jump fits.  *)
<1>18. \/ cur.abuts
       \/ cur.fits
       \/ cur.allFit /\ cur.allowed_coalescing
       \/ TRAMPOLINE_SIZE <= Room - s
       \/ prog.ft[i] = None /\ n = None /\ 0 <= Room - s
  <2> SUFFICES ASSUME ~ cur.abuts, ~ cur.fits, ~ (cur.allFit /\ cur.allowed_coalescing)
               PROVE  \/ TRAMPOLINE_SIZE <= Room - s
                      \/ prog.ft[i] = None /\ n = None /\ 0 <= Room - s
    OBVIOUS
  <2>1. EntryGoesHere(i)
    BY <1>3 DEF PlaceEntry
  <2>2. CASE could_fit_here(i)
    <3>1. CASE cur.end >= cur.addr + EntrySize(i, TRUE)
      <4>1. cur.end >= cur.addr + (s + TRAMPOLINE_SIZE)
        BY <1>6, <3>1 DEF EntrySize
      <4> QED BY <1>1, <4>1 DEF Room
    <3>2. CASE n = None /\ cur.end >= cur.addr + EntrySize(i, prog.ft[i] # None)
      <4>1. CASE prog.ft[i] = None
        <5>1. cur.end >= cur.addr + s
          BY <1>1, <1>6, <3>2, <4>1 DEF EntrySize
        <5> QED BY <1>1, <3>2, <4>1, <5>1 DEF Room
      <4>2. CASE prog.ft[i] # None
        <5>1. cur.end >= cur.addr + (s + TRAMPOLINE_SIZE)
          BY <1>6, <3>2, <4>2 DEF EntrySize
        <5> QED BY <1>1, <5>1 DEF Room
      <4> QED BY <4>1, <4>2
    <3>3. \/ cur.end >= cur.addr + EntrySize(i, TRUE)
          \/ n = None /\ cur.end >= cur.addr + EntrySize(i, prog.ft[i] # None)
      BY <1>4, <2>2, Zenon DEF could_fit_here
    <3> QED BY <3>1, <3>2, <3>3
  <2>3. CASE ~ could_fit_here(i)
    <3>1. cur.allFit /\ ~ NoRoomForJump(i)
      BY <2>1, <2>3 DEF EntryGoesHere
    <3>2. s + Rest(n) + Beyond(h) <= Room
      BY <1>10, <1>11, <3>1
    <3>3. Room - s \notin 0 .. TRAMPOLINE_SIZE - 1
      BY <1>6, <3>1 DEF NoRoomForJump
    <3> QED BY <1>1, <1>9, <1>10, <1>15, <3>2, <3>3
  <2> QED BY <2>2, <2>3
<1>19. RoomToGoOn'
  <2> SUFFICES ASSUME n # None PROVE RoomToGoOn'
    BY <1>8 DEF RoomToGoOn
  <2>1. n \in Insn /\ n # h
    BY <1>2, <1>4 DEF OrNone
  <2>2. back(n)' = back(h)'
    BY <1>4, <1>11, <1>12, BackAlong DEF BackEq
  <2>3. AbutsAt(cur.addr + Rest(n))'
    BY <1>8, <1>10, <1>12, <1>16, <1>17 DEF AbutsAt
  <2>4. cur'.fits => Rest(n)' + JumpOut(h)' <= Room'
    BY <1>1, <1>8, <1>9, <1>10, <1>11, <1>12, <1>13
  <2>5. cur'.allFit => Rest(n)' + Beyond(h)' <= Room'
    BY <1>1, <1>8, <1>9, <1>10, <1>11, <1>12, <1>15
  <2>6. \/ cur'.abuts
        \/ cur'.fits
        \/ cur'.allFit /\ cur'.allowed_coalescing
        \/ TRAMPOLINE_SIZE <= Room'
    BY <1>8, <1>9, <1>18
  <2> QED BY <1>8, <2>1, <2>2, <2>3, <2>4, <2>5, <2>6 DEF RoomToGoOn
<1>20. RoomToEnd'
  <2> SUFFICES ASSUME n = None PROVE RoomToEnd'
    BY <1>8 DEF RoomToEnd, AtEnd
  <2>1. AbutsAt(cur.addr)'
    <3>1. cur'.addr + Rest(n) = cur'.addr
      BY <1>1, <1>8, <1>10
    <3> QED BY <1>8, <1>16, <1>17, <3>1 DEF AbutsAt
  <2>2. Next_' = f
    BY <1>8, <1>12 DEF Next_
  <2>3. /\ cur.fits => JumpOut(h) <= Room - s
        /\ cur.allFit => Beyond(h) <= Room - s
    BY <1>1, <1>10, <1>11, <1>13, <1>15
  <2>4. prog.ft[i] = None => f = None
    <3>1. back(h) = i
      BY <1>4, <1>11, BackAlong DEF BackEq
    <3> QED BY <1>5, <3>1 DEF FallthroughDollop
  <2>5. \/ cur'.abuts
        \/ TRAMPOLINE_SIZE <= Room'
        \/ f = None /\ 0 <= Room'
        \/ /\ f # None /\ cur'.allowed_coalescing /\ canCoalesce(h)'
           /\ ~ Placed(f)' /\ SizeInclFallthrough(f)' <= Room'
    <3>1. CASE cur.fits
      BY <1>9, <1>13, <2>3, <3>1
    <3>2. CASE cur.allFit /\ cur.allowed_coalescing
      BY <1>8, <1>9, <1>12, <1>14, <1>15, <2>3, <3>2
    <3> QED BY <1>8, <1>9, <1>18, <2>4, <3>1, <3>2
  <2> QED BY <1>8, <2>1, <2>2, <2>5 DEF RoomToEnd
<1> QED BY <1>19, <1>20


(* A dollop is split at a later entry, and then a jump fits.               *)
LEMMA RoomAtSplit ==
    ASSUME TypeOK, CursorOK, ProgramOK, RoomInv, SplitToFit
    PROVE  RoomToEnd' /\ pc' = "entries" /\ cur'.entry = None
<1>1. /\ cur \in Locals /\ cur.addr \in Nat /\ cur.end \in Nat /\ Room \in Int
      /\ cur.dollop \in Insn /\ cur.entry \in Insn /\ None \notin Insn
  BY CursorIs DEF SplitToFit, Placing, RoomInv
<1>2. /\ ~ cur.abuts /\ ~ cur.fits /\ ~ (cur.allFit /\ cur.allowed_coalescing)
      /\ ~ cur.end >= cur.addr + EntrySize(cur.entry, TRUE)
  BY DEF SplitToFit, EntryGoesHere, could_fit_here
<1>3. (IF cur.entry = cur.dollop THEN EntrySize(cur.dollop, TRUE) ELSE TRAMPOLINE_SIZE) <= Room
  BY <1>1, <1>2 DEF RoomInv, RoomToGoOn, SplitToFit
<1>4. cur.entry # cur.dollop
  <2> SUFFICES ASSUME cur.entry = cur.dollop PROVE FALSE
    OBVIOUS
  <2>1. PICK n : n = EntrySize(cur.entry, TRUE)
    OBVIOUS
  <2>2. n <= cur.end - cur.addr /\ ~ cur.end >= cur.addr + n
    BY <1>2, <1>3, <2>1 DEF Room
  <2>3. n \in Nat
    <3>1. prog.size[cur.entry] \in Nat /\ TRAMPOLINE_SIZE \in Nat
      BY <1>1, SizesAssumption, ProgramsAssumption DEF ProgramOK, Typed
    <3> QED BY <2>1, <3>1 DEF EntrySize
  <2> QED BY <1>1, <2>2, <2>3
<1>5. cur' = [cur EXCEPT !.entry = None] /\ pc' = "entries"
  BY <1>4 DEF SplitToFit
<1>6. /\ cur'.entry = None /\ cur'.addr = cur.addr /\ cur'.end = cur.end
      /\ cur'.abuts = cur.abuts
  BY <1>1, <1>5 DEF Locals
<1>7. TRAMPOLINE_SIZE <= Room'
  BY <1>3, <1>4, <1>6 DEF Room
<1> QED BY <1>2, <1>5, <1>6, <1>7 DEF RoomToEnd, AbutsAt

(* What is known behind the last entry, when control does not run on.      *)
LEMMA NotRunningOn ==
    ASSUME TypeOK, CursorOK, ProgramOK, RoomInv, AtEnd, Next_ # None,
           ~ RunsIntoPin, ~ RunsIntoCode
    PROVE  /\ ~ cur.abuts /\ Next_ \in Insn /\ SizesAddUp(Next_) /\ 0 <= Room
           /\ TRAMPOLINE_SIZE <= Room \/ MayCoalesce
<1>1. /\ cur \in Locals /\ cur.addr \in Nat /\ cur.end \in Nat /\ Room \in Int
      /\ cur.dollop \in Insn /\ SizesAddUp(cur.dollop) /\ None \notin Nat
      /\ TRAMPOLINE_SIZE \in Nat
  BY CursorIs DEF AtEnd, Placing, RoomInv
<1>2. PICK f \in Insn : f = Next_
  BY <1>1 DEF SizesAddUp, OrNone, Next_
<1>3. SizesAddUp(f)
  BY SizesAre DEF RoomInv
<1>4. ~ cur.abuts
  BY <1>1 DEF RoomInv, RoomToEnd, AbutsAt, RunsOnAt, RunsIntoPin, RunsIntoCode, Next_
<1>5. \/ TRAMPOLINE_SIZE <= Room
      \/ /\ cur.allowed_coalescing /\ canCoalesce(cur.dollop)
         /\ ~ Placed(f) /\ SizeInclFallthrough(f) <= Room
  BY <1>2, <1>4 DEF RoomInv, RoomToEnd
<1>6. ASSUME SizeInclFallthrough(f) <= Room PROVE Room >= Needed(f)
  <2>1. PICK m \in Nat : m = SizeInclFallthrough(f)
    BY <1>3 DEF SizesAddUp
  <2>2. PICK n : n = EntrySize(f, TRUE)
    OBVIOUS
  <2>3. n \in Nat
    <3>1. prog.size[f] \in Nat
      BY ProgramsAssumption DEF ProgramOK, Typed
    <3> QED BY <1>1, <2>2, <3>1 DEF EntrySize
  <2>4. Needed(f) = IF n < m THEN n ELSE m
    BY <2>1, <2>2 DEF Needed, Lesser
  <2> QED BY <1>1, <1>6, <2>1, <2>3, <2>4
<1>7. SizeInclFallthrough(f) \in Nat
  BY <1>3 DEF SizesAddUp
<1> QED BY <1>1, <1>2, <1>3, <1>4, <1>5, <1>6, <1>7 DEF MayCoalesce

(* A dollop is joined with its fallthrough only where there is room for it. *)
LEMMA RoomAtCoalesce ==
    ASSUME TypeOK, CursorOK, ProgramOK, RoomInv, Coalesce, ProgramOK'
    PROVE  RoomToStart' /\ CoalescedPlaced'
<1>1. /\ cur \in Locals /\ cur.addr \in Nat /\ cur.end \in Nat /\ Room \in Int
      /\ None \notin Insn
  BY CursorIs DEF Coalesce, AtEnd, Placing, RoomInv
<1>2. PICK h \in Insn : h = cur.dollop /\ Placed(h)
  BY CursorIs DEF Coalesce, AtEnd, Placing, RoomInv, CursorOK
<1>3. AtEnd /\ Next_ # None /\ ~ RunsIntoPin /\ ~ RunsIntoCode
  BY DEF Coalesce
<1>4. ~ cur.abuts /\ 0 <= Room /\ Next_ \in Insn /\ SizesAddUp(Next_)
  BY <1>3, NotRunningOn
<1>5. PICK f \in Insn : f = Next_ /\ SizesAddUp(f)
  BY <1>4
<1>6. /\ cur' = [cur EXCEPT !.dollop = f, !.entry = f, !.am_coalescing = TRUE]
      /\ coalesced' = coalesced \cup {h}
      /\ UNCHANGED <<prog, fronts, place>>
  BY <1>2, <1>5 DEF Coalesce
<1>7. /\ cur'.dollop = f /\ cur'.addr = cur.addr /\ cur'.end = cur.end
      /\ cur'.abuts = cur.abuts /\ cur'.allowed_coalescing = cur.allowed_coalescing
  BY <1>1, <1>6 DEF Locals
<1>8. cur.allowed_coalescing /\ Room >= Needed(f)
  <2>1. cur.allowed_coalescing /\ (Room < 0 \/ Room >= Needed(f))
    BY <1>5 DEF Coalesce, MayCoalesce
  <2> QED BY <1>1, <1>4, <2>1
<1>9. EntrySize(f, TRUE) <= Room \/ SizeInclFallthrough(f) <= Room
  <2>1. PICK m \in Nat : m = SizeInclFallthrough(f)
    BY <1>5 DEF SizesAddUp
  <2>2. PICK n : n = EntrySize(f, TRUE)
    OBVIOUS
  <2>3. Needed(f) = IF n < m THEN n ELSE m
    BY <2>1, <2>2 DEF Needed, Lesser
  <2>4. n \in Nat
    <3>1. prog.size[f] \in Nat /\ TRAMPOLINE_SIZE \in Nat
      BY SizesAssumption, ProgramsAssumption DEF ProgramOK, Typed
    <3> QED BY <2>2, <3>1 DEF EntrySize
  <2>5. n <= Room \/ m <= Room
    BY <1>1, <1>8, <2>1, <2>3, <2>4
  <2> QED BY <2>1, <2>2, <2>5
<1>10. SizeInclFallthrough(f)' = SizeInclFallthrough(f)
  <2>1. FallthroughDollop(h) = f
    BY <1>2, <1>5 DEF Next_
  <2>2. \A d \in Insn : d # h => /\ Placed(d)' <=> Placed(d)
                                 /\ d \in coalesced' <=> d \in coalesced
    BY <1>6 DEF Placed
  <2> QED BY <1>6, <2>1, <2>2, ChainStays
<1>11. Room' = Room /\ EntrySize(f, TRUE)' = EntrySize(f, TRUE)
  BY <1>6, <1>7 DEF Room, EntrySize
<1>12. RoomToStart'
  BY <1>4, <1>7, <1>8, <1>9, <1>10, <1>11 DEF RoomToStart, AbutsAt
<1>13. CoalescedPlaced'
  BY <1>2, <1>6 DEF RoomInv, CoalescedPlaced, Placed
<1> QED BY <1>12, <1>13


(* Besides the start of a dollop, no step takes a range or a patch away.   *)
LEMMA GivenStays ==
    ASSUME TypeOK, CursorOK, ProgramOK, RoomInv,
           \/ \E h \in Insn : SkipPlaced(h)
           \/ BeginDollop \/ PlaceEntry \/ SplitToFit \/ NeedsNoJump
           \/ AppendJump \/ Coalesce \/ ReserveChain \/ UNCHANGED vars,
           Running'
    PROVE  GivenIsFree' /\ PatchesWait'
<1>1. PatchesWait'
  <2>1. UNCHANGED prog /\ \A h \in Insn : Waiting(h)' => Waiting(h)
    BY NoneWaitsAnew
  <2>2. UNCHANGED patch_list
    BY DEF SkipPlaced, BeginDollop, PlaceEntry, SplitToFit, NeedsNoJump, AppendJump, Coalesce,
           ReserveChain, vars
  <2> QED BY <2>1, <2>2 DEF RoomInv, PatchesWait, Pinned
<1>2. GivenIsFree'
  <2>1. CASE \E h \in Insn : SkipPlaced(h)
    BY <2>1 DEF SkipPlaced, GivenIsFree
  <2>2. CASE ReserveChain
    BY <2>2 DEF ReserveChain, GivenIsFree
  <2>3. CASE UNCHANGED vars
    BY <2>3 DEF vars, GivenIsFree, RoomInv
  <2>4. CASE BeginDollop \/ PlaceEntry \/ SplitToFit \/ NeedsNoJump \/ AppendJump \/ Coalesce
    <3>1. pc \in {"dollop", "entries"} /\ UNCHANGED free
      BY <2>4 DEF BeginDollop, PlaceEntry, SplitToFit, NeedsNoJump, AppendJump, Coalesce, AtEnd
    <3>2. cur \in Locals
      BY <3>1 DEF CursorOK
    <3>3. cur'.start = cur.start /\ cur'.end = cur.end
      BY <2>4, <3>2 DEF BeginDollop, PlaceEntry, SplitToFit, NeedsNoJump, AppendJump, Coalesce,
                        Locals
    <3> QED BY <3>1, <3>3 DEF RoomInv, GivenIsFree
  <2> QED BY <2>1, <2>2, <2>3, <2>4
<1> QED BY <1>1, <1>2

(* A step that changes none of this leaves the room as it is.              *)
LEMMA RoomStays ==
    ASSUME UNCHANGED <<prog, fronts, place, coalesced, cur, pc>>,
           CursorOK, RoomToStart, RoomToGoOn, RoomToEnd
    PROVE  RoomToStart' /\ RoomToGoOn' /\ RoomToEnd'
<1>1. SUFFICES ASSUME Placing PROVE RoomToStart' /\ RoomToGoOn' /\ RoomToEnd'
  BY DEF Placing, RoomToStart, RoomToGoOn, RoomToEnd, AtEnd
<1>2. cur \in Locals
  BY <1>1 DEF CursorOK, Placing
<1>3. PICK h \in Insn : h = cur.dollop /\ h = cur'.dollop
  BY <1>2 DEF Locals
<1>4. PICK i \in Insn \cup {None} : i = cur.entry /\ i = cur'.entry
  BY <1>2 DEF Locals
<1>5. /\ Room' = Room /\ EntrySize(h, TRUE)' = EntrySize(h, TRUE)
      /\ \A f : (Placed(f)' <=> Placed(f)) /\ (Pinned(f)' <=> Pinned(f))
  BY DEF Room, EntrySize, Placed, Pinned
<1>6. /\ Rest(h)' = Rest(h) /\ back(h)' = back(h) /\ JumpOut(h)' = JumpOut(h)
      /\ FallthroughDollop(h)' = FallthroughDollop(h)
      /\ canCoalesce(h)' <=> canCoalesce(h)
      /\ CalculateSize(h)' = CalculateSize(h) /\ Beyond(h)' = Beyond(h)
      /\ SizeInclFallthrough(h)' = SizeInclFallthrough(h)
  BY ShapeStays, SizesStay
<1>7. i # None => Rest(i)' = Rest(i) /\ back(i)' = back(i)
  BY ShapeStays
<1>8. PICK f : f = FallthroughDollop(h)
  OBVIOUS
<1>9. SizeInclFallthrough(f)' = SizeInclFallthrough(f)
  BY DEF SizeInclFallthrough, CalculateSize, Placed, FallthroughDollop, canCoalesce, back,
         NextEntry
<1>10. \A a : AbutsAt(a)' <=> AbutsAt(a)
  <2>1. \A a : RunsOnAt(h, a)' <=> RunsOnAt(h, a)
    BY <1>5, <1>6 DEF RunsOnAt
  <2> QED BY <1>3, <2>1 DEF AbutsAt
<1>11. AbutsAt(cur.addr + Rest(h))' <=> AbutsAt(cur.addr + Rest(h))
  BY <1>6, <1>10
<1>12. i # None => (AbutsAt(cur.addr + Rest(i))' <=> AbutsAt(cur.addr + Rest(i)))
  BY <1>7, <1>10
<1>13. AbutsAt(cur.addr)' <=> AbutsAt(cur.addr)
  BY <1>10
<1>14. RoomToStart'
  BY <1>3, <1>5, <1>6, <1>11 DEF RoomToStart
<1>15. RoomToGoOn'
  BY <1>3, <1>4, <1>5, <1>6, <1>7, <1>12 DEF RoomToGoOn
<1>16. RoomToEnd'
  <2>1. Next_ = f /\ Next_' = f
    BY <1>3, <1>6, <1>8 DEF Next_
  <2> QED BY <1>3, <1>5, <1>6, <1>9, <1>13, <2>1 DEF RoomToEnd, AtEnd
<1> QED BY <1>14, <1>15, <1>16

(* Every step keeps the room there is.                                     *)
LEMMA RoomStep ==
    ASSUME RoomyPlans, PinsBelow, IInv, IInv', RoomInv, [Next]_vars
    PROVE  RoomInv'
<1> USE DEF IInv, Running
<1>1. ASSUME NEW h \in Insn, PlaceByPlugin(h) \/ PlaceBySizer(h) PROVE RoomInv'
  BY <1>1, RoomAtStart
<1>2. ASSUME NEW h \in Insn, SkipPlaced(h) PROVE RoomInv'
  <2>1. pc = "pop" /\ pc' = "pop" /\ UNCHANGED <<place, coalesced>>
    BY <1>2 DEF SkipPlaced
  <2>2. GivenIsFree' /\ PatchesWait'
    BY <1>2, <2>1, GivenStays
  <2> QED BY <2>1, <2>2 DEF RoomInv, RoomToStart, RoomToGoOn, RoomToEnd, AtEnd, RoomUsed,
                           CoalescedPlaced, Placed
<1>3. CASE BeginDollop
  <2>1. pc' = "entries" /\ UNCHANGED <<place, coalesced>>
    BY <1>3 DEF BeginDollop
  <2>2. GivenIsFree' /\ PatchesWait' /\ RoomToGoOn' /\ RoomToEnd'
    BY <1>3, <2>1, GivenStays, RoomAtDollop
  <2> QED BY <2>1, <2>2 DEF RoomInv, RoomToStart, RoomUsed, CoalescedPlaced, Placed
<1>4. CASE PlaceEntry
  <2>1. pc' = "entries" /\ UNCHANGED coalesced
    BY <1>4 DEF PlaceEntry
  <2>2. GivenIsFree' /\ PatchesWait' /\ RoomToGoOn' /\ RoomToEnd'
    BY <1>4, <2>1, GivenStays, RoomAtEntry
  <2>3. \A d \in Insn : place[d] # None => place'[d] # None
    <3>1. cur.addr \in Nat
      BY <1>4, CursorIs DEF PlaceEntry, Placing, RoomInv
    <3> QED BY <1>4, <3>1, NoneAssumption DEF PlaceEntry, TypeOK
  <2>4. CoalescedPlaced'
    BY <2>1, <2>3 DEF CoalescedPlaced, Placed, RoomInv, TypeOK
  <2> QED BY <2>1, <2>2, <2>4 DEF RoomInv, RoomToStart, RoomUsed
<1>5. CASE SplitToFit
  <2>1. pc' = "entries" /\ cur'.entry = None /\ RoomToEnd'
    BY <1>5, RoomAtSplit
  <2>2. GivenIsFree' /\ PatchesWait' /\ UNCHANGED <<place, coalesced>>
    BY <1>5, <2>1, GivenStays DEF SplitToFit
  <2> QED BY <2>1, <2>2 DEF RoomInv, RoomToStart, RoomToGoOn, RoomUsed, CoalescedPlaced, Placed
<1>6. CASE NeedsNoJump
  <2>1. pc' = "reserve" /\ UNCHANGED <<place, coalesced, cur>> /\ AtEnd
    BY <1>6 DEF NeedsNoJump
  <2>2. GivenIsFree' /\ PatchesWait'
    BY <1>6, <2>1, GivenStays
  <2>3. cur.addr <= cur.end + 1
    <3>1. cur.addr \in Nat /\ cur.end \in Nat /\ TRAMPOLINE_SIZE \in Nat
          /\ SizesAddUp(cur.dollop) /\ None \notin Insn
      BY <2>1, CursorIs DEF AtEnd, Placing, RoomInv
    <3>2. Next_ # None => SizeInclFallthrough(Next_) \in Nat
      BY <3>1, SizesAre DEF SizesAddUp, Next_, OrNone, RoomInv
    <3> QED BY <2>1, <3>1, <3>2 DEF RoomInv, RoomToEnd, AbutsAt, Room
  <2> QED BY <2>1, <2>2, <2>3 DEF RoomInv, RoomToStart, RoomToGoOn, RoomToEnd, AtEnd, RoomUsed,
                                 CoalescedPlaced, Placed
<1>7. CASE AppendJump
  <2>1. pc' = "reserve" /\ UNCHANGED <<place, coalesced>> /\ AtEnd
    BY <1>7 DEF AppendJump
  <2>2. GivenIsFree' /\ PatchesWait'
    BY <1>7, <2>1, GivenStays
  <2>3. cur \in Locals /\ cur.addr \in Nat /\ cur.end \in Nat /\ TRAMPOLINE_SIZE \in Nat
    BY <2>1, CursorIs DEF AtEnd, Placing, RoomInv
  <2>4. TRAMPOLINE_SIZE <= Room
    BY <1>7, NotRunningOn DEF AppendJump
  <2>5. cur'.addr = cur.addr + TRAMPOLINE_SIZE /\ cur'.end = cur.end
    BY <1>7, <2>3 DEF AppendJump, Locals
  <2>6. RoomUsed'
    BY <2>3, <2>4, <2>5 DEF RoomUsed, Room
  <2> QED BY <2>1, <2>2, <2>6 DEF RoomInv, RoomToStart, RoomToGoOn, RoomToEnd, AtEnd,
                                 CoalescedPlaced, Placed
<1>8. CASE Coalesce
  <2>1. pc' = "dollop"
    BY <1>8 DEF Coalesce
  <2>2. GivenIsFree' /\ PatchesWait' /\ RoomToStart' /\ CoalescedPlaced'
    BY <1>8, <2>1, GivenStays, RoomAtCoalesce
  <2> QED BY <2>1, <2>2 DEF RoomInv, RoomToGoOn, RoomToEnd, AtEnd, RoomUsed
<1>9. CASE ReserveChain
  <2>1. pc = "reserve" /\ UNCHANGED <<place, coalesced>>
    BY <1>9 DEF ReserveChain
  <2>2. cur \in Locals /\ cur.addr \in Nat /\ cur.end \in Nat /\ cur.start \in Nat
    BY <2>1 DEF CursorOK, Locals
  <2>3. cur.addr - 1 <= cur.end
    BY <2>1, <2>2 DEF RoomInv, RoomUsed
  <2>4. cur.start .. cur.addr - 1 \subseteq free
    BY <2>1, <2>2, <2>3 DEF RoomInv, GivenIsFree
  <2>5. pc' = "pop"
    BY <1>9, <2>3, <2>4 DEF ReserveChain
  <2>6. GivenIsFree' /\ PatchesWait'
    BY <1>9, <2>5, GivenStays
  <2> QED BY <2>1, <2>5, <2>6 DEF RoomInv, RoomToStart, RoomToGoOn, RoomToEnd, AtEnd, RoomUsed,
                                 CoalescedPlaced, Placed
<1>10. CASE UNCHANGED vars
  <2>1. UNCHANGED <<prog, fronts, place, coalesced, patch_list, free, cur, pc>>
    BY <1>10 DEF vars
  <2>2. RoomToStart' /\ RoomToGoOn' /\ RoomToEnd'
    BY <2>1, RoomStays DEF RoomInv
  <2>3. RoomUsed' /\ CoalescedPlaced' /\ Running'
    BY <2>1 DEF RoomInv, RoomUsed, CoalescedPlaced, Placed
  <2>4. GivenIsFree' /\ PatchesWait'
    BY <1>10, <2>3, GivenStays
  <2> QED BY <2>2, <2>3, <2>4 DEF RoomInv
<1> QED BY <1>1, <1>2, <1>3, <1>4, <1>5, <1>6, <1>7, <1>8, <1>9, <1>10 DEF Next

(* With room to go on, the chain is inside the range it was given.         *)
LEMMA RoomInside ==
    ASSUME IInv, RoomInv
    PROVE  AssertsHold
<1> USE DEF IInv, RoomInv
<1>1. CASE pc = "pop"
  BY <1>1 DEF AssertsHold, Claimed
<1>2. CASE pc = "reserve"
  <2>1. cur.start \in Nat /\ cur.addr \in Nat /\ cur.end \in Nat
    BY <1>2 DEF CursorOK, Locals
  <2> QED BY <1>2, <2>1 DEF AssertsHold, Claimed, RoomUsed, GivenIsFree
<1>3. CASE Placing
  <2>1. cur.start \in Nat /\ cur.addr \in Nat /\ cur.end \in Nat /\ Room \in Int
        /\ TRAMPOLINE_SIZE \in Nat /\ cur.dollop \in Insn /\ cur.entry \in Insn \cup {None}
    BY <1>3, CursorIs DEF Locals
  <2>2. \A d \in Insn : /\ Rest(d) \in Nat /\ JumpOut(d) \in Nat /\ Beyond(d) \in Nat
                        /\ CalculateSize(d) \in Nat /\ SizeInclFallthrough(d) \in Nat
    BY RestAlong, SizesAre, SizesAssumption DEF SizesAddUp, JumpOut
  <2>3. PICK n \in Nat : n = EntrySize(cur.dollop, TRUE)
    <3>1. prog.size[cur.dollop] \in Nat
      BY <2>1, ProgramsAssumption DEF ProgramOK, Typed
    <3> QED BY <2>1, <3>1 DEF EntrySize
  <2>4. cur.addr <= cur.end + 1
    <3>1. CASE pc = "dollop"
      <4>1. \/ cur.addr + Rest(cur.dollop) <= cur.end + 1
            \/ CalculateSize(cur.dollop) <= Room
            \/ n <= Room
            \/ SizeInclFallthrough(cur.dollop) <= Room
        BY <2>3, <3>1 DEF RoomToStart, AbutsAt
      <4> QED BY <2>1, <2>2, <4>1 DEF Room
    <3>2. CASE pc = "entries" /\ cur.entry # None
      <4>1. \/ cur.addr + Rest(cur.entry) <= cur.end + 1
            \/ Rest(cur.entry) + JumpOut(cur.dollop) <= Room
            \/ Rest(cur.entry) + Beyond(cur.dollop) <= Room
            \/ n <= Room
            \/ TRAMPOLINE_SIZE <= Room
        BY <2>3, <3>2 DEF RoomToGoOn, AbutsAt
      <4> QED BY <2>1, <2>2, <3>2, <4>1 DEF Room
    <3>3. CASE AtEnd
      <4>1. Next_ # None => SizeInclFallthrough(Next_) \in Nat
        BY <2>1, <2>2, SizesAre DEF SizesAddUp, OrNone, Next_
      <4>2. \/ cur.addr <= cur.end + 1
            \/ TRAMPOLINE_SIZE <= Room
            \/ 0 <= Room
            \/ Next_ # None /\ SizeInclFallthrough(Next_) <= Room
        BY <3>3 DEF RoomToEnd, AbutsAt
      <4> QED BY <2>1, <4>1, <4>2 DEF Room
    <3> QED BY <1>3, <3>1, <3>2, <3>3 DEF Placing, AtEnd
  <2> QED BY <1>3, <2>1, <2>4 DEF AssertsHold, Claimed, GivenIsFree, Placing
<1> QED BY <1>1, <1>2, <1>3 DEF Running, Placing


-----------------------------------------------------------------------------
(* Control: why no jump that was left out was needed after all.            *)

(* What is asked of plugins that promise a place in advance: no one but    *)
(* the dollop the promise is made to falls into the dollop it is about,    *)
(* and the promise has room for it, however it is split meanwhile.         *)
Promising(p) == \E h \in Insn : p.plan[h] # None /\ p.plan[h].fallthrough
PromisesHold ==
    \A p \in Programs : Promising(p) =>
        \A f, i \in Insn : p.plan[f] # None /\ p.ft[i] = f =>
            /\ p.plan[f].end - p.plan[f].start >= p.size[f] + TRAMPOLINE_SIZE + 1
            /\ \A j \in Insn : p.ft[j] = f => j = i
InsnsHaveBytes == \A p \in Programs, i \in Insn : p.size[i] # 0

(* Dollop f is about to be put at a.                                       *)
Starting(f, a) == Placing /\ cur.dollop = f /\ cur.entry = f /\ cur.addr = a

(* A pin that lost its patch has its instruction on top of it.             *)
PinsHold == \A f \in Insn : Pinned(f) /\ f \notin patch_list =>
                place[f] = prog.ibta[f] \/ Starting(f, prog.ibta[f])

(* A dollop gets its jump when it is complete.                             *)
JumpsLast == \A h \in Insn : jump[h] # None => Placed(h) /\ ~ (Placing /\ cur.dollop = h)

(* The plugin has said that f, not placed yet, goes to a.                  *)
Foretold(f, a) ==
    ~ Placed(f) /\ Addressed(f) /\ prog.plan[f].start = a /\ Promising(prog)

(* The place remembered for the fallthrough is that of the fallthrough,    *)
(* and a dollop that has been split does not end there.                    *)
FallthroughKnown ==
    Placing /\ ~ cur.am_coalescing /\ cur.ftPlace # None =>
        \/ cur.entry = None /\ cur.addr # cur.ftPlace
        \/ Next_ # None /\ (place[Next_] = cur.ftPlace \/ Foretold(Next_, cur.ftPlace))

(* The loop is going to put the fallthrough of j, or a jump, behind j.     *)
Open(j) ==
    /\ Placing /\ cur.addr = place[j] + prog.size[j]
    /\ IF cur.entry = None THEN j = back(cur.dollop) ELSE prog.ft[j] = cur.entry

(* Dollop f is queued or begun, and goes to a as foretold.                 *)
Promised(f, a) ==
    /\ f \in fronts /\ Foretold(f, a)
    /\ f \in placement_queue \/ Starting(f, a)
    /\ Placing /\ cur.dollop = f => cur.addr = a

(* All entries from h to the end of its dollop, i, are placed.             *)
LaidUpTo(h, i) ==
    \E D \in SUBSET Insn : h \in D /\ EndsAt(EntryAfter, D, i) /\ \A k \in D : Placed(k)

Coming(f)     == Placed(f) \/ f \in placement_queue \/ (Placing /\ cur.dollop = f)
JumpsTo(j, a) == \E h \in fronts : jump[h] = a /\ LaidUpTo(h, j)

Leads(j, f, a) ==
    \/ place[f] = a
    \/ f \in fronts /\ Coming(f) /\ JumpsTo(j, a)
    \/ Pinned(f) /\ prog.ibta[f] = a
    \/ Promised(f, a)
Linked == \A j \in Insn : Placed(j) /\ prog.ft[j] # None /\ ~ Open(j) =>
              Leads(j, prog.ft[j], place[j] + prog.size[j])

FlowInv == PinsHold /\ JumpsLast /\ FallthroughKnown /\ Linked

(* What is placed stays where it is.                                       *)
LEMMA PlacesStay ==
    ASSUME TypeOK, CursorOK, [Next]_vars
    PROVE  /\ prog' = prog /\ fronts \subseteq fronts'
           /\ \A k \in Insn : Placed(k) => place'[k] = place[k] /\ Placed(k)'
<1> USE DEF Placed
<1>1. CASE PlaceEntry
  <2>1. PICK e \in Insn : e = cur.entry
    BY <1>1 DEF PlaceEntry, CursorOK, Locals
  <2>2. place[e] = None /\ place' = [place EXCEPT ![e] = cur.addr]
        /\ UNCHANGED <<prog, fronts>>
    BY <1>1, <2>1 DEF PlaceEntry, CursorOK, Placing
  <2> QED BY <2>2 DEF TypeOK
<1>2. CASE SplitToFit
  BY <1>2 DEF SplitToFit
<1> QED
  BY <1>1, <1>2 DEF Next, vars, SkipPlaced, PlaceByPlugin, PlaceBySizer, Started,
     BeginDollop, NeedsNoJump, AppendJump, Coalesce, ReserveChain

(* When the entries of a dollop are laid down, where the loop goes on.     *)
LEMMA CursorMoves ==
    ASSUME TypeOK, CursorOK, PlaceEntry
    PROVE  \E e \in Insn, a \in Nat :
               /\ e = cur.entry /\ a = cur.addr /\ a # None /\ ~ Placed(e)
               /\ place'[e] = a /\ \A k \in Insn : k # e => place'[k] = place[k]
               /\ cur'.entry = NextEntry(e) /\ cur'.addr = a + prog.size[e]
               /\ cur'.dollop = cur.dollop /\ cur'.ftPlace = cur.ftPlace
               /\ cur'.am_coalescing = cur.am_coalescing
               /\ pc = "entries" /\ pc' = "entries"
               /\ placement_queue \subseteq placement_queue'
               /\ UNCHANGED <<prog, fronts, jump, coalesced, patch_list, free>>
<1>1. cur \in Locals /\ cur.entry \in Insn /\ cur.addr \in Nat /\ ~ Placed(cur.entry)
  BY DEF PlaceEntry, CursorOK, Placing, Locals
<1>2. cur.addr # None
  BY <1>1, NoneAssumption
<1>3. place'[cur.entry] = cur.addr /\ \A k \in Insn : k # cur.entry => place'[k] = place[k]
  BY <1>1 DEF PlaceEntry, TypeOK
<1>4. /\ cur'.entry = NextEntry(cur.entry) /\ cur'.addr = cur.addr + prog.size[cur.entry]
      /\ cur'.dollop = cur.dollop /\ cur'.ftPlace = cur.ftPlace
      /\ cur'.am_coalescing = cur.am_coalescing
  BY <1>1 DEF PlaceEntry, Locals
<1> QED BY <1>1, <1>2, <1>3, <1>4 DEF PlaceEntry

LEMMA PinsHoldStep ==
    ASSUME TypeOK, CursorOK, ProgramOK, PinsHold, [Next]_vars, Running'
    PROVE  PinsHold'
<1> SUFFICES ASSUME NEW f \in Insn, Pinned(f)', f \notin patch_list'
             PROVE  place'[f] = prog'.ibta[f] \/ Starting(f, prog.ibta[f])'
  BY DEF PinsHold
<1>1. prog' = prog /\ \A k \in Insn : Placed(k) => place'[k] = place[k]
  BY PlacesStay
<1>2. Pinned(f) /\ prog.ibta[f] # None
  BY <1>1 DEF Pinned, PinsOf
<1>3. f \notin patch_list => place[f] = prog.ibta[f] \/ Starting(f, prog.ibta[f])
  BY <1>2 DEF PinsHold
<1>4. place[f] = prog.ibta[f] => place'[f] = prog'.ibta[f]
  BY <1>1, <1>2 DEF Placed
<1>5. ASSUME NEW h \in Insn, PlaceByPlugin(h) \/ PlaceBySizer(h)
      PROVE  place'[f] = prog'.ibta[f] \/ Starting(f, prog.ibta[f])'
  <2>1. PICK c : StartsAt(h, c)
    BY <1>5, Starts
  <2>2. pc = "pop" /\ cur' = c /\ c.dollop = h /\ c.entry = h
        /\ patch_list' = patch_list \ (IF AtopOwnPin(h, c.addr) THEN {h} ELSE {})
        /\ pc' \in {"dollop", "spinning", "aborted"}
    BY <2>1 DEF StartsAt, Started
  <2>3. pc' = "dollop"
    BY <2>2 DEF Running
  <2>4. CASE f \in patch_list
    <3>1. f = h /\ prog.ibta[h] = c.addr
      BY <2>2, <2>4 DEF AtopOwnPin
    <3> QED BY <1>1, <2>2, <2>3, <3>1 DEF Starting, Placing
  <2> QED BY <1>3, <1>4, <2>2, <2>4 DEF Starting, Placing
<1>6. CASE PlaceEntry
  <2>1. PICK e \in Insn, a \in Nat :
            e = cur.entry /\ a = cur.addr /\ place'[e] = a /\ patch_list' = patch_list
    BY <1>6, CursorMoves
  <2> QED BY <1>1, <1>3, <1>4, <2>1 DEF Starting
<1>7. CASE SplitToFit
  <2>1. ~ Starting(f, prog.ibta[f]) /\ patch_list' = patch_list
    BY <1>7 DEF SplitToFit, Starting, Running
  <2> QED BY <1>3, <1>4, <2>1
<1>8. CASE BeginDollop
  <2>1. cur \in Locals /\ pc = "dollop" /\ pc' = "entries" /\ patch_list' = patch_list
    BY <1>8 DEF BeginDollop, CursorOK
  <2>2. cur'.dollop = cur.dollop /\ cur'.entry = cur.entry /\ cur'.addr = cur.addr
    BY <1>8, <2>1 DEF BeginDollop, Locals
  <2>3. Starting(f, prog.ibta[f]) => Starting(f, prog.ibta[f])'
    BY <1>1, <2>1, <2>2 DEF Starting, Placing
  <2> QED BY <1>3, <1>4, <2>1, <2>3
<1>9. CASE NeedsNoJump \/ AppendJump \/ Coalesce
  <2>1. cur.entry = None /\ patch_list' = patch_list /\ f # None
    BY <1>9, NoneAssumption DEF NeedsNoJump, AppendJump, Coalesce, AtEnd
  <2> QED BY <1>3, <1>4, <2>1 DEF Starting
<1>10. CASE ReserveChain \/ \E h \in Insn : SkipPlaced(h)
  <2>1. ~ Placing /\ patch_list' = patch_list
    BY <1>10 DEF ReserveChain, SkipPlaced, Placing
  <2> QED BY <1>3, <1>4, <2>1 DEF Starting
<1>11. CASE UNCHANGED vars
  <2>1. Starting(f, prog.ibta[f])' <=> Starting(f, prog.ibta[f])
    BY <1>11 DEF vars, Starting, Placing
  <2> QED BY <1>3, <1>4, <1>11, <2>1 DEF vars
<1> QED BY <1>5, <1>6, <1>7, <1>8, <1>9, <1>10, <1>11 DEF Next

LEMMA JumpsLastStep ==
    ASSUME TypeOK, CursorOK, ProgramOK, JumpsLast, [Next]_vars
    PROVE  JumpsLast'
<1> SUFFICES ASSUME NEW h \in Insn, jump'[h] # None
             PROVE  Placed(h)' /\ ~ (Placing' /\ cur'.dollop = h)
  BY DEF JumpsLast
<1>1. \A k \in Insn : Placed(k) => Placed(k)'
  BY PlacesStay
<1>2. jump[h] # None => Placed(h) /\ ~ (Placing /\ cur.dollop = h)
  BY DEF JumpsLast
<1>3. ASSUME NEW g \in Insn, PlaceByPlugin(g) \/ PlaceBySizer(g)
      PROVE  Placed(h)' /\ ~ (Placing' /\ cur'.dollop = h)
  <2>1. PICK c : StartsAt(g, c)
    BY <1>3, Starts
  <2>2. cur'.dollop = g /\ ~ Placed(g) /\ jump' = jump
    BY <2>1 DEF StartsAt, Started
  <2> QED BY <1>1, <1>2, <2>2
<1>4. CASE PlaceEntry
  <2>1. cur'.dollop = cur.dollop /\ jump' = jump /\ Placing
    BY <1>4, CursorMoves DEF Placing
  <2> QED BY <1>1, <1>2, <2>1
<1>5. CASE BeginDollop \/ SplitToFit
  <2>1. cur \in Locals /\ Placing
    BY <1>5 DEF BeginDollop, SplitToFit, CursorOK, Placing
  <2>2. cur'.dollop = cur.dollop /\ jump' = jump
    BY <1>5, <2>1 DEF BeginDollop, SplitToFit, Locals
  <2> QED BY <1>1, <1>2, <2>1, <2>2
<1>6. CASE AppendJump
  <2>1. ~ Placing' /\ cur.entry = None /\ Placing
    BY <1>6 DEF AppendJump, AtEnd, Placing
  <2>2. Placed(cur.dollop)
    BY <2>1, NoneAssumption DEF CursorOK, TypeOK
  <2>3. h # cur.dollop => jump'[h] = jump[h]
    BY <1>6 DEF AppendJump, TypeOK
  <2> QED BY <1>1, <1>2, <2>1, <2>2, <2>3
<1>7. CASE Coalesce
  <2>1. cur \in Locals /\ jump' = jump /\ ~ Placed(Next_)
    BY <1>7 DEF Coalesce, AtEnd, MayCoalesce, CursorOK
  <2>2. cur'.dollop = Next_
    BY <1>7, <2>1, BackOK DEF Coalesce, Locals
  <2> QED BY <1>1, <1>2, <2>1, <2>2
<1>8. CASE NeedsNoJump \/ ReserveChain \/ \E g \in Insn : SkipPlaced(g)
  <2>1. ~ Placing' /\ jump' = jump
    BY <1>8 DEF NeedsNoJump, ReserveChain, SkipPlaced, Placing
  <2> QED BY <1>1, <1>2, <2>1
<1>9. CASE UNCHANGED vars
  BY <1>1, <1>2, <1>9 DEF vars, Placing
<1> QED BY <1>3, <1>4, <1>5, <1>6, <1>7, <1>8, <1>9 DEF Next

(* What is remembered when a dollop is begun.                              *)
LEMMA StartsForetold ==
    ASSUME TypeOK, ProgramOK, NEW h \in Insn, PlaceByPlugin(h) \/ PlaceBySizer(h),
           cur'.ftPlace # None
    PROVE  LET f == FallthroughDollop(h)
           IN  f # None /\ (place[f] = cur'.ftPlace \/ Foretold(f, cur'.ftPlace))
<1>1. cur'.ftPlace = FallthroughPlace(h) /\ Addressed(h)
  <2>1. CASE PlaceByPlugin(h)
    BY <2>1 DEF PlaceByPlugin, Started, Local
  <2>2. CASE PlaceBySizer(h)
    <3>1. PICK r \in FreeRangesOf(free \cup Handed(prog, h)) :
              Started(h, [Local(h, AlignUp(r.start, AlignmentOf(h)), r.end) EXCEPT
                            !.ftPlace = IF Addressed(h) THEN FallthroughPlace(h)
                                        ELSE None], Handed(prog, h))
      BY <2>2 DEF PlaceBySizer
    <3>2. cur'.ftPlace = IF Addressed(h) THEN FallthroughPlace(h) ELSE None
      BY <3>1 DEF Started, Local
    <3> QED BY <3>2
  <2> QED BY <2>1, <2>2
<1>2. PICK f : f = FallthroughDollop(h)
  OBVIOUS
<1>3. f # None /\ prog.plan[h].fallthrough
  BY <1>1, <1>2 DEF FallthroughPlace
<1>4. Promising(prog)
  BY <1>1, <1>3 DEF Promising, Addressed
<1>5. \/ Placed(f) /\ cur'.ftPlace = place[f]
      \/ ~ Placed(f) /\ Addressed(f) /\ cur'.ftPlace = prog.plan[f].start
  BY <1>1, <1>2 DEF FallthroughPlace
<1> QED BY <1>2, <1>3, <1>4, <1>5 DEF Foretold

(* A dollop that is split has room for a jump behind its last entry, so    *)
(* that is no place anything else has or was promised.                     *)
LEMMA SplitIsElsewhere ==
    ASSUME IInv, RoomInv, FallthroughKnown, PromisesHold, InsnsHaveBytes, SplitToFit,
           ~ cur.am_coalescing, cur.ftPlace # None
    PROVE  cur.addr # cur.ftPlace
<1> USE DEF IInv
<1>1. /\ cur \in Locals /\ cur.addr \in Nat /\ cur.end \in Nat /\ Room \in Int
      /\ TRAMPOLINE_SIZE \in Nat /\ cur.dollop \in Insn /\ cur.entry \in Insn
      /\ cur.entry # None /\ cur.start \in Nat /\ cur.start <= cur.addr /\ pc = "entries"
  BY CursorIs DEF SplitToFit, Placing, RoomInv, CursorOK, Locals
<1>2. PICK a \in Nat : a = cur.addr
  BY <1>1
<1>3. a \in free \ Claimed
  <2>1. cur.entry # cur.dollop
    <3>1. pc' = "entries"
      BY RoomAtSplit
    <3> QED BY <3>1 DEF SplitToFit
  <2>2. ~ cur.abuts /\ ~ cur.fits /\ ~ (cur.allFit /\ cur.allowed_coalescing)
    BY DEF SplitToFit, EntryGoesHere, could_fit_here
  <2>3. TRAMPOLINE_SIZE <= Room
    BY <1>1, <2>1, <2>2 DEF RoomInv, RoomToGoOn
  <2>4. a \in cur.start .. cur.end
    BY <1>1, <1>2, <2>3 DEF Room
  <2>5. a \in free
    BY <1>1, <2>4 DEF RoomInv, GivenIsFree
  <2>6. a \notin Claimed
    BY <1>1, <1>2 DEF Claimed
  <2> QED BY <2>5, <2>6
<1>4. \A x \in Things : a \notin BytesOf(x)
  BY <1>3, RoomInside DEF Apart, AssertsHold
<1> SUFFICES ASSUME a = cur.ftPlace PROVE FALSE
  BY <1>2
<1>5. PICK f : f = Next_
  OBVIOUS
<1>6. f # None /\ (place[f] = a \/ Foretold(f, a))
  BY <1>1, <1>5 DEF FallthroughKnown, Placing
<1>7. f \in Insn /\ f # cur.dollop
  BY <1>1, <1>5, <1>6, CursorIs, FollowedByAnother
     DEF RoomInv, Placing, SizesAddUp, OrNone, Next_
<1>8. Typed(prog) /\ prog.size[f] \in Nat /\ prog.size[f] # 0
  BY <1>7, ProgramsAssumption DEF ProgramOK, Typed, InsnsHaveBytes
<1>9. CASE place[f] = a
  <2>1. <<"entry", f>> \in Things
    BY <1>2, <1>7, <1>9, NoneAssumption DEF Things, Placed
  <2>2. BytesOf(<<"entry", f>>) = BytesFrom(a, prog.size[f])
    BY <1>9 DEF BytesOf
  <2>3. a \in BytesFrom(a, prog.size[f])
    BY <1>8 DEF BytesFrom
  <2> QED BY <1>4, <2>1, <2>2, <2>3
<1>10. CASE Foretold(f, a)
  <2>1. ~ Placed(f) /\ prog.plan[f] # None /\ prog.plan[f].start = a /\ Promising(prog)
    BY <1>10 DEF Foretold, Addressed
  <2>2. PICK i \in Insn : prog.ft[i] = f
    <3>1. back(cur.dollop) \in Insn /\ f = prog.ft[back(cur.dollop)]
      BY <1>1, <1>5, BackOK DEF ProgramOK, Next_, FallthroughDollop
    <3> QED BY <3>1
  <2>3. prog.plan[f].end - a >= prog.size[f] + TRAMPOLINE_SIZE + 1
    BY <1>7, <2>1, <2>2 DEF PromisesHold, ProgramOK
  <2>4. prog.plan[f].end \in Nat
    BY <1>7, <1>8, <2>1 DEF Typed, OrNone, Answers
  <2>5. a \in prog.plan[f].start .. prog.plan[f].end
    BY <1>1, <1>8, <2>1, <2>3, <2>4
  <2>6. Waiting(f)
    BY <1>7, <2>1 DEF Waiting
  <2>7. a \notin Handed(prog, f)
    BY <1>3, <1>7, <2>6 DEF WithPlugins, RoomInv
  <2>8. f \in PinsOf(prog) /\ a \in PinAt(prog, f)
    BY <2>1, <2>5, <2>7 DEF Handed
  <2>9. f \in patch_list
    BY <1>7, <2>6, <2>8 DEF RoomInv, PatchesWait, Pinned
  <2>10. <<"pin", f>> \in Things /\ BytesOf(<<"pin", f>>) = PinAt(prog, f)
    BY <2>9 DEF Things, BytesOf
  <2> QED BY <1>4, <2>8, <2>10
<1> QED BY <1>6, <1>9, <1>10

LEMMA FallthroughKnownStep ==
    ASSUME IInv, RoomInv, FallthroughKnown, PromisesHold, InsnsHaveBytes, [Next]_vars, RoomInv'
    PROVE  FallthroughKnown'
<1> USE DEF IInv
<1> SUFFICES ASSUME Placing', ~ cur'.am_coalescing, cur'.ftPlace # None
             PROVE  \/ cur'.entry = None /\ cur'.addr # cur'.ftPlace
                    \/ Next_' # None /\ (place'[Next_'] = cur'.ftPlace
                                         \/ Foretold(Next_, cur.ftPlace)')
  BY DEF FallthroughKnown
<1>1. ASSUME NEW h \in Insn, PlaceByPlugin(h) \/ PlaceBySizer(h)
      PROVE  Next_' # None /\ (place'[Next_'] = cur'.ftPlace \/ Foretold(Next_, cur.ftPlace)')
  <2>1. PICK c : StartsAt(h, c)
    BY <1>1, Starts
  <2>2. cur'.dollop = h /\ UNCHANGED <<prog, fronts, place>>
    BY <2>1 DEF StartsAt, Started
  <2>3. Next_' = FallthroughDollop(h)
    BY <2>2 DEF Next_, FallthroughDollop, back, NextEntry
  <2>4. \A f, a : Foretold(f, a)' <=> Foretold(f, a)
    BY <2>2 DEF Foretold, Placed, Addressed
  <2> QED BY <1>1, <2>2, <2>3, <2>4, StartsForetold DEF Foretold, Placed, Addressed
<1>2. CASE PlaceEntry
  <2>1. PICK e \in Insn, a \in Nat :
            /\ e = cur.entry /\ a # None /\ ~ Placed(e)
            /\ \A k \in Insn : k # e => place'[k] = place[k]
            /\ cur'.dollop = cur.dollop /\ cur'.ftPlace = cur.ftPlace
            /\ cur'.am_coalescing = cur.am_coalescing
            /\ pc = "entries" /\ UNCHANGED <<prog, fronts>>
    BY <1>2, CursorMoves
  <2>2. PICK f : f = Next_
    OBVIOUS
  <2>3. f # None /\ (place[f] = cur.ftPlace \/ Foretold(f, cur.ftPlace))
    BY <2>1, <2>2, NoneAssumption DEF FallthroughKnown, Placing
  <2>4. Next_' = f
    BY <2>1, <2>2 DEF Next_, FallthroughDollop, back, NextEntry
  <2>5. cur.dollop \in Insn /\ back(cur.dollop) \in Insn /\ f \in fronts /\ f # cur.dollop
    <3>1. cur.dollop \in Insn
      BY <2>1 DEF CursorOK, Placing, TypeOK
    <3> QED BY <2>2, <2>3, <3>1, BackOK, FollowedByAnother DEF ProgramOK, Next_, OrNone
  <2>6. f # e /\ f \in Insn
    BY <2>1, <2>5 DEF CursorOK, Placing, TypeOK
  <2>7. place'[f] = place[f]
    BY <2>1, <2>6
  <2>8. Foretold(f, cur.ftPlace) => Foretold(f, cur.ftPlace)'
    BY <2>1, <2>7 DEF Foretold, Placed, Addressed
  <2> QED BY <2>1, <2>3, <2>4, <2>7, <2>8
<1>3. CASE BeginDollop
  <2>1. /\ cur \in Locals /\ pc = "dollop" /\ cur.entry = cur.dollop
        /\ UNCHANGED <<prog, fronts, place>>
    BY <1>3 DEF BeginDollop, CursorOK
  <2>2. cur'.dollop = cur.dollop /\ cur'.ftPlace = cur.ftPlace
        /\ cur'.am_coalescing = cur.am_coalescing /\ cur.dollop # None
    BY <1>3, <2>1, NoneAssumption DEF BeginDollop, Locals
  <2>3. PICK f : f = Next_ /\ f = Next_'
    BY <2>1, <2>2 DEF Next_, FallthroughDollop, back, NextEntry
  <2>4. f # None /\ (place[f] = cur.ftPlace \/ Foretold(f, cur.ftPlace))
    BY <2>1, <2>2, <2>3 DEF FallthroughKnown, Placing
  <2>5. Foretold(f, cur.ftPlace) => Foretold(f, cur.ftPlace)'
    BY <2>1, <2>2 DEF Foretold, Placed, Addressed
  <2> QED BY <2>1, <2>2, <2>3, <2>4, <2>5
<1>4. CASE SplitToFit
  <2>1. cur \in Locals
    BY <1>4 DEF SplitToFit, CursorOK
  <2>2. cur'.entry = None /\ cur'.addr = cur.addr /\ cur'.ftPlace = cur.ftPlace
        /\ cur'.am_coalescing = cur.am_coalescing
    BY <1>4, <2>1 DEF SplitToFit, Locals
  <2> QED BY <1>4, <2>2, SplitIsElsewhere
<1>5. CASE Coalesce
  <2>1. cur \in Locals
    BY <1>5 DEF Coalesce, AtEnd, CursorOK
  <2>2. cur'.am_coalescing
    BY <1>5, <2>1 DEF Coalesce, Locals
  <2> QED BY <2>2
<1>6. CASE NeedsNoJump \/ AppendJump \/ ReserveChain \/ \E g \in Insn : SkipPlaced(g)
  BY <1>6 DEF NeedsNoJump, AppendJump, ReserveChain, SkipPlaced, Placing
<1>7. CASE UNCHANGED vars
  <2>1. UNCHANGED <<prog, fronts, place, cur, pc>>
    BY <1>7 DEF vars
  <2>2. PICK f : f = Next_ /\ f = Next_'
    BY <2>1 DEF Next_, FallthroughDollop, back, NextEntry
  <2>3. \/ cur.entry = None /\ cur.addr # cur.ftPlace
        \/ f # None /\ (place[f] = cur.ftPlace \/ Foretold(f, cur.ftPlace))
    BY <2>1, <2>2 DEF FallthroughKnown, Placing
  <2>4. Foretold(f, cur.ftPlace) => Foretold(f, cur.ftPlace)'
    BY <2>1 DEF Foretold, Placed, Addressed
  <2> QED BY <2>1, <2>2, <2>3, <2>4
<1> QED BY <1>1, <1>2, <1>3, <1>4, <1>5, <1>6, <1>7 DEF Next

(* At the end of a dollop, all of it is laid down in front of the cursor.  *)
LEMMA LastLaid ==
    ASSUME CursorOK, ProgramOK, LaidInARow, AtEnd, TypeOK
    PROVE  LET b == back(cur.dollop)
           IN  /\ b \in Insn /\ Placed(b) /\ cur.dollop \in fronts
               /\ Next_ = prog.ft[b] /\ Next_ \in OrNone(fronts)
               /\ cur.addr = place[b] + prog.size[b]
               /\ LaidUpTo(cur.dollop, b)
<1>1. cur.dollop \in fronts /\ cur.dollop \in Insn /\ cur.entry = None
  BY DEF AtEnd, CursorOK, Placing, TypeOK
<1>2. cur.entry # cur.dollop
  BY <1>1, NoneAssumption
<1>3. PICK D \in SUBSET Insn : \E j \in D : LaidDown(D, j)
  BY <1>2 DEF LaidInARow, AtEnd
<1>4. PICK j \in D : LaidDown(D, j)
  BY <1>3
<1>5. EndsAt(EntryAfter, D, j)
  BY <1>1, <1>4 DEF LaidDown, EndsAt, EntryAfter
<1>6. back(cur.dollop) = j
  <2>1. cur.dollop \in D
    BY <1>4 DEF LaidDown
  <2> QED BY <1>5, <2>1, BackIs DEF ProgramOK
<1>7. LaidUpTo(cur.dollop, j)
  BY <1>4, <1>5 DEF LaidUpTo, LaidDown
<1>8. Next_ = prog.ft[j] /\ Next_ \in OrNone(fronts)
  BY <1>1, <1>6, BackOK DEF Next_, FallthroughDollop, ProgramOK
<1> QED BY <1>1, <1>4, <1>6, <1>7, <1>8 DEF LaidDown

(* A complete dollop is not split.                                         *)
LEMMA LaidStays ==
    ASSUME TypeOK, CursorOK, ProgramOK, [Next]_vars, NEW h, NEW i, LaidUpTo(h, i)
    PROVE  LaidUpTo(h, i)'
<1>1. PICK D \in SUBSET Insn :
          h \in D /\ EndsAt(EntryAfter, D, i) /\ \A k \in D : Placed(k)
  BY DEF LaidUpTo
<1>2. prog' = prog /\ \A k \in D : Placed(k)'
  BY <1>1, PlacesStay
<1>3. i \in D /\ NextEntry(i) = None /\ \A k \in D : k # i => NextEntry(k) \in D
  BY <1>1 DEF EndsAt, EntryAfter
<1>4. NextEntry(i)' = None /\ \A k \in D : k # i => NextEntry(k)' \in D
  <2>1. CASE SplitToFit
    <3>1. PICK e \in Insn : e = cur.entry
      BY <2>1 DEF SplitToFit, CursorOK, Locals
    <3>2. ~ Placed(e) /\ fronts' = fronts \cup {e}
      BY <2>1, <3>1 DEF SplitToFit, CursorOK, Placing
    <3>3. ASSUME NEW k \in D, k # i PROVE NextEntry(k)' \in D
      <4>1. NextEntry(k) \in D /\ NextEntry(k) # e /\ NextEntry(k) # None
        BY <1>1, <1>3, <3>2, <3>3, NoneAssumption
      <4> QED BY <1>2, <3>2, <4>1 DEF NextEntry
    <3>4. NextEntry(i)' = None
      BY <1>2, <1>3, <3>2 DEF NextEntry
    <3> QED BY <3>3, <3>4
  <2>2. CASE ~ SplitToFit
    <3>1. UNCHANGED fronts
      BY <2>2 DEF Next, vars, SkipPlaced, PlaceByPlugin, PlaceBySizer, Started, BeginDollop,
         PlaceEntry, NeedsNoJump, AppendJump, Coalesce, ReserveChain
    <3> QED BY <1>2, <1>3, <3>1 DEF NextEntry
  <2> QED BY <2>1, <2>2
<1>5. EndsAt(EntryAfter, D, i)'
  BY <1>3, <1>4 DEF EndsAt, EntryAfter
<1> QED BY <1>1, <1>2, <1>5 DEF LaidUpTo

(* What is queued or begun is so until it is placed.                       *)
LEMMA ComingStays ==
    ASSUME TypeOK, CursorOK, ProgramOK, [Next]_vars, Running', NEW f \in Insn, Coming(f)
    PROVE  Coming(f)'
<1>1. Placed(f) => Placed(f)'
  BY PlacesStay
<1>2. ASSUME NEW h \in Insn, SkipPlaced(h) PROVE Coming(f)'
  BY <1>1, <1>2 DEF SkipPlaced, Coming, Placing
<1>3. ASSUME NEW h \in Insn, PlaceByPlugin(h) \/ PlaceBySizer(h) PROVE Coming(f)'
  <2>1. PICK c : StartsAt(h, c)
    BY <1>3, Starts
  <2>2. pc = "pop" /\ placement_queue' = placement_queue \ {h} /\ cur'.dollop = h
        /\ pc' = "dollop"
    BY <2>1 DEF StartsAt, Started, Running
  <2> QED BY <1>1, <2>2 DEF Coming, Placing
<1>4. CASE PlaceEntry
  <2>1. placement_queue \subseteq placement_queue' /\ cur'.dollop = cur.dollop /\ Placing'
    BY <1>4, CursorMoves DEF Placing
  <2> QED BY <1>1, <2>1 DEF Coming
<1>5. CASE BeginDollop \/ SplitToFit
  <2>1. cur \in Locals /\ placement_queue' = placement_queue
    BY <1>5 DEF BeginDollop, SplitToFit, CursorOK
  <2>2. cur'.dollop = cur.dollop /\ Placing'
    BY <1>5, <2>1 DEF BeginDollop, SplitToFit, Locals, Running, Placing
  <2> QED BY <1>1, <2>1, <2>2 DEF Coming
<1>6. CASE NeedsNoJump \/ AppendJump \/ Coalesce
  <2>1. Placed(cur.dollop) /\ placement_queue \subseteq placement_queue'
    BY <1>6, NoneAssumption
       DEF NeedsNoJump, AppendJump, Coalesce, AtEnd, CursorOK, Placing, TypeOK
  <2> QED BY <1>1, <2>1 DEF Coming
<1>7. CASE ReserveChain \/ UNCHANGED vars
  BY <1>1, <1>7 DEF ReserveChain, vars, Coming, Placing
<1> QED BY <1>2, <1>3, <1>4, <1>5, <1>6, <1>7 DEF Next

(* A jump stays where it is.                                               *)
LEMMA JumpStays ==
    ASSUME TypeOK, CursorOK, ProgramOK, JumpsLast, [Next]_vars,
           NEW j \in Insn, NEW a \in Nat, JumpsTo(j, a)
    PROVE  JumpsTo(j, a)'
<1>1. PICK h \in fronts : jump[h] = a /\ LaidUpTo(h, j)
  BY DEF JumpsTo
<1>2. h \in Insn /\ jump[h] # None /\ h \in fronts'
  BY <1>1, PlacesStay, NoneAssumption DEF TypeOK
<1>3. jump'[h] = a
  <2>1. CASE AppendJump
    <3>1. h # cur.dollop
      BY <1>2, <2>1 DEF JumpsLast, AppendJump, AtEnd, Placing
    <3> QED BY <1>1, <1>2, <2>1, <3>1 DEF AppendJump, TypeOK
  <2>2. CASE ~ AppendJump
    BY <1>1, <2>2 DEF Next, vars, SkipPlaced, PlaceByPlugin, PlaceBySizer, Started, BeginDollop,
       PlaceEntry, SplitToFit, NeedsNoJump, Coalesce, ReserveChain
  <2> QED BY <2>1, <2>2
<1>4. LaidUpTo(h, j)'
  BY <1>1, LaidStays
<1> QED BY <1>2, <1>3, <1>4 DEF JumpsTo

(* A promise has room for the dollop, whatever it has come to hold, so the *)
(* plugin's answer is taken when its turn comes.                           *)
LEMMA PromiseIsTaken ==
    ASSUME TypeOK, ProgramOK, CoalescedPlaced, PromisesHold,
           NEW f \in Insn, NEW j \in Insn, prog.ft[j] = f, NEW a, Foretold(f, a),
           PlaceByPlugin(f) \/ PlaceBySizer(f)
    PROVE  cur'.addr = a
<1>1. /\ ~ Placed(f) /\ Addressed(f) /\ prog.plan[f] # None /\ prog.plan[f].start = a
      /\ Promising(prog)
  BY DEF Foretold, Addressed
<1>2. prog.plan[f].end - prog.plan[f].start >= prog.size[f] + TRAMPOLINE_SIZE + 1
  BY <1>1 DEF PromisesHold, ProgramOK
<1>3. /\ prog.plan[f].end \in Nat /\ prog.plan[f].start \in Nat /\ prog.size[f] \in Nat
      /\ TRAMPOLINE_SIZE \in Nat
  BY <1>1, ProgramsAssumption, SizesAssumption DEF ProgramOK, Typed, OrNone, Answers
<1>4. PICK m \in Nat : m = SizeInclFallthrough(f)
  BY SizesAre DEF SizesAddUp
<1>5. PICK n \in Nat : n = EntrySize(f, TRUE) /\ n = prog.size[f] + TRAMPOLINE_SIZE
  BY <1>3 DEF EntrySize
<1>6. Needed(f) \in Nat /\ Needed(f) <= n
  <2>1. Needed(f) = IF n < m THEN n ELSE m
    BY <1>4, <1>5 DEF Needed, Lesser
  <2> QED BY <2>1
<1>7. Accepted(f)
  <2>1. prog.plan[f].end - prog.plan[f].start >= n + 1
    BY <1>2, <1>3, <1>5
  <2>2. prog.plan[f].end - prog.plan[f].start >= minimum_valid_req_size(f)
    BY <1>3, <1>6, <2>1 DEF minimum_valid_req_size
  <2> QED BY <2>2 DEF Accepted
<1>8. PlaceByPlugin(f)
  BY <1>1, <1>7 DEF PlaceBySizer
<1> QED BY <1>1, <1>8 DEF PlaceByPlugin, Started, Local

(* A promise that control behind j relies on is kept.                      *)
LEMMA PromisedStays ==
    ASSUME IInv, RoomInv, PromisesHold, [Next]_vars, RoomInv',
           NEW j \in Insn, NEW f \in Insn, NEW a \in Nat,
           prog.ft[j] = f, a = place[j] + prog.size[j], ~ Open(j), Promised(f, a)
    PROVE  place'[f] = a \/ Promised(f, a)'
<1> USE DEF IInv
<1>1. /\ f \in fronts /\ ~ Placed(f) /\ Foretold(f, a)
      /\ f \in placement_queue \/ Starting(f, a)
      /\ Placing /\ cur.dollop = f => cur.addr = a
  BY DEF Promised, Foretold
<1>2. prog' = prog /\ f \in fronts' /\ Running' /\ CoalescedPlaced
  BY <1>1, PlacesStay DEF RoomInv
<1>3. ASSUME place' = place PROVE Foretold(f, a)'
  BY <1>1, <1>2, <1>3 DEF Foretold, Placed, Addressed
<1>4. ASSUME NEW h \in Insn, SkipPlaced(h) PROVE Promised(f, a)'
  <2>1. h # f /\ ~ Placing /\ ~ Placing' /\ place' = place
        /\ placement_queue' = placement_queue \ {h}
    BY <1>1, <1>4 DEF SkipPlaced, Placing
  <2> QED BY <1>1, <1>2, <1>3, <2>1 DEF Promised, Starting
<1>5. ASSUME NEW h \in Insn, PlaceByPlugin(h) \/ PlaceBySizer(h) PROVE Promised(f, a)'
  <2>1. PICK c : StartsAt(h, c)
    BY <1>5, Starts
  <2>2. /\ pc = "pop" /\ placement_queue' = placement_queue \ {h} /\ place' = place
        /\ cur'.dollop = h /\ cur'.entry = h /\ pc' = "dollop"
    BY <1>2, <2>1 DEF StartsAt, Started, Running
  <2>3. ~ Placing /\ Placing' /\ f \in placement_queue
    BY <1>1, <2>2 DEF Placing, Starting
  <2>4. CASE h = f
    <3>1. cur'.addr = a
      BY <1>1, <1>2, <1>5, <2>4, PromiseIsTaken
    <3> QED BY <1>2, <1>3, <2>2, <2>3, <2>4, <3>1 DEF Promised, Starting
  <2>5. CASE h # f
    BY <1>2, <1>3, <2>2, <2>3, <2>5 DEF Promised
  <2> QED BY <2>4, <2>5
<1>6. CASE PlaceEntry
  <2>1. PICK e \in Insn, b \in Nat :
            /\ e = cur.entry /\ b = cur.addr /\ place'[e] = b
            /\ \A k \in Insn : k # e => place'[k] = place[k]
            /\ cur'.dollop = cur.dollop /\ pc = "entries"
            /\ placement_queue \subseteq placement_queue'
    BY <1>6, CursorMoves
  <2>2. CASE e = f
    <3>1. cur.dollop = f /\ Placing
      BY <1>1, <2>1, <2>2, NoneAssumption DEF CursorOK, Placing
    <3> QED BY <1>1, <2>1, <2>2, <3>1
  <2>3. CASE e # f
    <3>1. ~ (Placing /\ cur.dollop = f)
      <4>1. SUFFICES ASSUME cur.dollop = f PROVE FALSE
        OBVIOUS
      <4>2. cur.entry # cur.dollop
        BY <2>1, <2>3, <4>1
      <4> QED BY <1>1, <2>1, <4>1, <4>2 DEF CursorOK, Placing
    <3>2. place'[f] = place[f] /\ f \in placement_queue
      BY <1>1, <2>1, <2>3, <3>1 DEF Starting
    <3>3. Foretold(f, a)'
      BY <1>1, <1>2, <3>2 DEF Foretold, Placed, Addressed
    <3>4. cur'.dollop # f
      BY <2>1, <3>1 DEF Placing
    <3> QED BY <1>2, <2>1, <3>2, <3>3, <3>4 DEF Promised
  <2> QED BY <2>2, <2>3
<1>7. CASE BeginDollop
  <2>1. cur \in Locals /\ Placing /\ Placing' /\ place' = place
        /\ placement_queue' = placement_queue
    BY <1>7 DEF BeginDollop, CursorOK, Placing
  <2>2. cur'.dollop = cur.dollop /\ cur'.entry = cur.entry /\ cur'.addr = cur.addr
    BY <1>7, <2>1 DEF BeginDollop, Locals
  <2> QED BY <1>1, <1>2, <1>3, <2>1, <2>2 DEF Promised, Starting
<1>8. CASE SplitToFit
  <2>1. cur \in Locals /\ Placing /\ cur.entry # cur.dollop /\ place' = place
        /\ placement_queue' = placement_queue
    BY <1>2, <1>8 DEF SplitToFit, CursorOK, Placing, Running
  <2>2. cur'.dollop = cur.dollop /\ cur'.addr = cur.addr
    BY <1>8, <2>1 DEF SplitToFit, Locals
  <2>3. f \in placement_queue
    BY <1>1, <2>1 DEF Starting
  <2> QED BY <1>1, <1>2, <1>3, <2>1, <2>2, <2>3 DEF Promised
<1>9. CASE NeedsNoJump \/ AppendJump
  <2>1. ~ Placing' /\ cur.entry = None /\ place' = place
        /\ placement_queue \subseteq placement_queue'
    BY <1>9 DEF NeedsNoJump, AppendJump, AtEnd, Placing
  <2>2. f \in placement_queue
    BY <1>1, <2>1, NoneAssumption DEF Starting
  <2> QED BY <1>2, <1>3, <2>1, <2>2 DEF Promised
<1>10. CASE Coalesce
  <2>1. AtEnd /\ cur.entry = None /\ Placing /\ cur \in Locals /\ place' = place
        /\ placement_queue' = placement_queue
    BY <1>10 DEF Coalesce, AtEnd, Placing, CursorOK
  <2>2. cur'.dollop = Next_
    BY <1>10, <2>1 DEF Coalesce, Locals
  <2>3. f \in placement_queue
    BY <1>1, <2>1, NoneAssumption DEF Starting
  <2>4. Next_ # f
    <3> SUFFICES ASSUME Next_ = f PROVE FALSE
      OBVIOUS
    <3>1. PICK b \in Insn : /\ b = back(cur.dollop) /\ prog.ft[b] = f
                            /\ cur.addr = place[b] + prog.size[b]
      BY <2>1, LastLaid
    <3>2. b = j
      BY <1>1, <3>1 DEF PromisesHold, ProgramOK, Foretold, Addressed
    <3> QED BY <2>1, <3>1, <3>2 DEF Open
  <2> QED BY <1>2, <1>3, <2>1, <2>2, <2>3, <2>4 DEF Promised
<1>11. CASE ReserveChain
  <2>1. ~ Placing /\ ~ Placing' /\ place' = place /\ placement_queue' = placement_queue
    BY <1>11, <1>2 DEF ReserveChain, Placing
  <2> QED BY <1>1, <1>2, <1>3, <2>1 DEF Promised, Starting
<1>12. CASE UNCHANGED vars
  BY <1>1, <1>2, <1>3, <1>12 DEF vars, Promised, Starting, Placing
<1> QED
  BY <1>4, <1>5, <1>6, <1>7, <1>8, <1>9, <1>10, <1>11, <1>12 DEF Next

(* What control behind j was found to lead to, it leads to.                *)
LEMMA LeadsStay ==
    ASSUME IInv, RoomInv, FlowInv, PromisesHold, [Next]_vars, RoomInv',
           NEW j \in Insn, NEW f \in Insn, NEW a \in Nat,
           prog.ft[j] = f, a = place[j] + prog.size[j], ~ Open(j), Leads(j, f, a)
    PROVE  Leads(j, f, a)'
<1> USE DEF IInv, FlowInv
<1>1. prog' = prog /\ fronts \subseteq fronts' /\ Running'
      /\ \A k \in Insn : Placed(k) => place'[k] = place[k]
  BY PlacesStay DEF RoomInv
<1>2. CASE place[f] = a
  <2>1. place'[f] = a
    BY <1>1, <1>2, NoneAssumption DEF Placed
  <2> QED BY <2>1 DEF Leads
<1>3. CASE f \in fronts /\ Coming(f) /\ JumpsTo(j, a)
  <2>1. Coming(f)' /\ JumpsTo(j, a)'
    BY <1>1, <1>3, ComingStays, JumpStays
  <2> QED BY <1>1, <1>3, <2>1 DEF Leads
<1>4. CASE Pinned(f) /\ prog.ibta[f] = a
  BY <1>1, <1>4 DEF Leads, Pinned, PinsOf
<1>5. CASE Promised(f, a)
  <2>1. place'[f] = a \/ Promised(f, a)'
    BY <1>5, PromisedStays
  <2> QED BY <2>1 DEF Leads
<1> QED BY <1>2, <1>3, <1>4, <1>5 DEF Leads

(* back, after a step.                                                     *)
BacksEnd == \A D \in SUBSET Insn, v \in Insn :
                EndsAt(EntryAfter, D, v) => \A h \in D : back(h) = v

LEMMA BacksAre == ProgramOK => BacksEnd
<1> SUFFICES ASSUME ProgramOK, NEW D \in SUBSET Insn, NEW v \in Insn,
                    EndsAt(EntryAfter, D, v), NEW h \in D
             PROVE  back(h) = v
  BY DEF BacksEnd
<1> QED BY BackIs DEF ProgramOK

LEMMA BackIsNext ==
    ASSUME ProgramOK', NEW E \in SUBSET Insn, NEW w \in Insn, EndsAt(EntryAfter, E, w)',
           NEW k \in E
    PROVE  back(k)' = w
<1>1. ProgramOK' => BacksEnd'
  BY BacksAre, PTL
<1> QED BY <1>1 DEF BacksEnd

(* What the loop does behind the entry it has just put down.               *)
LEMMA OpenEnds ==
    ASSUME IInv, RoomInv, FlowInv, [Next]_vars, RoomInv', IInv',
           NEW j \in Insn, NEW f \in Insn, NEW a \in Nat, Placed(j),
           prog.ft[j] = f, a = place[j] + prog.size[j], Open(j)
    PROVE  Open(j)' \/ Leads(j, f, a)'
<1> USE DEF IInv
<1>1. /\ prog' = prog /\ fronts \subseteq fronts' /\ place'[j] = place[j]
      /\ f # None /\ Placing /\ cur.addr = a /\ cur \in Locals
  BY PlacesStay, NoneAssumption DEF Open, CursorOK, Placing
<1>2. cur.entry # None => f = cur.entry
  BY DEF Open
<1>3. CASE PlaceEntry
  <2>1. place'[f] = a
    BY <1>1, <1>2, <1>3, CursorMoves DEF PlaceEntry
  <2> QED BY <2>1 DEF Leads
<1>4. CASE BeginDollop
  <2>1. /\ cur'.entry = cur.entry /\ cur'.addr = cur.addr /\ Placing'
        /\ cur.entry = cur.dollop /\ cur.dollop # None
    BY <1>1, <1>4, NoneAssumption DEF BeginDollop, Locals, Placing, CursorOK
  <2> QED BY <1>1, <1>2, <2>1 DEF Open
<1>5. CASE SplitToFit
  <2>1. /\ f = cur.entry /\ ~ Placed(f) /\ f # cur.dollop /\ f \notin fronts
        /\ fronts' = fronts \cup {f} /\ pc' = "entries" /\ place' = place
        /\ pc = "entries"
    BY <1>2, <1>5 DEF SplitToFit, CursorOK, Placing, RoomInv, Running
  <2>2. cur'.entry = None /\ cur'.dollop = cur.dollop /\ cur'.addr = cur.addr
    BY <1>1, <1>5 DEF SplitToFit, Locals
  <2>3. PICK D \in SUBSET Insn : \E i \in D : LaidDown(D, i)
    BY <2>1 DEF LaidInARow
  <2>4. PICK i \in D : LaidDown(D, i)
    BY <2>3
  <2>5. NextEntry(i) = f /\ prog.ft[i] = f
    BY <1>1, <2>1, <2>4 DEF LaidDown, NextEntry
  <2>6. i = j
    <3>1. f \notin prog.fronts
      BY <2>1 DEF ProgramOK
    <3> QED BY <2>5, <3>1, ProgramsAssumption DEF ProgramOK, DollopsAreChains
  <2>7. EndsAt(EntryAfter, D, j)'
    <3>1. ASSUME NEW k \in D, k # j PROVE NextEntry(k)' \in D
      <4>1. NextEntry(k) \in D /\ NextEntry(k) # f /\ NextEntry(k) # None
        BY <2>1, <2>4, <2>6, <3>1, NoneAssumption DEF LaidDown
      <4> QED BY <1>1, <2>1, <4>1 DEF NextEntry
    <3>2. NextEntry(j)' = None
      BY <1>1, <2>1 DEF NextEntry
    <3> QED BY <2>6, <3>1, <3>2 DEF EndsAt, EntryAfter
  <2>8. back(cur.dollop)' = j
    <3>1. PICK d : d = cur.dollop /\ d = cur'.dollop
      BY <2>2
    <3>2. d \in D
      BY <2>4, <3>1 DEF LaidDown
    <3>3. back(d)' = j
      BY <2>7, <3>2, BackIsNext
    <3> QED BY <3>1, <3>3
  <2> QED BY <1>1, <2>1, <2>2, <2>8 DEF Open, Placing
<1>6. ASSUME AtEnd
      PROVE  /\ Next_ = f /\ j = back(cur.dollop) /\ f \in fronts
             /\ cur.dollop \in fronts /\ LaidUpTo(cur.dollop, j)
  <2>1. j = back(cur.dollop)
    BY <1>6 DEF AtEnd, Open
  <2> QED BY <1>1, <1>6, <2>1, LastLaid DEF OrNone
<1>7. CASE NeedsNoJump
  <2>1. AtEnd /\ pc' = "reserve" /\ UNCHANGED <<place, fronts>>
    BY <1>7 DEF NeedsNoJump
  <2>2. Next_ = f /\ f \in fronts
    BY <1>6, <2>1
  <2>3. CASE RunsIntoPin
    <3>1. Pinned(f) /\ prog.ibta[f] = a
      BY <1>1, <2>2, <2>3 DEF RunsIntoPin
    <3> QED BY <1>1, <3>1 DEF Leads, Pinned, PinsOf
  <2>4. CASE ~ RunsIntoPin
    <3>1. RunsIntoCode /\ (~ Placed(f) => f \in placement_queue')
      BY <1>1, <1>7, <2>2, <2>4 DEF NeedsNoJump
    <3>2. cur.ftPlace = a /\ ~ cur.am_coalescing /\ cur.ftPlace # None
      BY <1>1, <3>1 DEF RunsIntoCode
    <3>3. place[f] = a \/ Foretold(f, a)
      BY <1>1, <2>2, <3>2 DEF FlowInv, FallthroughKnown
    <3>4. CASE Foretold(f, a)
      <4>1. f \in placement_queue'
        BY <3>1, <3>4 DEF Foretold
      <4>2. Foretold(f, a)'
        BY <1>1, <2>1, <3>4 DEF Foretold, Placed, Addressed
      <4>3. ~ Placing'
        BY <2>1 DEF Placing
      <4> QED BY <2>1, <2>2, <4>1, <4>2, <4>3 DEF Leads, Promised
    <3> QED BY <2>1, <3>3, <3>4 DEF Leads
  <2> QED BY <2>3, <2>4
<1>8. CASE AppendJump
  <2>1. AtEnd /\ placement_queue' = placement_queue \cup {Next_}
        /\ jump' = [jump EXCEPT ![cur.dollop] = cur.addr]
    BY <1>8 DEF AppendJump
  <2>2. /\ Next_ = f /\ f \in fronts /\ cur.dollop \in fronts /\ cur.dollop \in Insn
        /\ LaidUpTo(cur.dollop, j)
    BY <1>6, <2>1 DEF TypeOK
  <2>3. PICK d : d = cur.dollop
    OBVIOUS
  <2>4. jump'[d] = a /\ d \in fronts'
    BY <1>1, <2>1, <2>2, <2>3 DEF TypeOK
  <2>5. LaidUpTo(d, j)'
    BY <2>2, <2>3, LaidStays
  <2>6. JumpsTo(j, a)' /\ Coming(f)'
    BY <2>1, <2>2, <2>4, <2>5 DEF JumpsTo, Coming
  <2> QED BY <1>1, <2>2, <2>6 DEF Leads
<1>9. CASE Coalesce
  <2>1. AtEnd
    BY <1>9 DEF Coalesce
  <2>2. cur'.entry = f /\ cur'.addr = a /\ Placing'
    <3>1. Next_ = f
      BY <1>6, <2>1
    <3> QED BY <1>1, <1>9, <3>1 DEF Coalesce, Locals, Placing
  <2> QED BY <1>1, <2>2 DEF Open
<1>10. CASE UNCHANGED vars
  <2>1. UNCHANGED <<prog, fronts, place, cur, pc>>
    BY <1>10 DEF vars
  <2>2. back(cur.dollop)' = back(cur.dollop)
    BY <2>1 DEF back, NextEntry
  <2> QED BY <2>1, <2>2 DEF Open, Placing
<1> QED
  BY <1>1, <1>3, <1>4, <1>5, <1>7, <1>8, <1>9, <1>10
     DEF Next, SkipPlaced, PlaceByPlugin, PlaceBySizer, ReserveChain, Placing

LEMMA LinkedStep ==
    ASSUME IInv, RoomInv, FlowInv, PromisesHold, [Next]_vars, RoomInv', IInv'
    PROVE  Linked'
<1> SUFFICES ASSUME NEW j \in Insn, Placed(j)', prog'.ft[j] # None, ~ Open(j)'
             PROVE  Leads(j, prog.ft[j], place[j] + prog.size[j])'
  BY DEF Linked
<1> USE DEF IInv
<1>1. prog' = prog /\ (Placed(j) => place'[j] = place[j])
  BY PlacesStay
<1>2. PICK f \in Insn : f = prog.ft[j]
  BY <1>1, ProgramsAssumption DEF ProgramOK, Typed, OrNone
<1>3. CASE Placed(j)
  <2>1. PICK a \in Nat : a = place[j] + prog.size[j]
    <3>1. prog.size[j] \in Nat /\ place[j] \in Nat
      BY <1>3, ProgramsAssumption DEF ProgramOK, Typed, Placed, TypeOK
    <3> QED BY <3>1
  <2>2. Leads(j, f, a)'
    <3>1. CASE Open(j)
      BY <1>2, <1>3, <2>1, <3>1, OpenEnds
    <3>2. CASE ~ Open(j)
      <4>1. Leads(j, f, a)
        BY <1>1, <1>2, <1>3, <2>1, <3>2, NoneAssumption DEF FlowInv, Linked
      <4> QED BY <1>2, <2>1, <3>2, <4>1, LeadsStay
    <3> QED BY <3>1, <3>2
  <2>3. a = place'[j] + prog'.size[j] /\ f = prog'.ft[j]
    BY <1>1, <1>2, <1>3, <2>1
  <2> QED BY <2>2, <2>3
<1>4. CASE ~ Placed(j)
  <2>1. PlaceEntry
    BY <1>4 DEF Placed, Next, vars, SkipPlaced, PlaceByPlugin, PlaceBySizer, Started,
       BeginDollop, SplitToFit, NeedsNoJump, AppendJump, Coalesce, ReserveChain
  <2>2. PICK e \in Insn, b \in Nat :
            /\ e = cur.entry /\ place'[e] = b
            /\ \A k \in Insn : k # e => place'[k] = place[k]
            /\ cur'.entry = NextEntry(e) /\ cur'.addr = b + prog.size[e]
            /\ cur'.dollop = cur.dollop /\ pc = "entries" /\ pc' = "entries"
            /\ UNCHANGED <<prog, fronts>>
    BY <2>1, CursorMoves
  <2>3. j = e
    BY <1>4, <2>2 DEF Placed
  <2>4. cur'.addr = place'[j] + prog'.size[j] /\ Placing'
    BY <1>1, <2>2, <2>3 DEF Placing
  <2>5. CASE cur'.entry = None
    <3>1. back(e) = back(cur.dollop) /\ back(e) = e
      BY <2>2, <2>5, BackAlong, NoneAssumption DEF RoomInv, RoomToGoOn, BackEq
    <3>2. PICK d : d = cur.dollop /\ d = cur'.dollop
      BY <2>2
    <3>3. back(d)' = back(d)
      BY <2>2 DEF back, NextEntry
    <3> QED BY <2>3, <2>4, <2>5, <3>1, <3>2, <3>3 DEF Open
  <2>6. CASE cur'.entry # None
    <3>1. prog.ft[j] = cur'.entry
      BY <2>2, <2>3, <2>6 DEF NextEntry
    <3> QED BY <1>1, <2>4, <2>6, <3>1 DEF Open
  <2> QED BY <2>5, <2>6
<1> QED BY <1>3, <1>4

LEMMA FlowStep ==
    ASSUME IInv, RoomInv, FlowInv, PromisesHold, InsnsHaveBytes, [Next]_vars, RoomInv', IInv'
    PROVE  FlowInv'
<1>1. PinsHold' /\ JumpsLast'
  BY PinsHoldStep, JumpsLastStep DEF IInv, RoomInv, FlowInv
<1>2. FallthroughKnown'
  BY FallthroughKnownStep DEF FlowInv
<1>3. Linked'
  BY LinkedStep
<1> QED BY <1>1, <1>2, <1>3 DEF FlowInv

(* With an empty queue, nothing is only promised or queued.                *)
LEMMA FlowInside ==
    ASSUME IInv, RoomInv, FlowInv
    PROVE  ControlFollows
<1> SUFFICES ASSUME Done, NEW i \in Insn, Placed(i), prog.ft[i] # None,
                    NEW f, f = prog.ft[i], NEW a, a = place[i] + prog.size[i]
             PROVE  /\ Placed(f)
                    /\ \/ place[f] = a
                       \/ f \in fronts /\ \E h \in fronts :
                                              jump[h] = a /\ FallthroughDollop(h) = f
                       \/ f \in patch_list /\ prog.ibta[f] = a
  BY DEF ControlFollows
<1> USE DEF IInv
<1>1. pc = "pop" /\ ~ Placing /\ placement_queue = {} /\ f \in Insn
  BY ProgramsAssumption DEF Done, Placing, ProgramOK, Typed, OrNone
<1>2. Leads(i, f, a)
  BY <1>1 DEF FlowInv, Linked, Open
<1>3. CASE place[f] = a
  <2>1. a \in Nat
    <3>1. prog.size[i] \in Nat /\ place[i] \in Nat
      BY ProgramsAssumption DEF ProgramOK, Typed, Placed, TypeOK
    <3> QED BY <3>1
  <2> QED BY <1>3, <2>1, NoneAssumption DEF Placed
<1>4. CASE f \in fronts /\ Coming(f) /\ JumpsTo(i, a)
  <2>1. Placed(f)
    BY <1>1, <1>4 DEF Coming
  <2>2. PICK h \in fronts : jump[h] = a /\ LaidUpTo(h, i)
    BY <1>4 DEF JumpsTo
  <2>3. PICK D \in SUBSET Insn : h \in D /\ EndsAt(EntryAfter, D, i)
    BY <2>2 DEF LaidUpTo
  <2>4. back(h) = i
    BY <2>3, BackIs DEF ProgramOK
  <2> QED BY <1>4, <2>1, <2>2, <2>4 DEF FallthroughDollop
<1>5. CASE Pinned(f) /\ prog.ibta[f] = a
  <2>1. Placed(f)
    BY <1>1, <1>5 DEF Remembered, Running, Wanted
  <2>2. f \in patch_list \/ place[f] = a
    BY <1>1, <1>5 DEF FlowInv, PinsHold, Starting
  <2> QED BY <1>5, <2>1, <2>2
<1>6. CASE Promised(f, a)
  BY <1>1, <1>6 DEF Promised, Starting
<1> QED BY <1>2, <1>3, <1>4, <1>5, <1>6 DEF Leads

-----------------------------------------------------------------------------
(* The theorems.                                                           *)

LEMMA Initially == Init => IInv
<1> SUFFICES ASSUME Init PROVE IInv
  OBVIOUS
<1> USE DEF Init
<1>1. Typed(prog) /\ BytesAreApart(prog)
  BY ProgramsAssumption
<1>2. \A i \in Insn : ~ Placed(i)
  BY DEF Placed
<1>3. patch_list = PinsOf(prog) /\ \A i \in Insn : Pinned(i) <=> i \in PinsOf(prog)
  BY DEF Pinned, PinsOf
<1>4. TypeOK
  <2>1. patch_list \subseteq fronts
    BY <1>1, <1>3 DEF Typed, PinsOf
  <2> QED BY <1>1, <2>1 DEF TypeOK, Typed
<1>5. CursorOK /\ ProgramOK
  BY <1>3 DEF CursorOK, ProgramOK, Placing
<1>6. WithPlugins
  BY <1>1 DEF WithPlugins, BytesAreApart
<1>7. Apart
  <2>1. Things = {<<"pin", i>> : i \in PinsOf(prog)}
    BY <1>2, <1>3 DEF Things
  <2>2. \A i \in PinsOf(prog) : BytesOf(<<"pin", i>>) = PinAt(prog, i)
    BY DEF BytesOf
  <2>3. /\ \A i, j \in PinsOf(prog) : i # j => PinAt(prog, i) \cap PinAt(prog, j) = {}
        /\ \A i \in PinsOf(prog) : PinAt(prog, i) \cap free = {}
        /\ \A i \in PinsOf(prog), h \in Insn : Handed(prog, h) \cap PinAt(prog, i) = {}
    BY <1>1 DEF BytesAreApart
  <2> HIDE DEF Init
  <2> QED BY <2>1, <2>2, <2>3 DEF Apart
<1>8. Remembered
  BY <1>2, <1>3 DEF Remembered, Wanted
<1>9. InOrder /\ AllAligned /\ AlignedNext /\ LaidInARow
  BY <1>2 DEF InOrder, AllAligned, AlignedNext, LaidInARow, Placing
<1> QED BY <1>4, <1>5, <1>6, <1>7, <1>8, <1>9 DEF IInv

(* The inductive invariant: what the loop relies on when it stops between  *)
(* two entries.                                                            *)
THEOREM Invariance == Spec => []IInv
<1>1. IInv /\ [Next]_vars => IInv'
  BY TypeStep, CursorStep, PluginsStep, ApartStep, RememberedStep, InOrderStep,
     AlignedStep, AlignedNextStep, LaidStep DEF IInv
<1> QED BY Initially, <1>1, PTL DEF Spec

(* PlaceDollops puts no entry, no appended jump and no pin over another,   *)
(* and leaves no byte of one free for the next dollop, whatever plugins    *)
(* answer, as long as splitFreeRange's assertion holds.                    *)
THEOREM BytesAreKept == Spec => []PlacedBytesAreKept
<1>1. IInv => PlacedBytesAreKept
  BY DEF IInv, Apart, PlacedBytesAreKept
<1> QED BY <1>1, Invariance, PTL

(* When the queue of PlaceDollops is empty, pins, references and targets   *)
(* of branches have their place, and it is aligned where it has to be.     *)
THEOREM AllIsPlaced == Spec => []NothingForgotten
<1>1. IInv => NothingForgotten
  <2> SUFFICES ASSUME IInv, Done, NEW i \in Insn
               PROVE  /\ Wanted(i) => Placed(i)
                      /\ Placed(i) /\ prog.ibta[i] = 0 => Aligned(i)
    BY DEF NothingForgotten, Wanted
  <2>1. Running /\ ~ Placing /\ placement_queue = {}
    BY DEF Done, Running, Placing
  <2> QED BY <2>1 DEF IInv, Remembered, AllAligned
<1> QED BY <1>1, Invariance, PTL

LEMMA RoomInitially == Init => RoomInv
  BY DEF Init, RoomInv, RoomToStart, RoomToGoOn, RoomToEnd, AtEnd, RoomUsed, GivenIsFree,
         PatchesWait, Pinned, CoalescedPlaced, Running

(* No chain leaves the free bytes it was given, no dollop loses its first  *)
(* entry, and no pin is missing its patch: no assertion of PlaceDollops    *)
(* and splitFreeRange fails, when plugins answer with room and pins are    *)
(* where an unsigned int can count.                                        *)
THEOREM PlacementAssertsHold == RoomyPlans /\ PinsBelow => (Spec => []AssertsHold)
<1> SUFFICES ASSUME RoomyPlans, PinsBelow PROVE Spec => []AssertsHold
  OBVIOUS
<1>1. Init => RoomInv
  BY RoomInitially
<1>2. IInv /\ IInv' /\ RoomInv /\ [Next]_vars => RoomInv'
  BY RoomStep
<1>3. IInv /\ RoomInv => AssertsHold
  BY RoomInside
<1> QED BY Invariance, <1>1, <1>2, <1>3, PTL DEF Spec

(* Control goes on from each placed entry where the program says: every    *)
(* jump PlaceDollops leaves out, at a pin, at preplaced code or between    *)
(* joined dollops, was not needed.  Of plugins that promise a place in     *)
(* advance it takes what the loop never checks: that no other dollop falls *)
(* into the promised one, and that the promise outlasts a split.           *)
THEOREM NoJumpIsMissed ==
    RoomyPlans /\ PinsBelow /\ PromisesHold /\ InsnsHaveBytes => (Spec => []ControlFollows)
<1> SUFFICES ASSUME RoomyPlans, PinsBelow, PromisesHold, InsnsHaveBytes
             PROVE  Spec => []ControlFollows
  OBVIOUS
<1>1. Init => RoomInv /\ FlowInv
  <2>1. Init => RoomInv
    BY RoomInitially
  <2>2. Init => FlowInv
    BY DEF Init, FlowInv, PinsHold, JumpsLast, FallthroughKnown, Linked, Placing, Placed
  <2> QED BY <2>1, <2>2
<1>2. IInv /\ IInv' /\ RoomInv /\ [Next]_vars => RoomInv'
  BY RoomStep
<1>3. IInv /\ IInv' /\ RoomInv /\ RoomInv' /\ FlowInv /\ [Next]_vars => FlowInv'
  BY FlowStep
<1>4. IInv /\ RoomInv /\ FlowInv => ControlFollows
  BY FlowInside
<1> QED BY Invariance, <1>1, <1>2, <1>3, <1>4, PTL DEF Spec

=============================================================================
